---------------------------- MODULE StanzaMetrics ----------------------------
(***************************************************************************)
(* What the fields of a `pgbackrest info' reply turn into: the command     *)
(* lines the exporter runs, and the label sets and values it publishes for *)
(* stanzas, repositories, WAL archives and backups.                        *)
(*                                                                         *)
(* A gauge vector declares its label names once, in a list; every store    *)
(* passes the label values as another list, in the same order, and only    *)
(* the length is compared.  Both lists are transcribed here, so a value    *)
(* under the wrong name would show.                                        *)
(*                                                                         *)
(* Order and interleaving of the steps are module Collector's: here one    *)
(* list entry is collected over and over, a cycle at a time.  Which backup *)
(* a `last' series shows is taken from LastBackupRule, which module        *)
(* BackupMetrics implements; how references are counted is BackupMetrics'. *)
(***************************************************************************)
EXTENDS Integers, Sequences, FiniteSets, TLC

CONSTANTS
  CommandLines,  \* the flags and the list entry
  Replies,       \* what `pgbackrest info' may print: sequences of stanzas
  Clock,         \* the cycle's clock
  MaxCycles,     \* bound: cycles
  MaxFailures    \* bound: pgBackRest calls that fail

\* A pointer field the reply does not have (an older pgBackRest).
Absent   == -1
Optional == Nat \cup {Absent}

Lock   == [held: BOOLEAN, size: Optional, complete: Optional]
Status == [code: Nat, backup: Lock, restore: Lock]
Repo   == [given: BOOLEAN, list: Seq([cipher: STRING, key: Nat, code: Nat])]
Archive == [id: Nat, repo: Nat, min: STRING, max: STRING]
DB      == [id: Nat, repo: Nat, version: STRING]
Backup  == [label: STRING, type: {"full", "diff", "incr"}, id: Nat, repo: Nat,
            prior: STRING, backrest: STRING, lsn: STRING \X STRING,
            wal: STRING \X STRING, start: Nat, stop: Nat, size: Nat, delta: Nat,
            repoSize: Optional, repoDelta: Nat, sizeMap: Optional,
            deltaMap: Optional, error: {"nil", "false", "true"},
            annotations: Optional, databases: Optional,
            reference: [{"full", "diff", "incr"} -> Nat]]
Stanza  == [name: STRING, status: Status, repo: Repo, archive: Seq(Archive),
            db: Seq(DB), backup: Seq(Backup)]

CommandLine == [config: STRING, configIncludePath: STRING, stanza: STRING,
                backupType: STRING, verboseWAL: BOOLEAN, backupRefCount: BOOLEAN,
                backupDBCount: BOOLEAN]

ASSUME CommandLinesAssumption == CommandLines \subseteq CommandLine
ASSUME RepliesAssumption == Replies \subseteq Seq(Stanza)
ASSUME BoundsAssumption ==
  Clock \in Nat /\ MaxCycles \in Nat \ {0} /\ MaxFailures \in Nat

\* What pgBackRest guarantees of a reply: stanzas and backups have names, and nothing
\* in one list is there twice; a backup does not end before it starts.
ASSUME NamesAssumption ==
  \A r \in Replies : \A i \in DOMAIN r :
    /\ r[i].name # ""
    /\ \A j \in DOMAIN r : r[i].name = r[j].name => i = j
    /\ \A j \in DOMAIN r[i].backup : r[i].backup[j].label # ""
ASSUME NumbersAssumption ==
  \A r \in Replies : \A i \in DOMAIN r :
    /\ \A j, k \in DOMAIN r[i].repo.list :
         r[i].repo.list[j].key = r[i].repo.list[k].key => j = k
    /\ \A j, k \in DOMAIN r[i].archive :
         /\ r[i].archive[j].id = r[i].archive[k].id
         /\ r[i].archive[j].repo = r[i].archive[k].repo
         => j = k
    /\ \A j, k \in DOMAIN r[i].backup :
         /\ r[i].backup[j].label = r[i].backup[k].label
         /\ r[i].backup[j].repo = r[i].backup[k].repo
         => j = k
ASSUME TimesAssumption ==
  \A r \in Replies : \A i \in DOMAIN r : \A j \in DOMAIN r[i].backup :
    r[i].backup[j].start <= r[i].backup[j].stop

VARIABLES
  flags,     \* the command line
  pc,
  reply,     \* the parsed stanzas of the cycle
  at, item,  \* loop indices: stanza, and element of one of its lists
  series,    \* all gauge vectors: vector, label function, value
  args,      \* the last command line pgBackRest was run with
  asked,     \* history: the stanza and backup that call was made for
  before,    \* history: reply and label sets of the cycle before
  left       \* cycles and failures left

vars == <<flags, pc, reply, at, item, series, args, asked, before, left>>

-----------------------------------------------------------------------------
(* The declared label names.                                               *)

PerBackup == <<"backup_name", "backup_type", "block_incr", "database_id",
               "repo_key", "stanza">>
Common    == {PerBackup[i] : i \in DOMAIN PerBackup}
Sizes     == {"size_bytes", "delta_bytes", "repo_size_bytes", "repo_size_map_bytes",
              "repo_delta_bytes", "repo_delta_map_bytes", "error_status", "annotations"}

BackupVectors ==
  LET other == [info |->
                  <<"backrest_ver", "backup_name", "backup_type", "block_incr", "database_id",
                    "lsn_start", "lsn_stop", "pg_version", "prior", "repo_key", "stanza",
                    "wal_start", "wal_stop">>,
                duration_seconds |-> PerBackup \o <<"start_time", "stop_time">>,
                references |-> <<"ref_backup">> \o PerBackup,
                databases |->
                  <<"backup_type", "stanza", "backup_name", "block_incr", "database_id",
                    "repo_key">>]
  IN  [f \in Sizes \cup DOMAIN other |-> IF f \in Sizes THEN PerBackup ELSE other[f]]

LastVectors ==
  [f \in Sizes \cup {"duration_seconds", "since_completion_seconds", "references"} |->
     IF f = "references" THEN <<"ref_backup", "backup_type", "block_incr", "stanza">>
     ELSE <<"backup_type", "block_incr", "stanza">>]

StanzaVectors == [status |-> <<"stanza">>]
LockVectors   == [f \in {"lock_status", "total_bytes", "complete_bytes"} |-> <<"stanza">>]
RepoVectors   == [status |-> <<"cipher", "repo_key", "stanza">>]
WALVectors    == [archive_status |-> <<"database_id", "pg_version", "repo_key", "stanza",
                                       "wal_max", "wal_min">>]
VersionVectors == [info |-> << >>]

\* A vector is named by its group and its name in the group.
Declared == [backup |-> BackupVectors, last |-> LastVectors, stanza |-> StanzaVectors,
             stanza_backup |-> LockVectors, stanza_restore |-> LockVectors,
             repo |-> RepoVectors, wal |-> WALVectors, version |-> VersionVectors]

LabelNames(vector) ==
  LET names == Declared[vector[1]][vector[2]] IN {names[i] : i \in DOMAIN names}

\* setUpMetricValue: a list of another length is an error, and no series.
Series(vector, values, value) ==
  LET names == Declared[vector[1]][vector[2]]
  IN  IF Len(values) # Len(names) THEN {}
      ELSE {[vector |-> vector, value |-> value,
             labels |-> [n \in LabelNames(vector) |->
                           values[CHOOSE i \in DOMAIN names : names[i] = n]]]}

\* A label set that is there already gets the new value.
Publish(new) ==
  series' = {s \in series : \A t \in new : s.vector # t.vector \/ s.labels # t.labels}
              \cup new

-----------------------------------------------------------------------------
(* The converters.                                                         *)

convertBool(value) == IF value THEN 1 ELSE 0

\* Defect: a pointer is followed without the test for nil.
convertPointerUnchecked(value) == value

\* Both kinds of number, the annotations' count and the databases' count.
convertPointer(value) == IF value = Absent THEN 0 ELSE value

convertBoolPointer(value) == IF value = "nil" THEN 0 ELSE convertBool(value = "true")
convertEmptyLSNValueLabel(value) == IF value = "" THEN "-" ELSE value
Itoa(number) == ToString(number)

\* The version of the first database with this id in this repository.
getPGVersion(id, repo, dbList) ==
  LET found == {i \in DOMAIN dbList : dbList[i].id = id /\ dbList[i].repo = repo}
  IN  IF found = {} THEN ""
      ELSE dbList[CHOOSE i \in found : \A j \in found : i <= j].version

checkBackupIncremental(b) ==
  IF b.sizeMap # Absent /\ b.deltaMap # Absent THEN "y" ELSE "n"

-----------------------------------------------------------------------------
(* The arguments of a pgBackRest call.                                     *)

Arg(option, value) == IF value = "" THEN << >> ELSE <<option, value>>

returnDefaultExecArgs == <<"info", "--output", "json">>
returnConfigExecArgs  == Arg("--config", flags.config)
                         \o Arg("--config-include-path", flags.configIncludePath)

\* Defect: the type filter is sent with every call.
getInfoArgsAlwaysTyped(stanza, backupType, backupLabel) ==
  returnDefaultExecArgs \o returnConfigExecArgs \o Arg("--stanza", stanza)
    \o Arg("--type", flags.backupType) \o Arg("--set", backupLabel)

getInfoArgs(stanza, backupType, backupLabel) ==
  returnDefaultExecArgs \o returnConfigExecArgs \o Arg("--stanza", stanza)
    \o Arg("--type", backupType) \o Arg("--set", backupLabel)

getAllInfoArgs(stanza)             == getInfoArgs(stanza, flags.backupType, "")
getSpecificBackupInfoArgs(stanza, backupLabel) == getInfoArgs(stanza, "", backupLabel)
returnVersionExecArgs              == <<"version", "--output", "num">>

\* A call that exits with an error yields no data, whatever it printed.
Fail == left.failures > 0 /\ left' = [left EXCEPT !.failures = @ - 1]

-----------------------------------------------------------------------------
NoReply == [reply |-> << >>, labels |-> {}]

Init ==
  /\ flags \in CommandLines
  /\ pc = "version" /\ reply = << >> /\ at = 1 /\ item = 1
  /\ series = {} /\ args = << >> /\ asked = [stanza |-> "", backup |-> ""]
  /\ before = NoReply
  /\ left = [cycles |-> MaxCycles, failures |-> MaxFailures]

\* What `pgbackrest version --output num' prints.
VersionNumber == 2057000

\* GetPgBackrestVersionInfo: a failed call or text that is no number gives 0.
getBackrestVersionMetrics ==
  /\ pc = "version" /\ left.cycles > 0
  /\ args' = returnVersionExecArgs
  /\ \/ /\ left' = [left EXCEPT !.cycles = @ - 1]
        /\ Publish(Series(<<"version", "info">>, << >>, VersionNumber))
     \/ /\ left.failures > 0
        /\ left' = [cycles |-> left.cycles - 1, failures |-> left.failures - 1]
        /\ Publish(Series(<<"version", "info">>, << >>, 0))
  /\ pc' = "info"
  /\ UNCHANGED <<flags, reply, at, item, asked, before>>

LabelSets == {<<s.vector, s.labels>> : s \in series}

\* getAllInfoData and resetMetrics.
Info ==
  /\ pc = "info"
  /\ args' = getAllInfoArgs(flags.stanza)
  /\ asked' = [stanza |-> flags.stanza, backup |-> ""]
  /\ before' = [reply |-> reply, labels |-> LabelSets]
  /\ \/ /\ reply' \in {r \in Replies : flags.stanza = "" \/
                         {r[i].name : i \in DOMAIN r} = {flags.stanza}}
        /\ UNCHANGED left
     \/ Fail /\ reply' = << >>
  /\ series' = {s \in series : s.vector = <<"version", "info">>}
  /\ at' = 1 /\ item' = 1
  /\ pc' = "stanza"
  /\ UNCHANGED flags

S == reply[at]
Quiet == UNCHANGED <<flags, reply, args, asked, before, left>>

\* One iteration of a loop that publishes new(stanza, element) for a list's elements.
ForEach(list, then, new(_, _)) ==
  \/ /\ item <= Len(list)
     /\ Publish(new(S, list[item]))
     /\ item' = item + 1
     /\ UNCHANGED <<pc, at>> /\ Quiet
  \/ /\ item > Len(list)
     /\ item' = 1
     /\ pc' = then
     /\ UNCHANGED <<at, series>> /\ Quiet

\* The status and the two locks of stanza st.
StanzaSeries(st) ==
  LET OfLock(name, lock) ==
        Series(<<name, "lock_status">>, <<st.name>>, convertBool(lock.held))
        \cup Series(<<name, "total_bytes">>, <<st.name>>, convertPointer(lock.size))
        \cup Series(<<name, "complete_bytes">>, <<st.name>>, convertPointer(lock.complete))
  IN  Series(<<"stanza", "status">>, <<st.name>>, st.status.code)
      \cup OfLock("stanza_backup", st.status.backup)
      \cup OfLock("stanza_restore", st.status.restore)

getStanzaMetrics ==
  /\ pc = "stanza" /\ at <= Len(reply)
  /\ Publish(StanzaSeries(S))
  /\ pc' = "repo"
  /\ UNCHANGED <<at, item>> /\ Quiet

\* pgBackRest before 2.32 lists no repositories: one series stands in for them.
Repos(st) == IF st.repo.given THEN st.repo.list
             ELSE <<[cipher |-> "none", key |-> 0, code |-> 0]>>
RepoSeries(st, r) ==
  Series(<<"repo", "status">>, <<r.cipher, Itoa(r.key), st.name>>, r.code)

getRepoMetrics == pc = "repo" /\ ForEach(Repos(S), "wal", RepoSeries)

\* Defect: the repository is not among the labels of the series.
WALSeriesOfDatabase(st, a) ==
  LET complete == a.min # "" /\ a.max # ""
      Range(bound) == IF complete /\ flags.verboseWAL THEN bound ELSE ""
  IN  Series(<<"wal", "archive_status">>,
             <<Itoa(a.id), getPGVersion(a.id, a.repo, st.db), "", st.name,
               Range(a.max), Range(a.min)>>,
             convertBool(complete))

\* 1 if both ends of the archived range are known; verbose adds them as labels.
WALSeries(st, a) ==
  LET complete == a.min # "" /\ a.max # ""
      Range(bound) == IF complete /\ flags.verboseWAL THEN bound ELSE ""
  IN  Series(<<"wal", "archive_status">>,
             <<Itoa(a.id), getPGVersion(a.id, a.repo, st.db), Itoa(a.repo), st.name,
               Range(a.max), Range(a.min)>>,
             convertBool(complete))

getWALMetrics == pc = "wal" /\ ForEach(S.archive, "backup", WALSeries)

\* The label values most vectors of a backup are given.
LabelsOf(st, b) ==
  <<b.label, b.type, checkBackupIncremental(b), Itoa(b.id), Itoa(b.repo), st.name>>

\* The values both per-backup and last-backup vectors show.
SizesOf(b) ==
  [size_bytes |-> b.size, delta_bytes |-> b.delta,
   repo_size_bytes |-> convertPointer(b.repoSize),
   repo_size_map_bytes |-> convertPointer(b.sizeMap),
   repo_delta_bytes |-> b.repoDelta,
   repo_delta_map_bytes |-> convertPointer(b.deltaMap),
   error_status |-> convertBoolPointer(b.error),
   annotations |-> convertPointer(b.annotations)]

\* Defect: a field that is zero or that the reply does not have gets no series.
SetSizesIfPresent(group, labels, b) ==
  UNION {Series(<<group, v>>, labels, SizesOf(b)[v]) :
           v \in {w \in DOMAIN SizesOf(b) : SizesOf(b)[w] # 0}}

SetSizes(group, labels, b) ==
  UNION {Series(<<group, v>>, labels, SizesOf(b)[v]) : v \in DOMAIN SizesOf(b)}

\* Defect: the kind is added behind the other label values, as the times are.
ReferencesKindLast(group, labels, b) ==
  UNION {Series(<<group, "references">>, labels \o <<kind>>, b.reference[kind]) :
           kind \in DOMAIN b.reference}

References(group, labels, b) ==
  UNION {Series(<<group, "references">>, <<kind>> \o labels, b.reference[kind]) :
           kind \in DOMAIN b.reference}

\* One iteration of getBackupMetrics.
BackupSeries(st, b) ==
  Series(<<"backup", "info">>,
         <<b.backrest, b.label, b.type, checkBackupIncremental(b), Itoa(b.id),
           convertEmptyLSNValueLabel(b.lsn[1]), convertEmptyLSNValueLabel(b.lsn[2]),
           getPGVersion(b.id, b.repo, st.db), b.prior, Itoa(b.repo), st.name,
           b.wal[1], b.wal[2]>>, 1)
  \cup Series(<<"backup", "duration_seconds">>,
              LabelsOf(st, b) \o <<Itoa(b.start), Itoa(b.stop)>>, b.stop - b.start)
  \cup SetSizes("backup", LabelsOf(st, b), b)
  \cup (IF flags.backupRefCount THEN References("backup", LabelsOf(st, b), b)
        ELSE {})

getBackupMetrics == pc = "backup" /\ ForEach(S.backup, "last", BackupSeries)

\* The backups in the slots.
Rule(list) == INSTANCE LastBackupRule WITH
                backups <- list, currentUnixTime <- Clock, published <- {}
Slots(st) ==
  LET Position == Rule(st.backup)!Selected
      Slot(type) == [type |-> type,
                     backup |-> st.backup[CHOOSE j \in Position[type] : TRUE]]
  IN  IF Position["full"] = {} THEN << >>
      ELSE <<Slot("full"), Slot("diff"), Slot("incr")>>

\* One iteration of getBackupLastMetrics.
LastSeriesOf(st, slot) ==
  LET b == slot.backup
      labels == <<slot.type, checkBackupIncremental(b), st.name>>
  IN  SetSizes("last", labels, b)
      \cup Series(<<"last", "duration_seconds">>, labels, b.stop - b.start)
      \cup Series(<<"last", "since_completion_seconds">>, labels, Clock - b.stop)
      \cup References("last", labels, b)

getBackupLastMetrics == pc = "last" /\ ForEach(Slots(S), "databases", LastSeriesOf)

\* Backup type and stanza first, then the labels the caller adds.
processSpecificBackupData(st, b, value) ==
  Series(<<"backup", "databases">>, <<b.type, st.name, b.label, checkBackupIncremental(b),
                               Itoa(b.id), Itoa(b.repo)>>, value)

\* One `info --set' call: a failed one, no backup in the reply or a backup without
\* database-ref count as 0.
getBackupDBCountMetrics ==
  /\ pc = "databases"
  /\ IF flags.backupDBCount /\ item <= Len(S.backup)
     THEN LET b == S.backup[item]
          IN  /\ args' = getSpecificBackupInfoArgs(S.name, b.label)
              /\ asked' = [stanza |-> S.name, backup |-> b.label]
              /\ \/ /\ Publish(processSpecificBackupData(S, b, convertPointer(b.databases)))
                    /\ UNCHANGED left
                 \/ Fail /\ Publish(processSpecificBackupData(S, b, 0))
              /\ item' = item + 1
              /\ UNCHANGED <<pc, at>>
     ELSE /\ item' = 1 /\ at' = at + 1 /\ pc' = "stanza"
          /\ UNCHANGED <<series, args, asked, left>>
  /\ UNCHANGED <<flags, reply, before>>

\* The stanzas of the reply are done.
Sleep ==
  /\ pc = "stanza" /\ at > Len(reply)
  /\ pc' = "sleep"
  /\ UNCHANGED <<at, item, series>> /\ Quiet

\* resetVersionMetrics, after the sleep.
Wake ==
  /\ pc = "sleep" /\ left.cycles > 0
  /\ series' = {s \in series : s.vector # <<"version", "info">>}
  /\ pc' = "version"
  /\ UNCHANGED <<at, item>> /\ Quiet

Done == pc = "sleep" /\ left.cycles = 0 /\ UNCHANGED vars

Next == \/ getBackrestVersionMetrics \/ Info \/ getStanzaMetrics \/ getRepoMetrics
        \/ getWALMetrics \/ getBackupMetrics \/ getBackupLastMetrics
        \/ getBackupDBCountMetrics \/ Sleep \/ Wake \/ Done

Spec == Init /\ [][Next]_vars

-----------------------------------------------------------------------------
\* The labels of a series are those its vector declares.  Ages apart, which module
\* Exporter looks at, no value is below zero: an absent field is never taken for a
\* number.
TypeOK ==
  /\ flags \in CommandLines
  /\ reply = << >> \/ reply \in Replies
  /\ at \in 1..Len(reply) + 1 /\ item \in Nat \ {0}
  /\ \A s \in series :
       /\ s.vector[1] \in DOMAIN Declared /\ s.vector[2] \in DOMAIN Declared[s.vector[1]]
       /\ DOMAIN s.labels = LabelNames(s.vector)
       /\ s.value \in Nat \/ s.vector = <<"last", "since_completion_seconds">>
  /\ left.cycles \in 0..MaxCycles /\ left.failures \in 0..MaxFailures

\* The options of a pgBackRest command line, read as pgBackRest reads them.
OptionsOf(line) == {<<line[i], line[i + 1]>> : i \in {j \in 2..Len(line) : j % 2 = 0}}

\* Every pgBackRest command line says what the call is for: the configuration,
\* the stanza and the backup, each at most once and none with an empty value.  The
\* type filter goes with the call for all backups only (pgBackRest takes `type'
\* once), and a single backup is never asked for without its stanza.
ArgumentsSayRequest ==
  args # << >> /\ args[1] = "info" =>
    /\ OptionsOf(args) =
         {o \in {<<"--output", "json">>, <<"--config", flags.config>>,
                 <<"--config-include-path", flags.configIncludePath>>,
                 <<"--stanza", asked.stanza>>, <<"--set", asked.backup>>,
                 <<"--type", IF asked.backup = "" THEN flags.backupType ELSE "">>} :
            o[2] # ""}
    /\ Len(args) = 1 + 2 * Cardinality(OptionsOf(args))
    /\ asked.backup # "" => asked.stanza # ""

\* At the end of a cycle every archive, repository and backup of every stanza has
\* a series of its own: no two label sets coincide, not even if the stanzas or the
\* repositories number their databases and name their backups alike.  Each backup's
\* series carry the same labels as its backup_info series, so they can be joined.
Total(list(_)) == Cardinality(UNION {{<<i, j>> : j \in DOMAIN list(reply[i])} :
                                      i \in DOMAIN reply})
Of(vector) == {s \in series : s.vector = vector}
EveryEntryHasItsSeries ==
  pc = "sleep" =>
    /\ LET archives(s) == s.archive IN Cardinality(Of(<<"wal", "archive_status">>)) = Total(archives)
    /\ Cardinality(Of(<<"repo", "status">>)) = Total(Repos)
    /\ LET backups(s) == s.backup IN Cardinality(Of(<<"backup", "info">>)) = Total(backups)
    /\ \A i \in Of(<<"backup", "info">>) :
         \A v \in ({"backup"} \X (Sizes \cup {"duration_seconds"}))
                  \cup (IF flags.backupDBCount THEN {<<"backup", "databases">>} ELSE {}) :
           Cardinality({s \in Of(v) : \A n \in Common : s.labels[n] = i.labels[n]}) = 1

\* What the labels of a series say, by their names, of the entry it was stored for.
SaysVersion(s, st, id, repo) ==
  LET same == {j \in DOMAIN st.db : st.db[j].id = id /\ st.db[j].repo = repo}
  IN  IF same = {} THEN s.labels.pg_version = ""
      ELSE \E j \in same : s.labels.pg_version = st.db[j].version

SaysArchive(s, st, a) ==
  /\ s.labels.database_id = Itoa(a.id) /\ s.labels.repo_key = Itoa(a.repo)
  /\ <<s.labels.wal_min, s.labels.wal_max>> \in {<<"", "">>, <<a.min, a.max>>}
  /\ SaysVersion(s, st, a.id, a.repo)

SaysReferences(s, b) ==
  /\ s.labels.ref_backup \in DOMAIN b.reference
  /\ s.value = b.reference[s.labels.ref_backup]

SaysBackup(s, st, b) ==
  /\ s.labels.backup_name = b.label /\ s.labels.backup_type = b.type
  /\ s.labels.block_incr = checkBackupIncremental(b)
  /\ s.labels.database_id = Itoa(b.id) /\ s.labels.repo_key = Itoa(b.repo)
  /\ s.vector[2] = "info" =>
       /\ s.labels.backrest_ver = b.backrest /\ s.labels.prior = b.prior
       /\ s.labels.lsn_start = convertEmptyLSNValueLabel(b.lsn[1])
       /\ s.labels.lsn_stop = convertEmptyLSNValueLabel(b.lsn[2])
       /\ s.labels.wal_start = b.wal[1] /\ s.labels.wal_stop = b.wal[2]
       /\ SaysVersion(s, st, b.id, b.repo)
  /\ s.vector[2] = "duration_seconds" =>
       s.labels.start_time = Itoa(b.start) /\ s.labels.stop_time = Itoa(b.stop)
  /\ s.vector[2] = "references" => SaysReferences(s, b)

SaysLast(s, slot) ==
  /\ s.labels.backup_type = slot.type
  /\ s.labels.block_incr = checkBackupIncremental(slot.backup)
  /\ s.vector[2] = "references" => SaysReferences(s, slot.backup)

\* setUpMetricValue matches label values to names by position: every label of every
\* series says under its own name what one entry of one stanza of the reply says, and
\* all labels of a series speak of the same entry.  The version beside a database id
\* is that of the database with this id in this repository, and the reference count
\* beside ref_backup is the count of this kind.
LabelsByName ==
  \A s \in series : s.vector # <<"version", "info">> =>
    \E i \in DOMAIN reply :
      LET st == reply[i]
      IN  /\ s.labels.stanza = st.name
          /\ s.vector[1] = "repo" => \E j \in DOMAIN Repos(st) :
               s.labels.cipher = Repos(st)[j].cipher /\ s.labels.repo_key = Itoa(Repos(st)[j].key)
          /\ s.vector[1] = "wal" => \E j \in DOMAIN st.archive : SaysArchive(s, st, st.archive[j])
          /\ s.vector[1] = "backup" => \E j \in DOMAIN st.backup : SaysBackup(s, st, st.backup[j])
          /\ s.vector[1] = "last" => \E j \in DOMAIN Slots(st) : SaysLast(s, Slots(st)[j])

\* What may change from cycle to cycle without a series coming or going: status
\* codes, locks, sizes, errors, annotations, counts, and in the terse mode the
\* archived range.
Shape(r) ==
  [i \in DOMAIN r |->
    [name |-> r[i].name, db |-> r[i].db,
     repo |-> IF r[i].repo.given
              THEN {<<x.cipher, x.key>> : x \in {r[i].repo.list[j] :
                                                   j \in DOMAIN r[i].repo.list}}
              ELSE {<<"none", 0>>},
     archive |-> [j \in DOMAIN r[i].archive |->
                    IF flags.verboseWAL THEN r[i].archive[j]
                    ELSE [r[i].archive[j] EXCEPT !.min = "", !.max = ""]],
     backup |-> [j \in DOMAIN r[i].backup |->
                   LET b == r[i].backup[j]
                   IN  <<b.label, b.type, checkBackupIncremental(b), b.id, b.repo, b.prior,
                         b.backrest, b.lsn, b.wal, b.start, b.stop>>]]]

\* backrest_backup_metrics.go ("to avoid flapping time series"): two cycles whose
\* replies differ in values and in optional fields only publish the same label sets,
\* also when a call for one backup's databases fails.  The two block map fields are
\* part of the shape as far as they decide the label block_incr.
NoFlapping ==
  pc = "sleep" /\ reply # << >> /\ before.reply # << >>
    /\ Shape(reply) = Shape(before.reply) => LabelSets = before.labels
=============================================================================
