--------------------------- MODULE MC_StanzaMetrics ---------------------------
(* Two stanzas whose databases, repositories and backups are numbered and      *)
(* named alike; replies of an old and of a new pgBackRest, while a backup      *)
(* runs, of an empty stanza; two cycles with any two of them.                  *)
EXTENDS StanzaMetrics

NoLock  == [held |-> FALSE, size |-> Absent, complete |-> Absent]
Running == [held |-> TRUE, size |-> 9, complete |-> 4]

BackupOf(label, type, repo, stop, sizeMap, databases) ==
  [label |-> label, type |-> type, id |-> 1, repo |-> repo,
   prior |-> "", backrest |-> "2.57.0", lsn |-> <<"", "0/3">>, wal |-> <<"01", "02">>,
   start |-> 1, stop |-> stop, size |-> 5, delta |-> 3, repoSize |-> Absent,
   repoDelta |-> 2, sizeMap |-> sizeMap, deltaMap |-> sizeMap, error |-> "nil",
   annotations |-> Absent, databases |-> databases,
   reference |-> [kind \in {"full", "diff", "incr"} |-> 0]]

\* A new pgBackRest: the same label in two repositories, one
\* database id for two PostgreSQL versions, and one version in both repositories.
New(name) ==
  [name |-> name,
   status |-> [code |-> 0, backup |-> NoLock, restore |-> NoLock],
   repo |-> [given |-> TRUE, list |-> <<[cipher |-> "none", key |-> 1, code |-> 0],
                                        [cipher |-> "aes-256-cbc", key |-> 2, code |-> 2]>>],
   db |-> <<[id |-> 1, repo |-> 1, version |-> "13"],
            [id |-> 1, repo |-> 2, version |-> "14"],
            [id |-> 2, repo |-> 1, version |-> "14"],
            [id |-> 2, repo |-> 2, version |-> "14"]>>,
   archive |-> <<[id |-> 1, repo |-> 1, min |-> "01", max |-> "02"],
                 [id |-> 1, repo |-> 2, min |-> "", max |-> "02"],
                 [id |-> 2, repo |-> 1, min |-> "01", max |-> "02"],
                 [id |-> 2, repo |-> 2, min |-> "01", max |-> "02"]>>,
   backup |-> <<BackupOf("F1", "full", 1, 2, Absent, 2),
                BackupOf("F1", "full", 2, 3, 7, 2)>>]

\* ... while a backup runs, with an archive range and values that have moved on.
Busy(name) ==
  [New(name) EXCEPT
     !.status = [code |-> 4, backup |-> Running, restore |-> NoLock],
     !.archive[2].min = "01", !.archive[1].max = "03",
     !.backup[1].error = "true", !.backup[1].annotations = 2,
     !.backup[2].repoSize = 8, !.backup[2].databases = Absent]

\* An old one names no repositories and a database only by its id.
Old(name) ==
  [New(name) EXCEPT !.repo = [given |-> FALSE, list |-> << >>],
     !.db = <<[id |-> 1, repo |-> 0, version |-> "13"]>>,
     !.archive = <<[id |-> 1, repo |-> 0, min |-> "01", max |-> "02"]>>,
     !.backup = <<[BackupOf("F1", "full", 0, 2, Absent, Absent) EXCEPT !.error = "false"],
                  [BackupOf("F1_I2", "incr", 0, 3, Absent, Absent) EXCEPT
                    !.reference["full"] = 1]>>]

Empty(name) ==
  [New(name) EXCEPT !.status.code = 2, !.archive = << >>, !.backup = << >>]

Variants(name) == {New(name), Busy(name), Old(name), Empty(name)}

MCReplies ==
  {<< >>} \cup {<<s>> : s \in Variants("main")}
    \cup {<<s, New("demo")>> : s \in Variants("main")} \cup {<<Old("main"), Old("demo")>>}

Flags(config, path, stanza, type, verbose, counts) ==
  [config |-> config, configIncludePath |-> path, stanza |-> stanza, backupType |-> type,
   verboseWAL |-> verbose, backupRefCount |-> counts, backupDBCount |-> counts]

MCCommandLines ==
  {Flags("", "", "", "", FALSE, TRUE), Flags("/c", "/d", "main", "full", TRUE, TRUE),
   Flags("/c", "", "", "incr", TRUE, FALSE), Flags("", "/d", "main", "", FALSE, TRUE)}
=============================================================================
