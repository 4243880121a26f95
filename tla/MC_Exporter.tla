----------------------------- MODULE MC_Exporter -----------------------------
(* One stanza: the stanzas share no series, and module Collector's instance   *)
(* has two.  Both reset modes, and a stanza that is excluded.                 *)
EXTENDS Exporter

CONSTANTS main

CommandLine(include, exclude) ==
  [include |-> include, exclude |-> exclude, backupDBCount |-> FALSE,
   backupDBCountLatest |-> TRUE, collector |-> TRUE]

MCStanza  == {main}
MCConfigs == {CommandLine(<<NoStanza>>, <<NoStanza>>),
              CommandLine(<<main>>, <<NoStanza>>),
              CommandLine(<<NoStanza>>, <<main>>)}

\* First three backups and two goroutines; then a new full backup, which is the last
\* for diff too, and an incremental one with a block map.  A goroutine of the
\* first report meets the same labels for diff, and other ones for incr.
Backup(label, blockIncr) == [label |-> label, blockIncr |-> blockIncr]
First  == [full |-> Backup("A", "n"), diff |-> Backup("B", "n"), incr |-> Backup("C", "n")]
Second == [full |-> Backup("D", "n"), diff |-> Backup("D", "n"), incr |-> Backup("E", "y")]
MCLastBackups == [sr \in MCStanza \X Revision |-> IF sr[2] = 0 THEN First ELSE Second]
=============================================================================
