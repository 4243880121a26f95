----------------------------- MODULE MC_Collector -----------------------------
(* Two stanzas and the command lines that make GetPgBackRestInfo take its      *)
(* different ways: everything, everything but one, an include list, a stanza   *)
(* both included and excluded, the collector switched off.                     *)
EXTENDS Collector

CONSTANTS main, demo

CommandLine(include, exclude, databases, collector) ==
  [include |-> include, exclude |-> exclude,
   backupDBCount |-> databases, backupDBCountLatest |-> FALSE,
   collector |-> collector]

All        == CommandLine(<<NoStanza>>, <<NoStanza>>, TRUE, TRUE)
AllBut     == CommandLine(<<NoStanza>>, <<demo>>, FALSE, TRUE)
Named      == CommandLine(<<main, demo>>, <<NoStanza>>, TRUE, TRUE)
NamedBut   == CommandLine(<<main, demo>>, <<demo>>, FALSE, TRUE)
Disabled   == CommandLine(<<NoStanza>>, <<NoStanza>>, FALSE, FALSE)

MCStanza  == {main, demo}
MCConfigs == {All, AllBut, Named, NamedBut, Disabled}

\* For the claims that fail.
AllWithDB      == {All}
EmptyInExclude == {CommandLine(<<NoStanza>>, <<NoStanza, demo>>, FALSE, TRUE)}
=============================================================================
