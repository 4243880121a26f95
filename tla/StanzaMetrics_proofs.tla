------------------------- MODULE StanzaMetrics_proofs -------------------------
(***************************************************************************)
(* What getStanzaMetrics, getRepoMetrics, getWALMetrics, getBackupMetrics,   *)
(* getBackupLastMetrics and getBackupDBCountMetrics publish, for every command *)
(* line and every reply: the options of each pgBackRest call, the types of all *)
(* series, the label sets the vectors have at every moment, and that none of *)
(* them comes or goes between two cycles whose replies have the same shape.  *)
(***************************************************************************)
EXTENDS StanzaMetrics, FiniteSetTheorems, SequenceTheorems, TLAPS

\* The words of a command line.  (The provers do not know a literal for a string.)
Word == STRING \cup {"", "info", "--output", "json", "--config", "--config-include-path",
                     "--stanza", "--type", "--set"}

\* A command line of one word and pairs of option and value, none of them twice.
WellFormed(line) ==
  /\ line \in Seq(Word)
  /\ \E n \in Nat : Len(line) = 2 * n + 1
  /\ IsFiniteSet(OptionsOf(line))
  /\ Len(line) = 1 + 2 * Cardinality(OptionsOf(line))

\* What an option adds to it.
Part(option, value) == IF value = "" THEN {} ELSE {<<option, value>>}

\* A pair more on a command line is an option more.
LEMMA PairAppends ==
  ASSUME NEW line, WellFormed(line), NEW option \in Word, NEW value \in Word,
         <<option, value>> \notin OptionsOf(line),
         NEW longer \in Seq(Word), Len(longer) = Len(line) + 2,
         \A i \in 1..Len(line) : longer[i] = line[i],
         longer[Len(line) + 1] = option, longer[Len(line) + 2] = value
  PROVE  /\ WellFormed(longer) /\ longer[1] = line[1]
         /\ OptionsOf(longer) = OptionsOf(line) \cup {<<option, value>>}
<1>1. PICK n \in Nat : Len(line) = 2 * n + 1
  BY DEF WellFormed
<1>2. OptionsOf(longer) = OptionsOf(line) \cup {<<option, value>>}
  <2> DEFINE Evens(s) == {j \in 2..Len(s) : j % 2 = 0}
             last == 2 * n + 2
  <2>1. Evens(longer) = Evens(line) \cup {last}
    BY <1>1
  <2>2. \A j \in Evens(line) : longer[j] = line[j] /\ longer[j + 1] = line[j + 1]
    BY <1>1
  <2>3. longer[last] = option /\ longer[last + 1] = value
    BY <1>1
  <2>4. \A s : OptionsOf(s) = {<<s[i], s[i + 1]>> : i \in Evens(s)}
    BY DEF OptionsOf
  <2> HIDE DEF Evens, last
  <2>5. OptionsOf(longer) = {<<longer[i], longer[i + 1]>> : i \in Evens(line) \cup {last}}
    BY <2>1, <2>4
  <2>6. {<<longer[i], longer[i + 1]>> : i \in Evens(line)} = OptionsOf(line)
    BY <2>2, <2>4
  <2>7. QED
    BY <2>3, <2>5, <2>6
<1>3. /\ IsFiniteSet(OptionsOf(longer))
      /\ Cardinality(OptionsOf(longer)) = Cardinality(OptionsOf(line)) + 1
  <2> DEFINE old == OptionsOf(line)
             new == <<option, value>>
  <2>1. IsFiniteSet(old) /\ new \notin old
    BY DEF WellFormed
  <2> HIDE DEF old, new
  <2>2. /\ IsFiniteSet(old \cup {new})
        /\ Cardinality(old \cup {new}) = Cardinality(old) + 1
    BY <2>1, FS_AddElement
  <2>3. QED
    BY <1>2, <2>2 DEF old, new
<1>4. Cardinality(OptionsOf(line)) \in Nat
  BY FS_CardinalityType DEF WellFormed
<1>5. n + 1 \in Nat /\ Len(longer) = 2 * (n + 1) + 1
  BY <1>1
<1>6. Len(longer) = 1 + 2 * Cardinality(OptionsOf(longer))
  BY <1>3, <1>4 DEF WellFormed
<1>7. longer[1] = line[1]
  BY <1>1
<1>8. QED
  BY <1>2, <1>3, <1>5, <1>6, <1>7 DEF WellFormed

\* What Arg appends: its option, or nothing for an empty value.
LEMMA ArgAppends ==
  ASSUME NEW line, WellFormed(line), NEW option \in Word, NEW value \in Word,
         <<option, value>> \notin OptionsOf(line)
  PROVE  LET longer == line \o Arg(option, value)
         IN  /\ WellFormed(longer) /\ longer[1] = line[1]
             /\ OptionsOf(longer) = OptionsOf(line) \cup Part(option, value)
<1>1. CASE value = ""
  <2>1. line \o Arg(option, value) = line
    BY <1>1, ConcatEmptySeq DEF Arg, WellFormed
  <2>2. QED
    BY <1>1, <2>1 DEF Part
<1>2. CASE value # ""
  <2> DEFINE longer == line \o <<option, value>>
  <2>1. /\ longer \in Seq(Word) /\ Len(longer) = Len(line) + 2
        /\ \A i \in 1..Len(line) : longer[i] = line[i]
        /\ longer[Len(line) + 1] = option /\ longer[Len(line) + 2] = value
    BY DEF WellFormed
  <2> HIDE DEF longer
  <2>2. /\ WellFormed(longer) /\ longer[1] = line[1]
        /\ OptionsOf(longer) = OptionsOf(line) \cup {<<option, value>>}
    BY <2>1, PairAppends
  <2>3. line \o Arg(option, value) = longer
    BY <1>2 DEF Arg, longer
  <2>4. QED
    BY <1>2, <2>2, <2>3 DEF Part
<1>3. QED
  BY <1>1, <1>2

\* The command line every call starts from.
LEMMA DefaultArgs ==
  /\ WellFormed(returnDefaultExecArgs)
  /\ OptionsOf(returnDefaultExecArgs) = {<<"--output", "json">>}
  /\ returnDefaultExecArgs[1] = "info"
<1> DEFINE line == <<"info", "--output", "json">>
<1>1. line \in Seq(Word) /\ Len(line) = 2 * 1 + 1
  BY DEF Word
<1>2. {j \in 2..Len(line) : j % 2 = 0} = {2}
  BY <1>1
<1>3. OptionsOf(line) = {<<"--output", "json">>}
  BY <1>2 DEF OptionsOf
<1>4. IsFiniteSet(OptionsOf(line)) /\ Cardinality(OptionsOf(line)) = 1
  BY <1>3, FS_Singleton
<1>5. line[1] = "info" /\ 1 \in Nat
  OBVIOUS
<1> HIDE DEF line
<1>6. WellFormed(line)
  <2>1. Len(line) = 1 + 2 * Cardinality(OptionsOf(line))
    BY <1>1, <1>4
  <2>2. QED
    BY <1>1, <1>4, <1>5, <2>1 DEF WellFormed
<1>7. QED
  BY <1>3, <1>5, <1>6 DEF returnDefaultExecArgs, line

\* The command line built for a stanza, a type and a label: each option at most
\* once, with its own value, and no option with an empty one.
LEMMA InfoArgs ==
  ASSUME flags \in CommandLine, NEW stanza \in Word, NEW type \in Word,
         NEW label \in Word
  PROVE  LET line == getInfoArgs(stanza, type, label)
         IN  /\ WellFormed(line) /\ line[1] = "info"
             /\ OptionsOf(line) =
                  {o \in {<<"--output", "json">>, <<"--config", flags.config>>,
                     <<"--config-include-path", flags.configIncludePath>>,
                     <<"--stanza", stanza>>, <<"--set", label>>, <<"--type", type>>} :
                    o[2] # ""}
<1> DEFINE l0 == returnDefaultExecArgs
           l1 == l0 \o Arg("--config", flags.config)
           l2 == l1 \o Arg("--config-include-path", flags.configIncludePath)
           l3 == l2 \o Arg("--stanza", stanza)
           l4 == l3 \o Arg("--type", type)
           l5 == l4 \o Arg("--set", label)
<1>0. /\ flags.config \in Word /\ flags.configIncludePath \in Word
      /\ "--config" \in Word /\ "--config-include-path" \in Word /\ "--stanza" \in Word
      /\ "--type" \in Word /\ "--set" \in Word
  BY DEF CommandLine, Word
<1>a. /\ l1 = l0 \o Arg("--config", flags.config)
      /\ l2 = l1 \o Arg("--config-include-path", flags.configIncludePath)
      /\ l3 = l2 \o Arg("--stanza", stanza)
      /\ l4 = l3 \o Arg("--type", type)
      /\ l5 = l4 \o Arg("--set", label)
  OBVIOUS
<1>1. WellFormed(l0) /\ l0[1] = "info" /\ OptionsOf(l0) = {<<"--output", "json">>}
  BY DefaultArgs
<1> HIDE DEF l0, l1, l2, l3, l4, l5
<1>2. /\ WellFormed(l1) /\ l1[1] = "info"
      /\ OptionsOf(l1) = OptionsOf(l0) \cup Part("--config", flags.config)
  <2>1. <<"--config", flags.config>> \notin OptionsOf(l0)
    BY <1>1
  <2>2. WellFormed(l0) /\ l0[1] = "info"
    BY <1>1
  <2>3. "--config" \in Word /\ flags.config \in Word
    BY <1>0
  <2>4. l1 = l0 \o Arg("--config", flags.config)
    BY <1>a
  <2>5. QED
    BY <2>1, <2>2, <2>3, <2>4, ArgAppends
<1>3. /\ WellFormed(l2) /\ l2[1] = "info"
      /\ OptionsOf(l2) = OptionsOf(l1) \cup
           Part("--config-include-path", flags.configIncludePath)
  <2>1. <<"--config-include-path", flags.configIncludePath>> \notin OptionsOf(l1)
    BY <1>1, <1>2 DEF Part
  <2>2. WellFormed(l1) /\ l1[1] = "info"
    BY <1>2
  <2>3. "--config-include-path" \in Word /\ flags.configIncludePath \in Word
    BY <1>0
  <2>4. l2 = l1 \o Arg("--config-include-path", flags.configIncludePath)
    BY <1>a
  <2>5. QED
    BY <2>1, <2>2, <2>3, <2>4, ArgAppends
<1>4. /\ WellFormed(l3) /\ l3[1] = "info"
      /\ OptionsOf(l3) = OptionsOf(l2) \cup Part("--stanza", stanza)
  <2>1. <<"--stanza", stanza>> \notin OptionsOf(l2)
    BY <1>1, <1>2, <1>3 DEF Part
  <2>2. WellFormed(l2) /\ l2[1] = "info"
    BY <1>3
  <2>3. "--stanza" \in Word /\ stanza \in Word
    BY <1>0
  <2>4. l3 = l2 \o Arg("--stanza", stanza)
    BY <1>a
  <2>5. QED
    BY <2>1, <2>2, <2>3, <2>4, ArgAppends
<1>5. /\ WellFormed(l4) /\ l4[1] = "info"
      /\ OptionsOf(l4) = OptionsOf(l3) \cup Part("--type", type)
  <2>1. <<"--type", type>> \notin OptionsOf(l3)
    BY <1>1, <1>2, <1>3, <1>4 DEF Part
  <2>2. WellFormed(l3) /\ l3[1] = "info"
    BY <1>4
  <2>3. "--type" \in Word /\ type \in Word
    BY <1>0
  <2>4. l4 = l3 \o Arg("--type", type)
    BY <1>a
  <2>5. QED
    BY <2>1, <2>2, <2>3, <2>4, ArgAppends
<1>6. /\ WellFormed(l5) /\ l5[1] = "info"
      /\ OptionsOf(l5) = OptionsOf(l4) \cup Part("--set", label)
  <2>1. <<"--set", label>> \notin OptionsOf(l4)
    BY <1>1, <1>2, <1>3, <1>4, <1>5 DEF Part
  <2>2. WellFormed(l4) /\ l4[1] = "info"
    BY <1>5
  <2>3. "--set" \in Word /\ label \in Word
    BY <1>0
  <2>4. l5 = l4 \o Arg("--set", label)
    BY <1>a
  <2>5. QED
    BY <2>1, <2>2, <2>3, <2>4, ArgAppends
<1>7. getInfoArgs(stanza, type, label) = l5
  <2>1. getInfoArgs(stanza, type, label) =
          returnDefaultExecArgs
            \o (Arg("--config", flags.config)
                \o Arg("--config-include-path", flags.configIncludePath))
            \o Arg("--stanza", stanza) \o Arg("--type", type) \o Arg("--set", label)
    BY DEF getInfoArgs, returnConfigExecArgs
  <2>2. \A a, b \in Word : Arg(a, b) \in Seq(Word)
    <3>1. << >> \in Seq(Word) /\ \A a, b \in Word : <<a, b>> \in Seq(Word)
      OBVIOUS
    <3>2. QED
      BY <3>1 DEF Arg
  <2>3. \A x, y, z \in Seq(Word) : x \o (y \o z) = (x \o y) \o z
    OBVIOUS
  <2>4. returnDefaultExecArgs \in Seq(Word)
    BY DefaultArgs DEF WellFormed
  <2>5. l2 = returnDefaultExecArgs
            \o (Arg("--config", flags.config)
                \o Arg("--config-include-path", flags.configIncludePath))
    <3>1. /\ Arg("--config", flags.config) \in Seq(Word)
          /\ Arg("--config-include-path", flags.configIncludePath) \in Seq(Word)
      BY <1>0, <2>2
    <3>2. QED
      BY <2>3, <2>4, <3>1 DEF l2, l1, l0
  <2>6. QED
    BY <2>1, <2>5 DEF l3, l4, l5
<1>8. OptionsOf(l5) = {<<"--output", "json">>} \cup Part("--config", flags.config)
        \cup Part("--config-include-path", flags.configIncludePath)
        \cup Part("--stanza", stanza) \cup Part("--type", type) \cup Part("--set", label)
  BY <1>1, <1>2, <1>3, <1>4, <1>5, <1>6
<1> DEFINE named == {<<"--output", "json">>, <<"--config", flags.config>>,
                     <<"--config-include-path", flags.configIncludePath>>,
                     <<"--stanza", stanza>>, <<"--set", label>>, <<"--type", type>>}
<1>9. OptionsOf(l5) = {o \in named : o[2] # ""}
  <2>1. ASSUME NEW option, NEW value
        PROVE  Part(option, value) = {o \in {<<option, value>>} : o[2] # ""}
    <3> DEFINE pair == <<option, value>>
    <3>1. pair[2] = value
      OBVIOUS
    <3> HIDE DEF pair
    <3>2. Part(option, value) = {o \in {pair} : o[2] # ""}
      BY <3>1 DEF Part, pair
    <3>3. QED
      BY <3>2 DEF pair
  <2>2. {<<"--output", "json">>} = {o \in {<<"--output", "json">>} : o[2] # ""}
    BY <2>1 DEF Part
  <2>3. QED
    BY <1>8, <2>1, <2>2
<1>10. QED
  BY <1>6, <1>7, <1>9

Phase == {"stanza", "repo", "wal", "backup", "last", "databases"}

\* Where the loops are.  Between two cycles every stanza has been published.
Place ==
  /\ flags \in CommandLines
  /\ reply = << >> \/ reply \in Replies
  /\ pc \in Phase \cup {"version", "info", "sleep"}
  /\ at \in 1..Len(reply) + 1 /\ item \in Nat \ {0}
  /\ pc \in Phase \ {"stanza"} => at <= Len(reply)
  /\ pc = "stanza" => item = 1
  /\ pc \in {"version", "info", "sleep"} => at = Len(reply) + 1
  /\ left \in [cycles: 0..MaxCycles, failures: 0..MaxFailures]

\* A reply is a sequence of stanzas.
LEMMA ReplyType ==
  ASSUME reply = << >> \/ reply \in Replies
  PROVE  /\ reply \in Seq(Stanza) /\ Len(reply) \in Nat /\ DOMAIN reply = 1..Len(reply)
         /\ \A i \in DOMAIN reply : reply[i] \in Stanza /\ reply \in Replies
<1>0. << >> \in Seq(Stanza)
  OBVIOUS
<1>1. reply \in Seq(Stanza)
  BY <1>0, RepliesAssumption
<1>2. reply = << >> => DOMAIN reply = {}
  OBVIOUS
<1>3. QED
  BY <1>1, <1>2

\* The stanza being published.
LEMMA Current ==
  ASSUME Place, pc \in Phase, at <= Len(reply)
  PROVE  /\ reply \in Replies /\ at \in DOMAIN reply
         /\ S = reply[at] /\ S \in Stanza
<1>1. at \in 1..Len(reply)
  BY ReplyType DEF Place
<1>2. at \in DOMAIN reply
  BY <1>1, ReplyType DEF Place
<1>3. QED
  BY <1>2, ReplyType DEF Place, S

\* The names of what the loops take from a stanza's lists.
LEMMA StanzaFields ==
  ASSUME NEW st \in Stanza
  PROVE  /\ st.name \in STRING
         /\ st.archive \in Seq(Archive) /\ st.db \in Seq(DB) /\ st.backup \in Seq(Backup)
         /\ st.status \in Status /\ st.repo \in Repo
  BY DEF Stanza

\* The loops start in place.
LEMMA PlaceInit == Init => Place
<1> SUFFICES ASSUME Init PROVE Place
  OBVIOUS
<1>1. /\ flags \in CommandLines /\ pc = "version" /\ reply = << >> /\ at = 1 /\ item = 1
      /\ left = [cycles |-> MaxCycles, failures |-> MaxFailures]
  BY DEF Init
<1>2. left \in [cycles: 0..MaxCycles, failures: 0..MaxFailures]
  BY <1>1, BoundsAssumption
<1>3. Len(reply) = 0
  BY <1>1
<1>4. QED
  BY <1>1, <1>2, <1>3 DEF Place, Phase

\* What the bounds still allow.
LEMMA LeftTypes ==
  ASSUME left \in [cycles: 0..MaxCycles, failures: 0..MaxFailures]
  PROVE  /\ left.cycles > 0 => [left EXCEPT !.cycles = @ - 1]
                                  \in [cycles: 0..MaxCycles, failures: 0..MaxFailures]
         /\ Fail => left' \in [cycles: 0..MaxCycles, failures: 0..MaxFailures]
         /\ left.cycles > 0 /\ left.failures > 0 =>
              [cycles |-> left.cycles - 1, failures |-> left.failures - 1]
                 \in [cycles: 0..MaxCycles, failures: 0..MaxFailures]
  BY BoundsAssumption DEF Fail

\* Every step leaves the loops in place.
LEMMA PlaceStep ==
  ASSUME Place, [Next]_vars
  PROVE  Place'
<1> USE DEF Phase
<1>0. Len(reply) \in Nat
  BY ReplyType DEF Place
<1>1. CASE getBackrestVersionMetrics
  BY <1>1, LeftTypes DEF getBackrestVersionMetrics, Place
<1>2. CASE Info
  <2>0. at' = 1 /\ item' = 1 /\ pc' = "stanza" /\ flags' = flags
    BY <1>2 DEF Info
  <2>1. reply' = << >> \/ reply' \in Replies
    BY <1>2 DEF Info
  <2>2. Len(reply') \in Nat
    <3>1. << >> \in Seq(Stanza)
      OBVIOUS
    <3>2. reply' \in Seq(Stanza)
      BY <2>1, <3>1, RepliesAssumption
    <3>3. QED
      BY <3>2
  <2>3. at' \in 1..Len(reply') + 1
    BY <2>0, <2>2
  <2>4. left' \in [cycles: 0..MaxCycles, failures: 0..MaxFailures]
    BY <1>2, LeftTypes DEF Info, Place
  <2>5. QED
    BY <2>0, <2>1, <2>3, <2>4 DEF Place
<1>3. CASE getStanzaMetrics
  BY <1>3 DEF getStanzaMetrics, Quiet, Place
<1>4. ASSUME NEW list, NEW then \in Phase, NEW new(_, _), ForEach(list, then, new),
             pc \in Phase \ {"stanza"}, then # "stanza"
      PROVE  Place'
  BY <1>4 DEF ForEach, Quiet, Place
<1>5. CASE getRepoMetrics \/ getWALMetrics \/ getBackupMetrics \/ getBackupLastMetrics
  BY <1>4, <1>5 DEF getRepoMetrics, getWALMetrics, getBackupMetrics, getBackupLastMetrics
<1>6. CASE getBackupDBCountMetrics
  <2>1. pc = "databases" /\ UNCHANGED <<flags, reply>>
    BY <1>6 DEF getBackupDBCountMetrics
  <2>2. left' = left \/ Fail
    BY <1>6 DEF getBackupDBCountMetrics
  <2>3. left' \in [cycles: 0..MaxCycles, failures: 0..MaxFailures]
    BY <2>2, LeftTypes DEF Place
  <2>4. \/ item' = item + 1 /\ UNCHANGED <<pc, at>>
        \/ item' = 1 /\ at' = at + 1 /\ pc' = "stanza"
    BY <1>6 DEF getBackupDBCountMetrics
  <2>5. QED
    BY <1>0, <2>1, <2>3, <2>4 DEF Place
<1>7. CASE Sleep
  BY <1>0, <1>7 DEF Sleep, Quiet, Place
<1>8. CASE Wake
  BY <1>8 DEF Wake, Quiet, Place
<1>9. CASE UNCHANGED vars
  BY <1>9 DEF vars, Place
<1>10. QED
  BY <1>1, <1>2, <1>3, <1>5, <1>6, <1>7, <1>8, <1>9 DEF Next, Done

\* The last `info' command line is the one built for what the call was made for.
BuiltFor ==
  args # << >> /\ args[1] = "info" =>
    /\ args = getInfoArgs(asked.stanza, IF asked.backup = "" THEN flags.backupType ELSE "",
                          asked.backup)
    /\ asked.stanza \in Word /\ asked.backup \in Word
    /\ asked.backup # "" => asked.stanza # ""

\* Every step leaves a command line that is built for the call's own stanza.
LEMMA BuiltForStep ==
  ASSUME Place, BuiltFor, [Next]_vars
  PROVE  BuiltFor'
<1>0. flags \in CommandLine
  BY CommandLinesAssumption DEF Place
<1>1. CASE getBackrestVersionMetrics
  <2>1. args' = <<"version", "--output", "num">>
    BY <1>1 DEF getBackrestVersionMetrics, returnVersionExecArgs
  <2>2. args'[1] # "info"
    BY <2>1
  <2>3. QED
    BY <2>2 DEF BuiltFor
<1>2. CASE Info
  <2>1. /\ args' = getInfoArgs(flags.stanza, flags.backupType, "") /\ flags' = flags
        /\ asked' = [stanza |-> flags.stanza, backup |-> ""]
    BY <1>2 DEF Info, getAllInfoArgs
  <2>2. asked'.stanza = flags.stanza /\ asked'.backup = ""
    BY <2>1
  <2>3. flags.stanza \in Word /\ "" \in Word
    BY <1>0 DEF CommandLine, Word
  <2>4. args' = getInfoArgs(flags.stanza, flags.backupType, "")'
    BY <2>1 DEF getInfoArgs, returnConfigExecArgs
  <2>5. QED
    BY <2>1, <2>2, <2>3, <2>4 DEF BuiltFor, getInfoArgs, returnConfigExecArgs
<1>3. CASE getBackupDBCountMetrics /\ flags.backupDBCount /\ item <= Len(S.backup)
  <2> DEFINE b == S.backup[item]
  <2>1. /\ args' = getInfoArgs(S.name, "", b.label) /\ flags' = flags
        /\ asked' = [stanza |-> S.name, backup |-> b.label]
    BY <1>3 DEF getBackupDBCountMetrics, getSpecificBackupInfoArgs
  <2>2. /\ reply \in Replies /\ at \in DOMAIN reply /\ S = reply[at] /\ S \in Stanza
        /\ pc = "databases"
    BY <1>3, Current DEF getBackupDBCountMetrics, Place, Phase
  <2>3. item \in DOMAIN S.backup /\ b \in Backup
    BY <1>3, <2>2, StanzaFields DEF Place
  <2>4. S.name # "" /\ b.label # ""
    BY <2>2, <2>3, NamesAssumption
  <2>5. S.name \in Word /\ b.label \in Word
    BY <2>2, <2>3, StanzaFields DEF Backup, Word
  <2>6. asked'.stanza = S.name /\ asked'.backup = b.label
    BY <2>1
  <2>7. QED
    BY <2>1, <2>4, <2>5, <2>6 DEF BuiltFor, getInfoArgs, returnConfigExecArgs
<1>4. CASE UNCHANGED <<args, asked, flags>>
  BY <1>4 DEF BuiltFor, getInfoArgs, returnConfigExecArgs
<1>5. ASSUME NEW list, NEW then, NEW new(_, _), ForEach(list, then, new)
      PROVE  UNCHANGED <<args, asked, flags>>
  BY <1>5 DEF ForEach, Quiet
<1>6. CASE getRepoMetrics \/ getWALMetrics \/ getBackupMetrics \/ getBackupLastMetrics
  BY <1>4, <1>5, <1>6 DEF getRepoMetrics, getWALMetrics, getBackupMetrics, getBackupLastMetrics
<1>7. QED
  BY <1>1, <1>2, <1>3, <1>4, <1>6 DEF Next, Done, vars, Quiet, getStanzaMetrics, Sleep, Wake,
     getBackupDBCountMetrics

\* Every option reaches the command line with the value of the call it is for.
THEOREM Arguments == Spec => []ArgumentsSayRequest
<1>1. Init => BuiltFor
  BY DEF Init, BuiltFor
<1>2. Place /\ BuiltFor /\ [Next]_vars => Place' /\ BuiltFor'
  BY PlaceStep, BuiltForStep
<1>3. Place /\ BuiltFor => ArgumentsSayRequest
  <2> SUFFICES ASSUME Place, BuiltFor, args # << >>, args[1] = "info"
               PROVE  ArgumentsSayRequest
    BY DEF ArgumentsSayRequest
  <2> DEFINE type == IF asked.backup = "" THEN flags.backupType ELSE ""
  <2>1. flags \in CommandLine
    BY CommandLinesAssumption DEF Place
  <2>2. type \in Word
    BY <2>1 DEF CommandLine, Word
  <2>3. args = getInfoArgs(asked.stanza, type, asked.backup)
    BY DEF BuiltFor
  <2> HIDE DEF type
  <2>4. /\ WellFormed(args)
        /\ OptionsOf(args) =
             {o \in {<<"--output", "json">>, <<"--config", flags.config>>,
                <<"--config-include-path", flags.configIncludePath>>,
                <<"--stanza", asked.stanza>>, <<"--set", asked.backup>>, <<"--type", type>>} :
               o[2] # ""}
    BY <2>1, <2>2, <2>3, InfoArgs DEF BuiltFor
  <2>5. QED
    BY <2>4 DEF ArgumentsSayRequest, BuiltFor, WellFormed, type
<1>4. QED
  BY <1>1, <1>2, <1>3, PlaceInit, PTL DEF Spec

-----------------------------------------------------------------------------
\* The label sets of some series.
Keys(new) == {<<s.vector, s.labels>> : s \in new}

\* Membership in the label sets.
LEMMA KeysIn == \A new, key : key \in Keys(new) <=> \E s \in new : key = <<s.vector, s.labels>>
  BY DEF Keys

\* The label sets of two sets of series together.
LEMMA KeysOfUnion == \A A, B : Keys(A \cup B) = Keys(A) \cup Keys(B)
  BY DEF Keys

\* One store gives at most one series, of its vector and value; its labels do not
\* depend on the value.
LEMMA OneSeries ==
  ASSUME NEW vector, NEW values, NEW value
  PROVE  /\ \A s \in Series(vector, values, value) : s.vector = vector /\ s.value = value
         /\ \A s \in Series(vector, values, value) : DOMAIN s.labels = LabelNames(vector)
         /\ \A s, t \in Series(vector, values, value) : s = t
         /\ \A other : Keys(Series(vector, values, other)) = Keys(Series(vector, values, value))
<1> DEFINE names == Declared[vector[1]][vector[2]]
           labels == [n \in LabelNames(vector) |->
                        values[CHOOSE i \in DOMAIN names : names[i] = n]]
           fits == Len(values) = Len(names)
<1>1. \A v : Series(vector, values, v) =
        IF fits THEN {[vector |-> vector, value |-> v, labels |-> labels]} ELSE {}
  BY DEF Series
<1>0. DOMAIN labels = LabelNames(vector)
  OBVIOUS
<1> HIDE DEF names, labels, fits
<1>2. ASSUME NEW v
      PROVE  Keys(Series(vector, values, v)) = IF fits THEN {<<vector, labels>>} ELSE {}
  <2> DEFINE one == [vector |-> vector, value |-> v, labels |-> labels]
  <2>1. one.vector = vector /\ one.labels = labels
    OBVIOUS
  <2>2. Series(vector, values, v) = IF fits THEN {one} ELSE {}
    BY <1>1
  <2> HIDE DEF one
  <2>3. QED
    BY <2>1, <2>2 DEF Keys
<1>3. \A s \in Series(vector, values, value) :
        s.vector = vector /\ s.value = value /\ s.labels = labels
  BY <1>1
<1>4. \A s \in Series(vector, values, value) : DOMAIN s.labels = LabelNames(vector)
  BY <1>0, <1>3
<1>5. QED
  BY <1>1, <1>2, <1>3, <1>4

\* Publishing adds label sets and takes none away.
LEMMA PublishKeys ==
  ASSUME NEW new, Publish(new)
  PROVE  Keys(series') = Keys(series) \cup Keys(new)
<1>1. ASSUME NEW s \in series PROVE <<s.vector, s.labels>> \in Keys(series')
  <2>1. CASE \A t \in new : s.vector # t.vector \/ s.labels # t.labels
    BY <2>1 DEF Publish, Keys
  <2>2. CASE \E t \in new : s.vector = t.vector /\ s.labels = t.labels
    BY <2>2 DEF Publish, Keys
  <2>3. QED
    BY <2>1, <2>2
<1>2. QED
  BY <1>1 DEF Publish, Keys

-----------------------------------------------------------------------------
\* The lists of a stanza, and what is stored for the j-th element of one.
Lists(st) ==
  [stanza |-> <<st>>, repo |-> Repos(st), wal |-> st.archive, backup |-> st.backup,
   last |-> Slots(st), databases |-> IF flags.backupDBCount THEN st.backup ELSE << >>]

Shows(st, p, j, new) ==
  \/ p = "stanza" /\ new = StanzaSeries(st)
  \/ p = "repo" /\ new = RepoSeries(st, Repos(st)[j])
  \/ p = "wal" /\ new = WALSeries(st, st.archive[j])
  \/ p = "backup" /\ new = BackupSeries(st, st.backup[j])
  \/ p = "last" /\ new = LastSeriesOf(st, Slots(st)[j])
  \/ /\ p = "databases"
     /\ \E value \in Nat : new = processSpecificBackupData(st, st.backup[j], value)

Entry(st, p, j, key) == \E new : Shows(st, p, j, new) /\ key \in Keys(new)

\* What has been published of the reply.
Rank == [stanza |-> 1, repo |-> 2, wal |-> 3, backup |-> 4, last |-> 5, databases |-> 6]
Published(i, p, j) ==
  \/ i < at
  \/ i = at /\ pc \in Phase /\ (Rank[p] < Rank[pc] \/ (p = pc /\ j < item))

VersionKeys == Keys(Series(<<"version", "info">>, << >>, 0))

\* The vectors have the label sets of what has been published, and no others.
Exact ==
  \A key : key \in Keys(series) <=>
    \/ key \in VersionKeys /\ pc # "version"
    \/ \E i \in DOMAIN reply : \E p \in Phase : \E j \in DOMAIN Lists(reply[i])[p] :
         Published(i, p, j) /\ Entry(reply[i], p, j, key)

\* The label sets of a whole reply.
OfReply(r, key) ==
  \/ key \in VersionKeys
  \/ \E i \in DOMAIN r : \E p \in Phase : \E j \in DOMAIN Lists(r[i])[p] :
       Entry(r[i], p, j, key)

BeforeWhole == before = NoReply \/ \A key : key \in before.labels <=> OfReply(before.reply, key)

-----------------------------------------------------------------------------
\* What is stored depends on the stanza and the flags only.
LEMMA SameFlags ==
  ASSUME flags' = flags
  PROVE  /\ \A st : Lists(st)' = Lists(st)
         /\ \A st, p, j, new : Shows(st, p, j, new)' <=> Shows(st, p, j, new)
         /\ \A st, p, j, key : Entry(st, p, j, key)' <=> Entry(st, p, j, key)
<1>1. \A st : Lists(st)' = Lists(st)
  BY DEF Lists
<1>2. \A st, a : WALSeries(st, a)' = WALSeries(st, a)
  BY DEF WALSeries
<1>3. \A st, b : BackupSeries(st, b)' = BackupSeries(st, b)
  BY DEF BackupSeries
<1>4. \A st, p, j, new : Shows(st, p, j, new)' <=> Shows(st, p, j, new)
  BY <1>2, <1>3 DEF Shows
<1>5. QED
  BY <1>1, <1>4 DEF Entry

\* The label sets of an element do not depend on a database count.
LEMMA SameKeys ==
  ASSUME NEW st, NEW p, NEW j, NEW a, NEW b, Shows(st, p, j, a), Shows(st, p, j, b)
  PROVE  Keys(a) = Keys(b)
<1>1. CASE p = "databases"
  <2>1. PICK x \in Nat, y \in Nat : /\ a = processSpecificBackupData(st, st.backup[j], x)
                                   /\ b = processSpecificBackupData(st, st.backup[j], y)
    BY <1>1 DEF Shows
  <2>2. QED
    BY <2>1, OneSeries DEF processSpecificBackupData
<1>2. CASE p # "databases"
  BY <1>2 DEF Shows
<1>3. QED
  BY <1>1, <1>2

\* What an element stores determines its label sets.
LEMMA EntryIsKey ==
  ASSUME NEW st, NEW p, NEW j, NEW new, Shows(st, p, j, new)
  PROVE  \A key : Entry(st, p, j, key) <=> key \in Keys(new)
  BY SameKeys DEF Entry

\* The lists are sequences.
LEMMA ListsType ==
  ASSUME NEW st \in Stanza, NEW p \in Phase
  PROVE  /\ Len(Lists(st)[p]) \in Nat
         /\ DOMAIN Lists(st)[p] = 1..Len(Lists(st)[p])
         /\ Len(Lists(st)["stanza"]) = 1
<1>1. st.repo.list \in Seq([cipher: STRING, key: Nat, code: Nat])
  BY StanzaFields DEF Repo
<1>2. \A x : Len(<<x>>) = 1 /\ DOMAIN <<x>> = 1..1
  OBVIOUS
<1>3. \A x, y, z : Len(<<x, y, z>>) = 3 /\ DOMAIN <<x, y, z>> = 1..3
  OBVIOUS
<1>4. Len(<< >>) = 0 /\ DOMAIN << >> = 1..0
  OBVIOUS
<1>5. Len(Repos(st)) \in Nat /\ DOMAIN Repos(st) = 1..Len(Repos(st))
  <2>1. CASE st.repo.given
    BY <1>1, <2>1 DEF Repos
  <2>2. CASE ~st.repo.given
    <3>1. \E x : Repos(st) = <<x>>
      BY <2>2 DEF Repos
    <3>2. QED
      BY <1>2, <3>1
  <2>3. QED
    BY <2>1, <2>2
<1>6. Len(Slots(st)) \in Nat /\ DOMAIN Slots(st) = 1..Len(Slots(st))
  BY <1>3, <1>4 DEF Slots
<1>7. /\ Len(st.archive) \in Nat /\ DOMAIN st.archive = 1..Len(st.archive)
      /\ Len(st.backup) \in Nat /\ DOMAIN st.backup = 1..Len(st.backup)
  BY StanzaFields
<1>8. QED
  BY <1>2, <1>4, <1>5, <1>6, <1>7 DEF Lists, Phase

-----------------------------------------------------------------------------
\* A step that publishes one element publishes just that.
LEMMA ElementStep ==
  ASSUME Place, Exact, pc \in Phase, at <= Len(reply), item \in DOMAIN Lists(S)[pc],
         NEW new, Shows(S, pc, item, new), Publish(new),
         UNCHANGED <<flags, reply, at>>,
         \/ pc' = pc /\ item' = item + 1
         \/ pc = "stanza" /\ pc' = "repo" /\ item' = 1
  PROVE  Exact'
<1>0. /\ reply \in Replies /\ at \in DOMAIN reply /\ S = reply[at]
      /\ DOMAIN reply = 1..Len(reply) /\ Len(reply) \in Nat
      /\ \A i \in DOMAIN reply : reply[i] \in Stanza
  BY Current, ReplyType DEF Place
<1>1. ASSUME NEW i \in DOMAIN reply, NEW p \in Phase, NEW j \in DOMAIN Lists(reply[i])[p]
      PROVE  Published(i, p, j)' <=> \/ Published(i, p, j)
                                     \/ i = at /\ p = pc /\ j = item
  <2>1. /\ DOMAIN Lists(reply[i])[p] = 1..Len(Lists(reply[i])[p])
        /\ Len(Lists(reply[i])[p]) \in Nat /\ Len(Lists(reply[i])["stanza"]) = 1
    BY <1>0, ListsType
  <2>2. i \in Nat /\ at \in Nat /\ j \in Nat \ {0} /\ item \in Nat \ {0}
    BY <1>0, <2>1 DEF Place
  <2>3. CASE pc' = pc /\ item' = item + 1
    BY <2>2, <2>3 DEF Published
  <2>4. CASE pc = "stanza" /\ pc' = "repo" /\ item' = 1
    <3>1. item = 1
      BY <2>4 DEF Place
    <3>2. ASSUME p = "stanza" PROVE j = 1
      <4>1. j \in 1..Len(Lists(reply[i])["stanza"])
        BY <2>1, <3>2
      <4>2. QED
        BY <2>1, <4>1
    <3>3. Rank[p] < Rank["repo"] <=> p = "stanza"
      BY DEF Rank, Phase
    <3>4. ~(Rank[p] < Rank["stanza"])
      BY DEF Rank, Phase
    <3>5. QED
      BY <2>2, <2>4, <3>1, <3>2, <3>3, <3>4 DEF Published, Phase
  <2>5. QED
    BY <2>3, <2>4
<1>2. Keys(series') = Keys(series) \cup Keys(new)
  BY PublishKeys
<1>3. \A key : Entry(S, pc, item, key) <=> key \in Keys(new)
  BY EntryIsKey
<1>4. pc # "version" /\ pc' # "version"
  BY DEF Phase
<1>5. ASSUME NEW key
      PROVE  key \in Keys(series') <=>
               \/ key \in VersionKeys
               \/ \E i \in DOMAIN reply : \E p \in Phase : \E j \in DOMAIN Lists(reply[i])[p] :
                    Published(i, p, j)' /\ Entry(reply[i], p, j, key)
  BY <1>0, <1>1, <1>2, <1>3, <1>4 DEF Exact
<1>6. QED
  BY <1>4, <1>5, SameFlags DEF Exact

\* A step to the next list, or to the next stanza, publishes nothing.
LEMMA ListEnds ==
  ASSUME Place, Exact, pc \in Phase \ {"stanza"}, item > Len(Lists(S)[pc]),
         UNCHANGED <<flags, reply, series>>, item' = 1,
         \/ pc' \in Phase /\ Rank[pc'] = Rank[pc] + 1 /\ at' = at
         \/ pc = "databases" /\ pc' = "stanza" /\ at' = at + 1
  PROVE  Exact'
<1>0. /\ reply \in Replies /\ at \in DOMAIN reply /\ S = reply[at]
      /\ DOMAIN reply = 1..Len(reply) /\ Len(reply) \in Nat
      /\ \A i \in DOMAIN reply : reply[i] \in Stanza
  BY Current, ReplyType DEF Place
<1>1. ASSUME NEW i \in DOMAIN reply, NEW p \in Phase, NEW j \in DOMAIN Lists(reply[i])[p]
      PROVE  Published(i, p, j)' <=> Published(i, p, j)
  <2>1. /\ DOMAIN Lists(reply[i])[p] = 1..Len(Lists(reply[i])[p])
        /\ Len(Lists(reply[i])[p]) \in Nat
    BY <1>0, ListsType
  <2>2. i \in Nat /\ at \in Nat /\ j \in Nat \ {0} /\ item \in Nat
    BY <1>0, <2>1 DEF Place
  <2>3. i = at /\ p = pc => j < item
    BY <1>0, <2>1, <2>2
  <2>4. Rank[p] \in 1..6 /\ Rank[pc] \in 1..6 /\ (Rank[p] = Rank[pc] => p = pc)
    BY DEF Rank, Phase
  <2>5. CASE pc' \in Phase /\ Rank[pc'] = Rank[pc] + 1 /\ at' = at
    BY <2>2, <2>3, <2>4, <2>5 DEF Published
  <2>6. CASE pc = "databases" /\ pc' = "stanza" /\ at' = at + 1
    <3>1. ~(Rank[p] < Rank["stanza"]) /\ Rank["databases"] = 6
      BY DEF Rank, Phase
    <3>2. QED
      BY <2>2, <2>3, <2>4, <2>6, <3>1 DEF Published
  <2>7. QED
    BY <2>5, <2>6
<1>2. pc # "version" /\ pc' # "version"
  BY DEF Phase
<1>3. ASSUME NEW key
      PROVE  key \in Keys(series) <=>
               \/ key \in VersionKeys
               \/ \E i \in DOMAIN reply : \E p \in Phase : \E j \in DOMAIN Lists(reply[i])[p] :
                    Published(i, p, j)' /\ Entry(reply[i], p, j, key)
  BY <1>1, <1>2 DEF Exact
<1>4. QED
  BY <1>2, <1>3, SameFlags DEF Exact

-----------------------------------------------------------------------------
\* With a full backup there is a last one for every type, and it is of the list.
LEMMA SelectedType ==
  ASSUME NEW st \in Stanza, Rule(st.backup)!Selected["full"] # {}, NEW type \in {"full", "diff", "incr"}
  PROVE  /\ Rule(st.backup)!Selected[type] # {}
         /\ Rule(st.backup)!Selected[type] \subseteq DOMAIN st.backup
<1> DEFINE Position == Rule(st.backup)!Selected
           Full == Rule(st.backup)!LastOf("full")
           Diff == Rule(st.backup)!LastOf("diff")
           Incr == Rule(st.backup)!LastOf("incr")
<1>1. \A i \in DOMAIN st.backup : st.backup[i].stop \in Nat /\ i \in Nat
  <2>1. \A b \in Backup : b.stop \in Nat
    BY DEF Backup
  <2>2. QED
    BY <2>1, StanzaFields
<1>2. /\ Position["full"] = Full
      /\ Position["diff"] = Rule(st.backup)!Later(Full, Diff)
      /\ Position["incr"] = Rule(st.backup)!Later(Position["diff"], Incr)
  BY DEF Rule!Selected
<1>3. ASSUME NEW t
      PROVE  /\ Rule(st.backup)!LastOf(t) \subseteq DOMAIN st.backup
             /\ \A i, k \in Rule(st.backup)!LastOf(t) : i = k
  BY <1>1 DEF Rule!LastOf
<1>4. ASSUME NEW X \in SUBSET DOMAIN st.backup, NEW Y \in SUBSET DOMAIN st.backup,
             \A i, k \in X : i = k, \A i, k \in Y : i = k, X # {}
      PROVE  /\ Rule(st.backup)!Later(X, Y) # {}
             /\ Rule(st.backup)!Later(X, Y) \subseteq DOMAIN st.backup
             /\ \A i, k \in Rule(st.backup)!Later(X, Y) : i = k
  <2>1. /\ Rule(st.backup)!Later(X, Y) \subseteq DOMAIN st.backup
        /\ \A i, k \in Rule(st.backup)!Later(X, Y) : i = k
    BY <1>1 DEF Rule!Later
  <2>2. PICK x \in X : X = {x}
    BY <1>4
  <2>3. CASE Y = {}
    <3>1. x \in Rule(st.backup)!Later(X, Y)
      BY <1>1, <2>2, <2>3 DEF Rule!Later
    <3>2. QED
      BY <2>1, <3>1
  <2>4. CASE Y # {}
    <3>1. PICK y \in Y : Y = {y}
      BY <1>4, <2>4
    <3>2. x \in Rule(st.backup)!Later(X, Y) \/ y \in Rule(st.backup)!Later(X, Y)
      BY <1>1, <2>2, <3>1 DEF Rule!Later
    <3>3. QED
      BY <2>1, <3>2
  <2>5. QED
    BY <2>3, <2>4
<1> HIDE DEF Position, Full, Diff, Incr
<1>5. Full \subseteq DOMAIN st.backup /\ \A i, k \in Full : i = k
  BY <1>3 DEF Full
<1>6. Diff \subseteq DOMAIN st.backup /\ \A i, k \in Diff : i = k
  BY <1>3 DEF Diff
<1>7. Incr \subseteq DOMAIN st.backup /\ \A i, k \in Incr : i = k
  BY <1>3 DEF Incr
<1>8. Position["full"] # {}
  BY DEF Position
<1>9. /\ Position["diff"] # {} /\ Position["diff"] \subseteq DOMAIN st.backup
      /\ \A i, k \in Position["diff"] : i = k
  BY <1>2, <1>4, <1>5, <1>6, <1>8
<1>10. Position["incr"] # {} /\ Position["incr"] \subseteq DOMAIN st.backup
  BY <1>2, <1>4, <1>7, <1>9
<1>11. Position[type] # {} /\ Position[type] \subseteq DOMAIN st.backup
  BY <1>2, <1>5, <1>8, <1>9, <1>10
<1>12. QED
  BY <1>11 DEF Position

\* The slots hold backups of the list.
LEMMA SlotsFilled ==
  ASSUME NEW st \in Stanza, NEW j \in DOMAIN Slots(st)
  PROVE  \E k \in DOMAIN st.backup :
           Slots(st)[j] = [type |-> <<"full", "diff", "incr">>[j], backup |-> st.backup[k]]
<1> DEFINE Position == Rule(st.backup)!Selected
           Slot(type) == [type |-> type,
                          backup |-> st.backup[CHOOSE i \in Position[type] : TRUE]]
<1>1. Slots(st) = IF Position["full"] = {} THEN << >>
                  ELSE <<Slot("full"), Slot("diff"), Slot("incr")>>
  BY DEF Slots
<1>2. ASSUME Position["full"] # {}, NEW type \in {"full", "diff", "incr"}
      PROVE  (CHOOSE i \in Position[type] : TRUE) \in DOMAIN st.backup
  BY <1>2, SelectedType
<1> HIDE DEF Position, Slot
<1>3. Position["full"] # {} /\ Slots(st) = <<Slot("full"), Slot("diff"), Slot("incr")>>
  BY <1>1
<1>4. ASSUME NEW type \in {"full", "diff", "incr"}
      PROVE  \E k \in DOMAIN st.backup : Slot(type) = [type |-> type, backup |-> st.backup[k]]
  BY <1>2, <1>3 DEF Slot
<1>5. j \in 1..3 /\ Slots(st)[j] = Slot(<<"full", "diff", "incr">>[j])
  BY <1>3
<1>6. QED
  BY <1>4, <1>5

-----------------------------------------------------------------------------
\* The vectors each function stores into.
LastOnly == Sizes \cup {"duration_seconds", "since_completion_seconds"}
Vectors ==
  [stanza |-> {<<"stanza", "status">>} \cup
              {"stanza_backup", "stanza_restore"} \X {"lock_status", "total_bytes", "complete_bytes"},
   repo |-> {<<"repo", "status">>}, wal |-> {<<"wal", "archive_status">>},
   backup |-> {"backup"} \X (Sizes \cup {"info", "duration_seconds", "references"}),
   last |-> {"last"} \X (LastOnly \cup {"references"}),
   databases |-> {<<"backup", "databases">>}]

\* Ages may be below zero.
AgeVector == <<"last", "since_completion_seconds">>
\* An element has one series per vector, or one for each kind of reference.
OnePerVector(new) ==
  \A s, t \in new : s.vector = t.vector /\ s.vector[2] # "references" => s = t

Stored(p, new) ==
  /\ \A s \in new : s.vector \in Vectors[p] /\ (s.value \in Nat \/ s.vector = AgeVector)
  /\ OnePerVector(new)

\* Membership in the sizes of a backup.
LEMMA InSizes ==
  ASSUME NEW group, NEW labels, NEW b
  PROVE  \A s : s \in SetSizes(group, labels, b) <=>
                  \E v \in Sizes : s \in Series(<<group, v>>, labels, SizesOf(b)[v])
<1>1. DOMAIN SizesOf(b) = Sizes
  BY DEF SizesOf, Sizes
<1>2. QED
  BY <1>1 DEF SetSizes

\* Membership in the references of a backup.
LEMMA InReferences ==
  ASSUME NEW group, NEW labels, NEW b \in Backup
  PROVE  \A s : s \in References(group, labels, b) <=>
                  \E kind \in {"full", "diff", "incr"} :
                    s \in Series(<<group, "references">>, <<kind>> \o labels, b.reference[kind])
<1>1. DOMAIN b.reference = {"full", "diff", "incr"}
  BY DEF Backup
<1>2. QED
  BY <1>1 DEF References

\* No converter gives a negative number.
LEMMA Converted ==
  /\ \A v \in Optional : convertPointer(v) \in Nat
  /\ \A v \in BOOLEAN : convertBool(v) \in Nat
  /\ \A v : convertBoolPointer(v) \in Nat
  /\ \A b \in Backup : \A v \in Sizes : SizesOf(b)[v] \in Nat
<1>1. \A v \in Optional : convertPointer(v) \in Nat
  BY DEF Optional, Absent, convertPointer
<1>2. \A v : convertBoolPointer(v) \in Nat
  BY DEF convertBoolPointer, convertBool
<1>3. ASSUME NEW b \in Backup, NEW v \in Sizes PROVE SizesOf(b)[v] \in Nat
  <2>1. /\ b.size \in Nat /\ b.delta \in Nat /\ b.repoDelta \in Nat
        /\ b.repoSize \in Optional /\ b.sizeMap \in Optional /\ b.deltaMap \in Optional
        /\ b.annotations \in Optional
    BY DEF Backup
  <2>2. QED
    BY <1>1, <1>2, <2>1 DEF SizesOf, Sizes
<1>4. QED
  BY <1>1, <1>2, <1>3 DEF convertBool

\* What getStanzaMetrics stores is of its phase's vectors, once per vector and label set.
LEMMA StanzaStored ==
  ASSUME NEW st \in Stanza
  PROVE  Stored("stanza", StanzaSeries(st))
<1> DEFINE OfLock(name, lock) ==
             Series(<<name, "lock_status">>, <<st.name>>, convertBool(lock.held))
             \cup Series(<<name, "total_bytes">>, <<st.name>>, convertPointer(lock.size))
             \cup Series(<<name, "complete_bytes">>, <<st.name>>, convertPointer(lock.complete))
           Status0 == Series(<<"stanza", "status">>, <<st.name>>, st.status.code)
<1>1. st.status.backup \in Lock /\ st.status.restore \in Lock /\ st.status.code \in Nat
  BY StanzaFields DEF Status
<1>2. ASSUME NEW name, NEW lock \in Lock
      PROVE  /\ \A s \in OfLock(name, lock) : s.value \in Nat /\
                  \E f \in {"lock_status", "total_bytes", "complete_bytes"} : s.vector = <<name, f>>
             /\ \A s, t \in OfLock(name, lock) : s.vector = t.vector => s = t
  <2>1. lock.held \in BOOLEAN /\ lock.size \in Optional /\ lock.complete \in Optional
    BY DEF Lock
  <2>2. /\ convertBool(lock.held) \in Nat /\ convertPointer(lock.size) \in Nat
        /\ convertPointer(lock.complete) \in Nat
    BY <2>1, Converted
  <2>3. \A s \in Series(<<name, "lock_status">>, <<st.name>>, convertBool(lock.held)) :
          s.vector = <<name, "lock_status">> /\ s.value \in Nat
    BY <2>2, OneSeries
  <2>4. \A s \in Series(<<name, "total_bytes">>, <<st.name>>, convertPointer(lock.size)) :
          s.vector = <<name, "total_bytes">> /\ s.value \in Nat
    BY <2>2, OneSeries
  <2>5. \A s \in Series(<<name, "complete_bytes">>, <<st.name>>, convertPointer(lock.complete)) :
          s.vector = <<name, "complete_bytes">> /\ s.value \in Nat
    BY <2>2, OneSeries
  <2>6. QED
    BY <2>3, <2>4, <2>5, OneSeries
<1>3. /\ \A s \in Status0 : s.vector = <<"stanza", "status">> /\ s.value \in Nat
      /\ \A s, t \in Status0 : s = t
  BY <1>1, OneSeries
<1>4. StanzaSeries(st) = Status0 \cup OfLock("stanza_backup", st.status.backup)
                                 \cup OfLock("stanza_restore", st.status.restore)
  BY DEF StanzaSeries
<1> HIDE DEF OfLock, Status0
<1>5. \A s \in OfLock("stanza_backup", st.status.backup) : s.value \in Nat /\
        \E f \in {"lock_status", "total_bytes", "complete_bytes"} :
          s.vector = <<"stanza_backup", f>>
  BY <1>1, <1>2
<1>6. \A s \in OfLock("stanza_restore", st.status.restore) : s.value \in Nat /\
        \E f \in {"lock_status", "total_bytes", "complete_bytes"} :
          s.vector = <<"stanza_restore", f>>
  BY <1>1, <1>2
<1>7. ASSUME NEW s \in StanzaSeries(st)
      PROVE  s.vector \in Vectors["stanza"] /\ s.value \in Nat
  <2>1. /\ <<"stanza", "status">> \in Vectors["stanza"]
        /\ \A f \in {"lock_status", "total_bytes", "complete_bytes"} :
             /\ <<"stanza_backup", f>> \in Vectors["stanza"]
             /\ <<"stanza_restore", f>> \in Vectors["stanza"]
    BY DEF Vectors
  <2>2. QED
    BY <1>3, <1>4, <1>5, <1>6, <2>1
<1>8. ASSUME NEW s \in StanzaSeries(st), NEW t \in StanzaSeries(st), s.vector = t.vector
      PROVE  s = t
  <2>1. /\ \A x, y \in OfLock("stanza_backup", st.status.backup) : x.vector = y.vector => x = y
        /\ \A x, y \in OfLock("stanza_restore", st.status.restore) : x.vector = y.vector => x = y
    BY <1>1, <1>2
  <2>2. /\ \A x \in Status0 : x.vector[1] = "stanza"
        /\ \A x \in OfLock("stanza_backup", st.status.backup) : x.vector[1] = "stanza_backup"
        /\ \A x \in OfLock("stanza_restore", st.status.restore) : x.vector[1] = "stanza_restore"
    <3>1. \A v, f : <<v, f>>[1] = v
      OBVIOUS
    <3>2. \A x \in Status0 : x.vector[1] = "stanza"
      BY <1>3
    <3>3. \A x \in OfLock("stanza_backup", st.status.backup) : x.vector[1] = "stanza_backup"
      BY <1>5, <3>1
    <3>4. \A x \in OfLock("stanza_restore", st.status.restore) : x.vector[1] = "stanza_restore"
      BY <1>6, <3>1
    <3>5. QED
      BY <3>2, <3>3, <3>4
  <2>3. QED
    BY <1>3, <1>4, <1>8, <2>1, <2>2
<1>9. QED
  BY <1>7, <1>8 DEF Stored, OnePerVector

\* What getRepoMetrics stores is of its phase's vectors.
LEMMA RepoStored ==
  ASSUME NEW st \in Stanza, NEW j \in DOMAIN Repos(st)
  PROVE  Stored("repo", RepoSeries(st, Repos(st)[j]))
<1>1. Repos(st)[j].code \in Nat
  <2>1. CASE st.repo.given
    <3> DEFINE Listed == [cipher: STRING, key: Nat, code: Nat]
    <3>1. st.repo.list \in Seq(Listed)
      BY StanzaFields DEF Repo
    <3>2. Repos(st) = st.repo.list
      BY <2>1 DEF Repos
    <3>3. \A x \in Listed : x.code \in Nat
      OBVIOUS
    <3> HIDE DEF Listed
    <3>4. Repos(st)[j] \in Listed
      BY <3>1, <3>2
    <3>5. QED
      BY <3>3, <3>4
  <2>2. CASE ~st.repo.given
    <3> DEFINE none == [cipher |-> "none", key |-> 0, code |-> 0]
    <3>1. none.code = 0
      OBVIOUS
    <3>2. Repos(st) = <<none>>
      BY <2>2 DEF Repos
    <3> HIDE DEF none
    <3>3. j = 1 /\ Repos(st)[j] = none
      BY <3>2
    <3>4. QED
      BY <3>1, <3>3
  <2>3. QED
    BY <2>1, <2>2
<1>2. QED
  BY <1>1, OneSeries DEF RepoSeries, Stored, OnePerVector, Vectors

\* What getWALMetrics stores is of its phase's vectors.
LEMMA WALStored ==
  ASSUME NEW st \in Stanza, NEW a
  PROVE  Stored("wal", WALSeries(st, a))
<1>1. convertBool(a.min # "" /\ a.max # "") \in Nat
  BY Converted
<1> DEFINE value == convertBool(a.min # "" /\ a.max # "")
<1>2. \E values : WALSeries(st, a) = Series(<<"wal", "archive_status">>, values, value)
  BY DEF WALSeries
<1> HIDE DEF value
<1>3. PICK values : WALSeries(st, a) = Series(<<"wal", "archive_status">>, values, value)
  BY <1>2
<1>4. /\ \A s \in WALSeries(st, a) : s.vector = <<"wal", "archive_status">> /\ s.value = value
      /\ \A s, t \in WALSeries(st, a) : s = t
  BY <1>3, OneSeries
<1>5. QED
  BY <1>1, <1>4 DEF Stored, OnePerVector, Vectors, value

\* The duration of a backup of a reply.
LEMMA DurationType ==
  ASSUME NEW b \in Backup, b.start <= b.stop
  PROVE  b.stop - b.start \in Nat
<1>1. b.start \in Nat /\ b.stop \in Nat
  BY DEF Backup
<1>2. QED
  BY <1>1

\* What the two groups of vectors have in common.
LEMMA SizesStored ==
  ASSUME NEW group, NEW labels, NEW b \in Backup
  PROVE  /\ \A s \in SetSizes(group, labels, b) :
              s.value \in Nat /\ \E v \in Sizes : s.vector = <<group, v>>
         /\ \A s, t \in SetSizes(group, labels, b) : s.vector = t.vector => s = t
         /\ \A s \in References(group, labels, b) :
              s.value \in Nat /\ s.vector = <<group, "references">>
<1>1. \A kind \in {"full", "diff", "incr"} : b.reference[kind] \in Nat
  BY DEF Backup
<1>2. \A v \in Sizes : SizesOf(b)[v] \in Nat
  BY Converted
<1>3. ASSUME NEW s \in SetSizes(group, labels, b)
      PROVE  s.value \in Nat /\ \E v \in Sizes : s.vector = <<group, v>>
  <2>1. PICK v \in Sizes : s \in Series(<<group, v>>, labels, SizesOf(b)[v])
    BY InSizes
  <2>2. s.vector = <<group, v>> /\ s.value = SizesOf(b)[v]
    BY <2>1, OneSeries
  <2>3. QED
    BY <1>2, <2>2
<1>4. ASSUME NEW s \in SetSizes(group, labels, b), NEW t \in SetSizes(group, labels, b),
             s.vector = t.vector
      PROVE  s = t
  <2>1. PICK v \in Sizes : s \in Series(<<group, v>>, labels, SizesOf(b)[v])
    BY InSizes
  <2>2. PICK w \in Sizes : t \in Series(<<group, w>>, labels, SizesOf(b)[w])
    BY InSizes
  <2>3. <<group, v>> = <<group, w>>
    BY <1>4, <2>1, <2>2, OneSeries
  <2>4. v = w
    BY <2>3
  <2>5. QED
    BY <2>1, <2>2, <2>4, OneSeries
<1>5. ASSUME NEW s \in References(group, labels, b)
      PROVE  s.value \in Nat /\ s.vector = <<group, "references">>
  <2>1. PICK kind \in {"full", "diff", "incr"} :
          s \in Series(<<group, "references">>, <<kind>> \o labels, b.reference[kind])
    BY InReferences
  <2>2. s.vector = <<group, "references">> /\ s.value = b.reference[kind]
    BY <2>1, OneSeries
  <2>3. QED
    BY <1>1, <2>2
<1>6. QED
  BY <1>3, <1>4, <1>5

\* What getBackupMetrics stores is of its phase's vectors.
LEMMA BackupStored ==
  ASSUME NEW st \in Stanza, NEW b \in Backup, b.start <= b.stop
  PROVE  Stored("backup", BackupSeries(st, b))
<1> DEFINE Info0 == Series(<<"backup", "info">>,
         <<b.backrest, b.label, b.type, checkBackupIncremental(b), Itoa(b.id),
           convertEmptyLSNValueLabel(b.lsn[1]), convertEmptyLSNValueLabel(b.lsn[2]),
           getPGVersion(b.id, b.repo, st.db), b.prior, Itoa(b.repo), st.name,
           b.wal[1], b.wal[2]>>, 1)
           Duration == Series(<<"backup", "duration_seconds">>,
              LabelsOf(st, b) \o <<Itoa(b.start), Itoa(b.stop)>>, b.stop - b.start)
           Sized == SetSizes("backup", LabelsOf(st, b), b)
           Refs == IF flags.backupRefCount THEN References("backup", LabelsOf(st, b), b) ELSE {}
<1>1. BackupSeries(st, b) = Info0 \cup Duration \cup Sized \cup Refs
  BY DEF BackupSeries
<1>2. /\ \A s \in Info0 : s.vector = <<"backup", "info">> /\ s.value \in Nat
      /\ \A s, t \in Info0 : s = t
  BY OneSeries
<1>3. /\ \A s \in Duration : s.vector = <<"backup", "duration_seconds">> /\ s.value \in Nat
      /\ \A s, t \in Duration : s = t
  BY OneSeries, DurationType
<1>4. /\ \A s \in Sized : s.value \in Nat /\ \E v \in Sizes : s.vector = <<"backup", v>>
      /\ \A s, t \in Sized : s.vector = t.vector => s = t
  BY SizesStored
<1>5. \A s \in Refs : s.value \in Nat /\ s.vector = <<"backup", "references">>
  BY SizesStored
<1> HIDE DEF Info0, Duration, Sized, Refs
<1>6. \A f \in Sizes \cup {"info", "duration_seconds", "references"} :
        <<"backup", f>> \in Vectors["backup"]
  BY DEF Vectors
<1>7. ASSUME NEW s \in BackupSeries(st, b)
      PROVE  s.vector \in Vectors["backup"] /\ s.value \in Nat
  <2>1. CASE s \in Info0
    BY <1>2, <1>6, <2>1
  <2>2. CASE s \in Duration
    BY <1>3, <1>6, <2>2
  <2>3. CASE s \in Sized
    BY <1>4, <1>6, <2>3
  <2>4. CASE s \in Refs
    BY <1>5, <1>6, <2>4
  <2>5. QED
    BY <1>1, <2>1, <2>2, <2>3, <2>4
<1>8. \A v \in Sizes : v \notin {"info", "duration_seconds", "references"}
  BY DEF Sizes
<1>9. \A f : <<"backup", f>>[2] = f
  OBVIOUS
<1>10. ASSUME NEW s \in BackupSeries(st, b), NEW t \in BackupSeries(st, b),
              s.vector = t.vector, s.vector[2] # "references"
       PROVE  s = t
  <2>1. /\ \A x \in Info0 : x.vector[2] = "info"
        /\ \A x \in Duration : x.vector[2] = "duration_seconds"
        /\ \A x \in Sized : x.vector[2] \in Sizes
        /\ \A x \in Refs : x.vector[2] = "references"
    BY <1>2, <1>3, <1>4, <1>5, <1>9
  <2>2. QED
    BY <1>1, <1>2, <1>3, <1>4, <1>8, <1>10, <2>1
<1>11. QED
  BY <1>7, <1>10 DEF Stored, OnePerVector

\* What getBackupLastMetrics stores is of its phase's vectors.
LEMMA LastStored ==
  ASSUME NEW st \in Stanza, NEW slot, slot.backup \in Backup,
         slot.backup.start <= slot.backup.stop
  PROVE  Stored("last", LastSeriesOf(st, slot))
<1> DEFINE b == slot.backup
           labels == <<slot.type, checkBackupIncremental(b), st.name>>
           Sized == SetSizes("last", labels, b)
           Duration == Series(<<"last", "duration_seconds">>, labels, b.stop - b.start)
           Since == Series(<<"last", "since_completion_seconds">>, labels, Clock - b.stop)
           Refs == References("last", labels, b)
<1>1. LastSeriesOf(st, slot) = Sized \cup Duration \cup Since \cup Refs
  BY DEF LastSeriesOf
<1>2. /\ \A s \in Since : s.vector = AgeVector
      /\ \A s, t \in Since : s = t
  BY OneSeries DEF AgeVector
<1>3. /\ \A s \in Duration : s.vector = <<"last", "duration_seconds">> /\ s.value \in Nat
      /\ \A s, t \in Duration : s = t
  BY OneSeries, DurationType
<1>4. /\ \A s \in Sized : s.value \in Nat /\ \E v \in Sizes : s.vector = <<"last", v>>
      /\ \A s, t \in Sized : s.vector = t.vector => s = t
  BY SizesStored
<1>5. \A s \in Refs : s.value \in Nat /\ s.vector = <<"last", "references">>
  BY SizesStored
<1> HIDE DEF Since, Duration, Sized, Refs
<1>6. /\ \A f \in Sizes \cup {"duration_seconds", "references"} :
           <<"last", f>> \in Vectors["last"]
      /\ AgeVector \in Vectors["last"] /\ AgeVector[2] = "since_completion_seconds"
  BY DEF Vectors, LastOnly, AgeVector
<1>7. ASSUME NEW s \in LastSeriesOf(st, slot)
      PROVE  s.vector \in Vectors["last"] /\ (s.value \in Nat \/ s.vector = AgeVector)
  <2>1. CASE s \in Since
    BY <1>2, <1>6, <2>1
  <2>2. CASE s \in Duration
    BY <1>3, <1>6, <2>2
  <2>3. CASE s \in Sized
    BY <1>4, <1>6, <2>3
  <2>4. CASE s \in Refs
    BY <1>5, <1>6, <2>4
  <2>5. QED
    BY <1>1, <2>1, <2>2, <2>3, <2>4
<1>8. \A v \in Sizes : v \notin {"since_completion_seconds", "duration_seconds", "references"}
  BY DEF Sizes
<1>9. \A f : <<"last", f>>[2] = f
  OBVIOUS
<1>10. ASSUME NEW s \in LastSeriesOf(st, slot), NEW t \in LastSeriesOf(st, slot),
              s.vector = t.vector, s.vector[2] # "references"
       PROVE  s = t
  <2>1. /\ \A x \in Since : x.vector[2] = "since_completion_seconds"
        /\ \A x \in Duration : x.vector[2] = "duration_seconds"
        /\ \A x \in Sized : x.vector[2] \in Sizes
        /\ \A x \in Refs : x.vector[2] = "references"
    BY <1>2, <1>3, <1>4, <1>5, <1>6, <1>9
  <2>2. QED
    BY <1>1, <1>2, <1>3, <1>4, <1>8, <1>10, <2>1
<1>11. QED
  BY <1>7, <1>10 DEF Stored, OnePerVector

\* Everything a step of the publication stores is of its phase's vectors.
LEMMA ShowsStored ==
  ASSUME NEW r \in Replies, NEW i \in DOMAIN r, NEW p \in Phase,
         NEW j \in DOMAIN Lists(r[i])[p], NEW new, Shows(r[i], p, j, new)
  PROVE  Stored(p, new)
<1> DEFINE st == r[i]
<1>1. /\ st \in Stanza
      /\ \A k \in DOMAIN st.backup : /\ st.backup[k] \in Backup
                                      /\ st.backup[k].start <= st.backup[k].stop
  <2>1. st \in Stanza
    BY RepliesAssumption
  <2>2. \A k \in DOMAIN st.backup : st.backup[k].start <= st.backup[k].stop
    BY TimesAssumption
  <2>3. QED
    BY <2>1, <2>2, StanzaFields
<1>2. CASE p = "stanza"
  BY <1>1, <1>2, StanzaStored DEF Shows
<1>3. CASE p = "repo"
  <2>1. j \in DOMAIN Repos(st)
    BY <1>3 DEF Lists
  <2>2. QED
    BY <1>1, <1>3, <2>1, RepoStored DEF Shows
<1>4. CASE p = "wal"
  BY <1>1, <1>4, WALStored DEF Shows
<1>5. CASE p = "backup"
  <2>1. j \in DOMAIN st.backup
    BY <1>5 DEF Lists
  <2>2. QED
    BY <1>1, <1>5, <2>1, BackupStored DEF Shows
<1>6. CASE p = "last"
  <2>1. j \in DOMAIN Slots(st)
    BY <1>6 DEF Lists
  <2>2. PICK k \in DOMAIN st.backup :
          Slots(st)[j] = [type |-> <<"full", "diff", "incr">>[j], backup |-> st.backup[k]]
    BY <1>1, <2>1, SlotsFilled
  <2>3. Slots(st)[j].backup = st.backup[k]
    BY <2>2
  <2>4. QED
    BY <1>1, <1>6, <2>3, LastStored DEF Shows
<1>7. CASE p = "databases"
  BY <1>7, OneSeries DEF Shows, processSpecificBackupData, Stored, OnePerVector, Vectors
<1>8. QED
  BY <1>2, <1>3, <1>4, <1>5, <1>6, <1>7 DEF Phase

-----------------------------------------------------------------------------
\* The steps of the publication, whatever the list.
ElementPublished ==
  /\ pc \in Phase /\ at <= Len(reply) /\ item \in DOMAIN Lists(S)[pc]
  /\ \E new : Shows(S, pc, item, new) /\ Publish(new)
  /\ UNCHANGED <<flags, reply, at, before>>
  /\ \/ pc' = pc /\ item' = item + 1
     \/ pc = "stanza" /\ pc' = "repo" /\ item' = 1

ListDone ==
  /\ pc \in Phase \ {"stanza"} /\ item > Len(Lists(S)[pc])
  /\ UNCHANGED <<flags, reply, series, before>> /\ item' = 1
  /\ \/ pc' \in Phase /\ Rank[pc'] = Rank[pc] + 1 /\ at' = at
     \/ pc = "databases" /\ pc' = "stanza" /\ at' = at + 1

\* One iteration over a list, where the element at hand stores new.
Iteration(list, then, new) ==
  \/ /\ item <= Len(list) /\ Publish(new) /\ item' = item + 1
     /\ UNCHANGED <<pc, at, flags, reply, before>>
  \/ /\ item > Len(list) /\ item' = 1 /\ pc' = then
     /\ UNCHANGED <<at, series, flags, reply, before>>

\* One iteration of a loop publishes one element of its list.
LEMMA IterationStep ==
  ASSUME Place, NEW list, NEW then \in Phase, NEW new, Iteration(list, then, new),
         pc \in Phase \ {"stanza", "databases"}, Rank[then] = Rank[pc] + 1,
         list = Lists(S)[pc], Shows(S, pc, item, new)
  PROVE  ElementPublished \/ ListDone
<1>1. at <= Len(reply) /\ reply \in Replies /\ S \in Stanza
  BY Current DEF Place
<1>2. DOMAIN list = 1..Len(list) /\ Len(list) \in Nat /\ item \in Nat \ {0}
  BY <1>1, ListsType DEF Place
<1>3. CASE item <= Len(list)
  <2>1. item \in DOMAIN list
    BY <1>2, <1>3
  <2>2. /\ Publish(new) /\ item' = item + 1 /\ UNCHANGED <<pc, at>>
        /\ UNCHANGED <<flags, reply, before>>
    BY <1>2, <1>3 DEF Iteration
  <2>3. QED
    BY <1>1, <2>1, <2>2 DEF ElementPublished
<1>4. CASE item > Len(list)
  BY <1>1, <1>2, <1>4 DEF Iteration, ListDone
<1>5. QED
  BY <1>2, <1>3, <1>4

\* A step of the publication publishes one element or ends one list.
LEMMA PublicationSteps ==
  ASSUME Place,
         \/ getStanzaMetrics \/ getRepoMetrics \/ getWALMetrics \/ getBackupMetrics
         \/ getBackupLastMetrics \/ getBackupDBCountMetrics
  PROVE  ElementPublished \/ ListDone
<1>0. /\ Rank["wal"] = Rank["repo"] + 1 /\ Rank["backup"] = Rank["wal"] + 1
      /\ Rank["last"] = Rank["backup"] + 1 /\ Rank["databases"] = Rank["last"] + 1
  BY DEF Rank
<1>1. CASE getStanzaMetrics
  <2>1. pc = "stanza" /\ at <= Len(reply) /\ item = 1
    BY <1>1 DEF getStanzaMetrics, Place
  <2>2. 1 \in DOMAIN Lists(S)["stanza"]
    BY DEF Lists
  <2>3. Shows(S, "stanza", 1, StanzaSeries(S))
    BY DEF Shows
  <2>4. /\ Publish(StanzaSeries(S)) /\ pc' = "repo" /\ item' = item
        /\ UNCHANGED <<flags, reply, at, before>>
    BY <1>1 DEF getStanzaMetrics, Quiet
  <2>5. ElementPublished
    BY <2>1, <2>2, <2>3, <2>4 DEF ElementPublished, Phase
  <2>6. QED
    BY <2>5
<1>2. CASE getRepoMetrics
  <2>1. /\ pc = "repo" /\ Repos(S) = Lists(S)[pc]
        /\ Iteration(Repos(S), "wal", RepoSeries(S, Repos(S)[item]))
    BY <1>2 DEF getRepoMetrics, ForEach, Quiet, Iteration, Lists
  <2>2. Shows(S, pc, item, RepoSeries(S, Repos(S)[item]))
    BY <2>1 DEF Shows
  <2>3. QED
    BY <1>0, <2>1, <2>2, IterationStep DEF Phase
<1>3. CASE getWALMetrics
  <2>1. /\ pc = "wal" /\ S.archive = Lists(S)[pc]
        /\ Iteration(S.archive, "backup", WALSeries(S, S.archive[item]))
    BY <1>3 DEF getWALMetrics, ForEach, Quiet, Iteration, Lists
  <2>2. Shows(S, pc, item, WALSeries(S, S.archive[item]))
    BY <2>1 DEF Shows
  <2>3. QED
    BY <1>0, <2>1, <2>2, IterationStep DEF Phase
<1>4. CASE getBackupMetrics
  <2>1. /\ pc = "backup" /\ S.backup = Lists(S)[pc]
        /\ Iteration(S.backup, "last", BackupSeries(S, S.backup[item]))
    BY <1>4 DEF getBackupMetrics, ForEach, Quiet, Iteration, Lists
  <2>2. Shows(S, pc, item, BackupSeries(S, S.backup[item]))
    BY <2>1 DEF Shows
  <2>3. QED
    BY <1>0, <2>1, <2>2, IterationStep DEF Phase
<1>5. CASE getBackupLastMetrics
  <2>1. /\ pc = "last" /\ Slots(S) = Lists(S)[pc]
        /\ Iteration(Slots(S), "databases", LastSeriesOf(S, Slots(S)[item]))
    BY <1>5 DEF getBackupLastMetrics, ForEach, Quiet, Iteration, Lists
  <2>2. Shows(S, pc, item, LastSeriesOf(S, Slots(S)[item]))
    BY <2>1 DEF Shows
  <2>3. QED
    BY <1>0, <2>1, <2>2, IterationStep DEF Phase
<1>6. CASE getBackupDBCountMetrics
  <2>1. pc = "databases" /\ pc \in Phase /\ at <= Len(reply) /\ S \in Stanza
    BY <1>6, Current DEF getBackupDBCountMetrics, Place, Phase
  <2>2. /\ Len(S.backup) \in Nat /\ DOMAIN S.backup = 1..Len(S.backup)
        /\ item \in Nat \ {0} /\ \A j \in DOMAIN S.backup : S.backup[j] \in Backup
    BY <2>1, StanzaFields DEF Place
  <2>3. CASE flags.backupDBCount /\ item <= Len(S.backup)
    <3>1. item \in DOMAIN S.backup /\ Lists(S)[pc] = S.backup
      BY <2>1, <2>2, <2>3 DEF Lists
    <3>2. convertPointer(S.backup[item].databases) \in Nat /\ 0 \in Nat
      BY <2>2, <3>1, Converted DEF Backup
    <3>3. PICK value \in Nat : Publish(processSpecificBackupData(S, S.backup[item], value))
      BY <1>6, <2>3, <3>2 DEF getBackupDBCountMetrics
    <3>4. UNCHANGED <<flags, reply, at, before, pc>> /\ item' = item + 1
      BY <1>6, <2>3 DEF getBackupDBCountMetrics
    <3>5. Shows(S, pc, item, processSpecificBackupData(S, S.backup[item], value))
      BY <2>1 DEF Shows
    <3>6. QED
      BY <2>1, <3>1, <3>3, <3>4, <3>5 DEF ElementPublished
  <2>4. CASE ~(flags.backupDBCount /\ item <= Len(S.backup))
    <3>1. item' = 1 /\ at' = at + 1 /\ pc' = "stanza" /\ UNCHANGED <<flags, reply, series, before>>
      BY <1>6, <2>4 DEF getBackupDBCountMetrics
    <3>2. Len(<< >>) = 0
      OBVIOUS
    <3>3. item > Len(Lists(S)[pc])
      BY <2>1, <2>2, <2>4, <3>2 DEF Lists
    <3>4. QED
      BY <2>1, <3>1, <3>3 DEF ListDone
  <2>5. QED
    BY <2>3, <2>4
<1>7. QED
  BY <1>1, <1>2, <1>3, <1>4, <1>5, <1>6

-----------------------------------------------------------------------------
\* A publication never stores into the version's vector.
LEMMA VersionApart ==
  ASSUME NEW r \in Replies, NEW i \in DOMAIN r, NEW p \in Phase,
         NEW j \in DOMAIN Lists(r[i])[p], NEW key, Entry(r[i], p, j, key)
  PROVE  key[1] \in Vectors[p] /\ key[1] # <<"version", "info">> /\ key \notin VersionKeys
<1>1. PICK new : Shows(r[i], p, j, new) /\ key \in Keys(new)
  BY DEF Entry
<1>2. PICK s \in new : key = <<s.vector, s.labels>>
  BY <1>1, KeysIn
<1>3. s.vector \in Vectors[p]
  BY <1>1, ShowsStored DEF Stored
<1>4. key[1] = s.vector
  BY <1>2
<1>5. <<"version", "info">> \notin Vectors[p]
  <2>1. \A v \in Vectors[p] : v[1] # "version"
    <3>1. \A X, Y : \A v \in X \X Y : v[1] \in X
      OBVIOUS
    <3>2. \A x, y : <<x, y>>[1] = x
      OBVIOUS
    <3>3. CASE p = "stanza"
      BY <3>1, <3>2, <3>3 DEF Vectors
    <3>4. ASSUME NEW g, g # "version", NEW Y, Vectors[p] = {g} \X Y
          PROVE  \A v \in Vectors[p] : v[1] # "version"
      BY <3>1, <3>4
    <3>5. ASSUME NEW g, g # "version", NEW y, Vectors[p] = {<<g, y>>}
          PROVE  \A v \in Vectors[p] : v[1] # "version"
      BY <3>2, <3>5
    <3>6. CASE p = "backup"
      BY <3>4, <3>6 DEF Vectors
    <3>7. CASE p = "last"
      BY <3>4, <3>7 DEF Vectors
    <3>8. CASE p = "repo"
      BY <3>5, <3>8 DEF Vectors
    <3>9. CASE p = "wal"
      BY <3>5, <3>9 DEF Vectors
    <3>10. CASE p = "databases"
      BY <3>5, <3>10 DEF Vectors
    <3>11. QED
      BY <3>3, <3>6, <3>7, <3>8, <3>9, <3>10 DEF Phase
  <2>2. <<"version", "info">>[1] = "version"
    OBVIOUS
  <2>3. QED
    BY <2>1, <2>2
<1>6. \A k \in VersionKeys : k[1] = <<"version", "info">>
  <2>1. \A s1 \in Series(<<"version", "info">>, << >>, 0) : s1.vector = <<"version", "info">>
    BY OneSeries
  <2>2. QED
    BY <2>1 DEF VersionKeys, Keys
<1>7. QED
  BY <1>3, <1>4, <1>5, <1>6

\* Between cycles everything is published.
LEMMA AllPublished ==
  ASSUME Place, at = Len(reply) + 1
  PROVE  \A i \in DOMAIN reply : \A p, j : Published(i, p, j)
<1>1. DOMAIN reply = 1..Len(reply) /\ Len(reply) \in Nat
  BY ReplyType DEF Place
<1>2. QED
  BY <1>1 DEF Published

\* Between two cycles everything of the reply is published.
LEMMA WholeReply ==
  ASSUME Place, Exact, pc \in {"info", "sleep"}
  PROVE  \A key : key \in Keys(series) <=> OfReply(reply, key)
<1>1. at = Len(reply) + 1 /\ pc # "version"
  BY DEF Place
<1>2. QED
  BY <1>1, AllPublished DEF Exact, OfReply

\* Every step leaves exactly the label sets of what has been published.
LEMMA ExactStep ==
  ASSUME Place, Exact, [Next]_vars
  PROVE  Exact'
<1>0. /\ Len(reply) \in Nat /\ DOMAIN reply = 1..Len(reply)
      /\ \A i \in DOMAIN reply : reply \in Replies
  BY ReplyType DEF Place
<1>1. CASE getBackrestVersionMetrics
  <2>1. /\ pc = "version" /\ pc' = "info" /\ at = Len(reply) + 1
        /\ UNCHANGED <<flags, reply, at, item>>
    BY <1>1 DEF getBackrestVersionMetrics, Place
  <2>2. PICK value : Publish(Series(<<"version", "info">>, << >>, value))
    BY <1>1 DEF getBackrestVersionMetrics
  <2>3. Keys(series') = Keys(series) \cup VersionKeys
    BY <2>2, PublishKeys, OneSeries DEF VersionKeys
  <2>4. \A i \in DOMAIN reply : \A p, j : Published(i, p, j) /\ Published(i, p, j)'
    BY <1>0, <2>1 DEF Published
  <2>5. ASSUME NEW key
        PROVE  key \in Keys(series') <=>
                 \/ key \in VersionKeys
                 \/ \E i \in DOMAIN reply : \E p \in Phase :
                      \E j \in DOMAIN Lists(reply[i])[p] : Entry(reply[i], p, j, key)
    BY <2>1, <2>3, <2>4 DEF Exact
  <2>6. QED
    BY <2>1, <2>4, <2>5, SameFlags DEF Exact
<1>2. CASE Info
  <2>1. /\ pc = "info" /\ pc' = "stanza" /\ at' = 1 /\ item' = 1 /\ flags' = flags
        /\ series' = {s \in series : s.vector = <<"version", "info">>}
        /\ reply' = << >> \/ reply' \in Replies
    BY <1>2 DEF Info
  <2>2. DOMAIN reply' \subseteq Nat \ {0}
    <3>1. << >> \in Seq(Stanza)
      OBVIOUS
    <3>2. reply' \in Seq(Stanza)
      BY <2>1, <3>1, RepliesAssumption
    <3>3. QED
      BY <3>2
  <2>3. \A i \in DOMAIN reply' : \A p \in Phase : \A j \in Nat \ {0} : ~Published(i, p, j)'
    <3>1. \A p \in Phase : ~(Rank[p] < Rank["stanza"])
      BY DEF Rank, Phase
    <3>2. QED
      BY <2>1, <2>2, <3>1 DEF Published
  <2>4. Keys(series') = VersionKeys
    <3>1. \A key : key \in Keys(series') <=> key \in Keys(series) /\ key[1] = <<"version", "info">>
      BY <2>1 DEF Keys
    <3>2. \A key : key \in Keys(series) <=> OfReply(reply, key)
      BY <2>1, WholeReply
    <3>3. \A key \in VersionKeys : key[1] = <<"version", "info">>
      BY OneSeries DEF VersionKeys, Keys
    <3>4. QED
      BY <1>0, <3>1, <3>2, <3>3, VersionApart DEF OfReply
  <2>5. \A i \in DOMAIN reply' : reply'[i] \in Stanza
    BY <2>1, RepliesAssumption
  <2>6. \A st \in Stanza : \A p \in Phase : (DOMAIN Lists(st)[p])' \subseteq Nat \ {0}
    <3>1. \A st : Lists(st)' = Lists(st)
      BY <2>1, SameFlags
    <3>2. QED
      BY <3>1, ListsType
  <2>7. QED
    BY <2>1, <2>3, <2>4, <2>5, <2>6 DEF Exact
<1>3. CASE ElementPublished
  BY <1>3, ElementStep DEF ElementPublished
<1>4. CASE ListDone
  BY <1>4, ListEnds DEF ListDone
<1>5. CASE Sleep
  <2>1. /\ pc = "stanza" /\ pc' = "sleep" /\ at = Len(reply) + 1
        /\ UNCHANGED <<flags, reply, at, item, series>>
    BY <1>0, <1>5 DEF Sleep, Quiet, Place
  <2>2. \A i \in DOMAIN reply : \A p, j : Published(i, p, j) /\ Published(i, p, j)'
    BY <1>0, <2>1 DEF Published
  <2>3. QED
    BY <2>1, <2>2, SameFlags DEF Exact
<1>6. CASE Wake
  <2>1. /\ pc = "sleep" /\ pc' = "version" /\ at = Len(reply) + 1
        /\ UNCHANGED <<flags, reply, at, item>>
        /\ series' = {s \in series : s.vector # <<"version", "info">>}
    BY <1>6 DEF Wake, Quiet, Place
  <2>2. \A i \in DOMAIN reply : \A p, j : Published(i, p, j)'
    BY <1>0, <2>1 DEF Published
  <2>3. \A key : key \in Keys(series) <=> OfReply(reply, key)
    BY <2>1, WholeReply
  <2>4. \A key : key \in Keys(series') <=> key \in Keys(series) /\ key[1] # <<"version", "info">>
    BY <2>1 DEF Keys
  <2>5. \A key \in VersionKeys : key[1] = <<"version", "info">>
    BY OneSeries DEF VersionKeys, Keys
  <2>6. ASSUME NEW key
        PROVE  key \in Keys(series') <=>
                 \E i \in DOMAIN reply : \E p \in Phase :
                   \E j \in DOMAIN Lists(reply[i])[p] : Entry(reply[i], p, j, key)
    BY <1>0, <2>3, <2>4, <2>5, VersionApart DEF OfReply
  <2>7. ASSUME NEW key
        PROVE  key \in Keys(series') <=>
                 \E i \in DOMAIN reply : \E p \in Phase :
                   \E j \in DOMAIN Lists(reply[i])[p] :
                     Published(i, p, j)' /\ Entry(reply[i], p, j, key)'
    <3>1. \A st, p, j : Entry(st, p, j, key)' <=> Entry(st, p, j, key)
      BY <2>1, SameFlags
    <3>2. ASSUME NEW i \in DOMAIN reply, NEW p \in Phase, NEW j \in DOMAIN Lists(reply[i])[p]
          PROVE  Entry(reply[i], p, j, key) <=>
                   Published(i, p, j)' /\ Entry(reply[i], p, j, key)'
      BY <2>1, <2>2, <3>1
    <3>3. QED
      BY <2>6, <3>2
  <2>8. \A st : Lists(st)' = Lists(st)
    BY <2>1, SameFlags
  <2>9. QED
    BY <2>1, <2>7, <2>8 DEF Exact
<1>7. CASE UNCHANGED vars
  <2>1. UNCHANGED <<flags, reply, at, item, series, pc>>
    BY <1>7 DEF vars
  <2>2. \A i, p, j : Published(i, p, j)' <=> Published(i, p, j)
    BY <2>1 DEF Published
  <2>3. QED
    BY <2>1, <2>2, SameFlags DEF Exact
<1>8. QED
  BY <1>1, <1>2, <1>3, <1>4, <1>5, <1>6, <1>7, PublicationSteps DEF Next, Done

-----------------------------------------------------------------------------
\* Every series was stored for the version or for an entry of one of the reply's lists.
OfVersion(s) == \E value \in Nat : s \in Series(<<"version", "info">>, << >>, value)
OfEntry(s) ==
  \E i \in DOMAIN reply : \E p \in Phase : \E j \in DOMAIN Lists(reply[i])[p] :
    \E new : Shows(reply[i], p, j, new) /\ s \in new
FromReply == \A s \in series : OfVersion(s) \/ OfEntry(s)

\* Those of an entry are of the vectors of its phase, none of the version's.
LEMMA EntryVector ==
  ASSUME NEW r \in Replies, NEW i \in DOMAIN r, NEW p \in Phase,
         NEW j \in DOMAIN Lists(r[i])[p], NEW new, Shows(r[i], p, j, new), NEW s \in new
  PROVE  s.vector \in Vectors[p] /\ s.vector # <<"version", "info">>
<1>1. s.vector \in Vectors[p]
  BY ShowsStored DEF Stored
<1> DEFINE key == <<s.vector, s.labels>>
<1>2. key[1] = s.vector /\ key \in Keys(new)
  BY DEF Keys
<1>3. Entry(r[i], p, j, key)
  BY <1>2 DEF Entry
<1> HIDE DEF key
<1>4. QED
  BY <1>1, <1>2, <1>3, VersionApart

\* Every step keeps it so: a step stores for one entry, and a new reply comes when the
\* vectors are reset.
LEMMA FromReplyStep ==
  ASSUME Place, FromReply, [Next]_vars
  PROVE  FromReply'
<1>1. ASSUME UNCHANGED <<flags, reply>>
      PROVE  \A s : OfEntry(s)' <=> OfEntry(s)
  BY <1>1, SameFlags DEF OfEntry
<1>2. \A s : OfVersion(s)' <=> OfVersion(s)
  BY DEF OfVersion
<1>3. CASE UNCHANGED <<flags, reply>> /\ series' \subseteq series
  BY <1>1, <1>2, <1>3 DEF FromReply
<1>4. CASE getBackrestVersionMetrics
  <2>1. PICK value \in Nat : Publish(Series(<<"version", "info">>, << >>, value))
    BY <1>4 DEF getBackrestVersionMetrics, VersionNumber
  <2>2. UNCHANGED <<flags, reply>>
    BY <1>4 DEF getBackrestVersionMetrics
  <2>3. \A s \in series' : s \in series \/ OfVersion(s)
    BY <2>1 DEF Publish, OfVersion
  <2>4. QED
    BY <1>1, <1>2, <2>2, <2>3 DEF FromReply
<1>5. CASE Info
  <2>1. series' \subseteq series /\ \A s \in series' : s.vector = <<"version", "info">>
    BY <1>5 DEF Info
  <2>2. ASSUME NEW s \in series' PROVE OfVersion(s)
    <3>1. ASSUME OfEntry(s) PROVE FALSE
      BY <2>1, <2>2, <3>1, EntryVector, ReplyType DEF OfEntry, Place
    <3>2. QED
      BY <2>1, <2>2, <3>1 DEF FromReply
  <2>3. QED
    BY <1>2, <2>2 DEF FromReply
<1>6. CASE ElementPublished
  <2>1. PICK new : Shows(S, pc, item, new) /\ Publish(new)
    BY <1>6 DEF ElementPublished
  <2>2. /\ at \in DOMAIN reply /\ S = reply[at]
        /\ pc \in Phase /\ item \in DOMAIN Lists(S)[pc]
    BY <1>6, Current DEF ElementPublished
  <2>3. UNCHANGED <<flags, reply>>
    BY <1>6 DEF ElementPublished
  <2>4. \A s \in new : OfEntry(s)
    BY <2>1, <2>2 DEF OfEntry
  <2>5. \A s \in series' : s \in series \/ OfEntry(s)
    BY <2>1, <2>4 DEF Publish
  <2>6. QED
    BY <1>1, <1>2, <2>3, <2>5 DEF FromReply
<1>7. CASE ListDone
  BY <1>3, <1>7 DEF ListDone
<1>8. CASE Sleep \/ Wake \/ UNCHANGED vars
  BY <1>3, <1>8 DEF Sleep, Wake, Quiet, vars
<1>9. QED
  BY <1>4, <1>5, <1>6, <1>7, <1>8, PublicationSteps DEF Next, Done

\* Each store takes the label names of its vector.
LEMMA EntryLabels ==
  ASSUME NEW r \in Replies, NEW i \in DOMAIN r, NEW p \in Phase,
         NEW j \in DOMAIN Lists(r[i])[p], NEW new, Shows(r[i], p, j, new), NEW s \in new
  PROVE  DOMAIN s.labels = LabelNames(s.vector)
<1> DEFINE Stores(t) == \E vector, values, value : t \in Series(vector, values, value)
<1>1. \A t : Stores(t) => DOMAIN t.labels = LabelNames(t.vector)
  BY OneSeries
<1>2. \A t, vector, values, value : t \in Series(vector, values, value) => Stores(t)
  OBVIOUS
<1> HIDE DEF Stores
<1>3. r[i] \in Stanza /\ \A k \in DOMAIN r[i].backup : r[i].backup[k] \in Backup
  BY RepliesAssumption, StanzaFields
<1>4. ASSUME NEW group, NEW labels, NEW b
      PROVE  \A t \in SetSizes(group, labels, b) \cup References(group, labels, b) : Stores(t)
  <2>1. \A t \in SetSizes(group, labels, b) :
          \E v : t \in Series(<<group, v>>, labels, SizesOf(b)[v])
    BY DEF SetSizes
  <2>2. \A t \in References(group, labels, b) :
          \E kind : t \in Series(<<group, "references">>, <<kind>> \o labels, b.reference[kind])
    BY DEF References
  <2>3. \A t \in SetSizes(group, labels, b) : Stores(t)
    BY <1>2, <2>1
  <2>4. \A t \in References(group, labels, b) : Stores(t)
    BY <1>2, <2>2
  <2>5. QED
    BY <2>3, <2>4
<1> SUFFICES Stores(s)
  BY <1>1
<1>5. CASE p = "stanza"
  BY <1>2, <1>5 DEF Shows, StanzaSeries
<1>6. CASE p = "repo"
  BY <1>2, <1>6 DEF Shows, RepoSeries
<1>7. CASE p = "wal"
  BY <1>2, <1>7 DEF Shows, WALSeries
<1>8. CASE p = "backup"
  BY <1>2, <1>4, <1>8 DEF Shows, BackupSeries
<1>9. CASE p = "last"
  BY <1>2, <1>4, <1>9 DEF Shows, LastSeriesOf
<1>10. CASE p = "databases"
  BY <1>2, <1>10 DEF Shows, processSpecificBackupData
<1>11. QED
  BY <1>5, <1>6, <1>7, <1>8, <1>9, <1>10 DEF Phase

\* Every vector a function stores into is declared.
IsDeclared(v) == v[1] \in DOMAIN Declared /\ v[2] \in DOMAIN Declared[v[1]]

\* Each vector of each phase has its label names.
LEMMA AllDeclared ==
  /\ IsDeclared(<<"version", "info">>)
  /\ \A p \in Phase : \A v \in Vectors[p] : IsDeclared(v)
<1>0. \A x, y : <<x, y>>[1] = x /\ <<x, y>>[2] = y
  OBVIOUS
<1>1. \A X, Y : \A v \in X \X Y : v[1] \in X /\ v[2] \in Y
  OBVIOUS
<1>2. DOMAIN Declared = {"backup", "last", "stanza", "stanza_backup", "stanza_restore", "repo",
                         "wal", "version"}
  BY DEF Declared
<1>3. /\ Declared["backup"] = BackupVectors /\ Declared["last"] = LastVectors
      /\ Declared["stanza"] = StanzaVectors /\ Declared["stanza_backup"] = LockVectors
      /\ Declared["stanza_restore"] = LockVectors /\ Declared["repo"] = RepoVectors
      /\ Declared["wal"] = WALVectors /\ Declared["version"] = VersionVectors
  BY DEF Declared
<1>4. DOMAIN BackupVectors = Sizes \cup {"info", "duration_seconds", "references", "databases"}
  BY DEF BackupVectors
<1>5. /\ DOMAIN LastVectors = LastOnly \cup {"references"}
      /\ DOMAIN StanzaVectors = {"status"}
      /\ DOMAIN LockVectors = {"lock_status", "total_bytes", "complete_bytes"}
      /\ DOMAIN RepoVectors = {"status"} /\ DOMAIN WALVectors = {"archive_status"}
      /\ DOMAIN VersionVectors = {"info"}
  BY DEF LastVectors, LastOnly, StanzaVectors, LockVectors, RepoVectors, WALVectors,
         VersionVectors
<1>6. IsDeclared(<<"version", "info">>)
  BY <1>0, <1>2, <1>3, <1>5 DEF IsDeclared
<1>7. \A v \in Vectors["stanza"] : IsDeclared(v)
  <2>1. IsDeclared(<<"stanza", "status">>)
    BY <1>0, <1>2, <1>3, <1>5 DEF IsDeclared
  <2>2. ASSUME NEW v \in {"stanza_backup", "stanza_restore"}
                       \X {"lock_status", "total_bytes", "complete_bytes"}
        PROVE  IsDeclared(v)
    <3>1. v[1] \in {"stanza_backup", "stanza_restore"} /\ v[2] \in DOMAIN LockVectors
      BY <1>1, <1>5
    <3>2. QED
      BY <1>2, <1>3, <3>1 DEF IsDeclared
  <2>3. QED
    BY <2>1, <2>2 DEF Vectors
<1>8. \A v \in Vectors["backup"] : IsDeclared(v)
  <2>1. \A v \in Vectors["backup"] : v[1] = "backup" /\ v[2] \in DOMAIN BackupVectors
    BY <1>1, <1>4 DEF Vectors
  <2>2. QED
    BY <1>2, <1>3, <2>1 DEF IsDeclared
<1>9. \A v \in Vectors["last"] : IsDeclared(v)
  <2>1. \A v \in Vectors["last"] : v[1] = "last" /\ v[2] \in DOMAIN LastVectors
    BY <1>1, <1>5 DEF Vectors
  <2>2. QED
    BY <1>2, <1>3, <2>1 DEF IsDeclared
<1>10. \A v \in Vectors["repo"] : IsDeclared(v)
  BY <1>0, <1>2, <1>3, <1>5 DEF IsDeclared, Vectors
<1>11. \A v \in Vectors["wal"] : IsDeclared(v)
  BY <1>0, <1>2, <1>3, <1>5 DEF IsDeclared, Vectors
<1>12. \A v \in Vectors["databases"] : IsDeclared(v)
  BY <1>0, <1>2, <1>3, <1>4 DEF IsDeclared, Vectors
<1>13. QED
  BY <1>6, <1>7, <1>8, <1>9, <1>10, <1>11, <1>12 DEF Phase

\* Type correctness: every series has the label names its vector declares, and no absent
\* field is taken for a number.
THEOREM TypeCorrect == Spec => []TypeOK
<1>1. Init => FromReply
  BY DEF Init, FromReply
<1>2. Place /\ FromReply /\ [Next]_vars => Place' /\ FromReply'
  BY PlaceStep, FromReplyStep
<1>3. Place /\ FromReply => TypeOK
  <2> SUFFICES ASSUME Place, FromReply PROVE TypeOK
    OBVIOUS
  <2>1. left.cycles \in 0..MaxCycles /\ left.failures \in 0..MaxFailures
    BY DEF Place
  <2>2. ASSUME NEW s \in series
        PROVE  /\ IsDeclared(s.vector) /\ DOMAIN s.labels = LabelNames(s.vector)
               /\ s.value \in Nat \/ s.vector = AgeVector
    <3>1. CASE OfVersion(s)
      BY <3>1, OneSeries, AllDeclared DEF OfVersion
    <3>2. CASE OfEntry(s)
      <4>1. PICK i \in DOMAIN reply, p \in Phase : \E j \in DOMAIN Lists(reply[i])[p] :
              \E new : Shows(reply[i], p, j, new) /\ s \in new
        BY <3>2 DEF OfEntry
      <4>1a. PICK j \in DOMAIN Lists(reply[i])[p] : \E new : Shows(reply[i], p, j, new) /\ s \in new
        BY <4>1
      <4>2. PICK new : Shows(reply[i], p, j, new) /\ s \in new
        BY <4>1a
      <4>3. reply \in Replies
        BY <4>1, ReplyType DEF Place
      <4>4. s.vector \in Vectors[p] /\ (s.value \in Nat \/ s.vector = AgeVector)
        BY <4>2, <4>3, ShowsStored DEF Stored
      <4>5. DOMAIN s.labels = LabelNames(s.vector)
        BY <4>2, <4>3, EntryLabels
      <4>6. QED
        BY <4>4, <4>5, AllDeclared
    <3>3. QED
      BY <3>1, <3>2 DEF FromReply
  <2>3. QED
    BY <2>1, <2>2 DEF Place, AgeVector, TypeOK, IsDeclared
<1>4. QED
  BY <1>1, <1>2, <1>3, PlaceInit, PTL DEF Spec

-----------------------------------------------------------------------------
\* Two backups with the same label values, and two stanzas with the same shape.
SameBackup(b, c) ==
  /\ b.label = c.label /\ b.type = c.type /\ b.id = c.id /\ b.repo = c.repo
  /\ checkBackupIncremental(b) = checkBackupIncremental(c)
  /\ b.prior = c.prior /\ b.backrest = c.backrest /\ b.lsn = c.lsn /\ b.wal = c.wal
  /\ b.start = c.start /\ b.stop = c.stop

Alike(st, su) ==
  /\ st.name = su.name /\ st.db = su.db
  /\ \A j \in DOMAIN Repos(st) : \E k \in DOMAIN Repos(su) :
       Repos(st)[j].cipher = Repos(su)[k].cipher /\ Repos(st)[j].key = Repos(su)[k].key
  /\ DOMAIN st.archive = DOMAIN su.archive
  /\ \A j \in DOMAIN st.archive :
       /\ st.archive[j].id = su.archive[j].id /\ st.archive[j].repo = su.archive[j].repo
       /\ flags.verboseWAL => st.archive[j] = su.archive[j]
  /\ DOMAIN st.backup = DOMAIN su.backup
  /\ \A j \in DOMAIN st.backup : SameBackup(st.backup[j], su.backup[j])

\* Repositories of a reply's stanza, as Shape takes them.
LEMMA ShapeOfRepos ==
  ASSUME NEW st \in Stanza
  PROVE  (IF st.repo.given
          THEN {<<x.cipher, x.key>> : x \in {st.repo.list[j] : j \in DOMAIN st.repo.list}}
          ELSE {<<"none", 0>>})
         = {<<Repos(st)[j].cipher, Repos(st)[j].key>> : j \in DOMAIN Repos(st)}
<1>1. CASE st.repo.given
  BY <1>1 DEF Repos
<1>2. CASE ~st.repo.given
  <2> DEFINE none == [cipher |-> "none", key |-> 0, code |-> 0]
  <2>1. Repos(st) = <<none>> /\ none.cipher = "none" /\ none.key = 0
    BY <1>2 DEF Repos
  <2> HIDE DEF none
  <2>2. DOMAIN Repos(st) = {1} /\ Repos(st)[1] = none
    BY <2>1
  <2>3. QED
    BY <1>2, <2>1, <2>2
<1>3. QED
  BY <1>1, <1>2

\* Two replies of the same shape name the same stanzas and databases, alike, one by one.
LEMMA SameShape ==
  ASSUME NEW r \in Replies, NEW q \in Replies, Shape(r) = Shape(q)
  PROVE  DOMAIN r = DOMAIN q /\ \A i \in DOMAIN r : Alike(r[i], q[i])
<1> DEFINE Of1(x, i) ==
    [name |-> x[i].name, db |-> x[i].db,
     repo |-> IF x[i].repo.given
              THEN {<<y.cipher, y.key>> : y \in {x[i].repo.list[j] :
                                                   j \in DOMAIN x[i].repo.list}}
              ELSE {<<"none", 0>>},
     archive |-> [j \in DOMAIN x[i].archive |->
                    IF flags.verboseWAL THEN x[i].archive[j]
                    ELSE [x[i].archive[j] EXCEPT !.min = "", !.max = ""]],
     backup |-> [j \in DOMAIN x[i].backup |->
                   LET b == x[i].backup[j]
                   IN  <<b.label, b.type, checkBackupIncremental(b), b.id, b.repo, b.prior,
                         b.backrest, b.lsn, b.wal, b.start, b.stop>>]]
<1>1. Shape(r) = [i \in DOMAIN r |-> Of1(r, i)] /\ Shape(q) = [i \in DOMAIN q |-> Of1(q, i)]
  BY DEF Shape
<1> HIDE DEF Of1
<1>2. DOMAIN r = DOMAIN q
  BY <1>1
<1>3. ASSUME NEW i \in DOMAIN r PROVE Alike(r[i], q[i])
  <2>1. Of1(r, i) = Of1(q, i)
    BY <1>1, <1>2
  <2>2. r[i] \in Stanza /\ q[i] \in Stanza
    BY <1>2, RepliesAssumption
  <2>3. r[i].name = q[i].name /\ r[i].db = q[i].db
    BY <2>1 DEF Of1
  <2>4. \A j \in DOMAIN Repos(r[i]) : \E k \in DOMAIN Repos(q[i]) :
          /\ Repos(r[i])[j].cipher = Repos(q[i])[k].cipher
          /\ Repos(r[i])[j].key = Repos(q[i])[k].key
    <3>1. Of1(r, i).repo = {<<Repos(r[i])[j].cipher, Repos(r[i])[j].key>> : j \in DOMAIN Repos(r[i])}
      BY <2>2, ShapeOfRepos DEF Of1
    <3>2. Of1(q, i).repo = {<<Repos(q[i])[j].cipher, Repos(q[i])[j].key>> : j \in DOMAIN Repos(q[i])}
      BY <2>2, ShapeOfRepos DEF Of1
    <3> DEFINE P(x, j) == <<Repos(x)[j].cipher, Repos(x)[j].key>>
    <3>3. {P(r[i], j) : j \in DOMAIN Repos(r[i])} = {P(q[i], j) : j \in DOMAIN Repos(q[i])}
      BY <2>1, <3>1, <3>2
    <3>4. \A j, k : P(r[i], j) = P(q[i], k) =>
            /\ Repos(r[i])[j].cipher = Repos(q[i])[k].cipher
            /\ Repos(r[i])[j].key = Repos(q[i])[k].key
      OBVIOUS
    <3> HIDE DEF P
    <3>5. \A j \in DOMAIN Repos(r[i]) : \E k \in DOMAIN Repos(q[i]) : P(r[i], j) = P(q[i], k)
      BY <3>3
    <3>6. QED
      BY <3>4, <3>5
  <2>5. /\ DOMAIN r[i].archive = DOMAIN q[i].archive
        /\ \A j \in DOMAIN r[i].archive :
             /\ r[i].archive[j].id = q[i].archive[j].id
             /\ r[i].archive[j].repo = q[i].archive[j].repo
             /\ flags.verboseWAL => r[i].archive[j] = q[i].archive[j]
    <3> DEFINE A(x) == [j \in DOMAIN x.archive |->
                         IF flags.verboseWAL THEN x.archive[j]
                         ELSE [x.archive[j] EXCEPT !.min = "", !.max = ""]]
    <3>1. A(r[i]) = A(q[i])
      <4>1. Of1(r, i).archive = A(r[i]) /\ Of1(q, i).archive = A(q[i])
        BY DEF Of1
      <4>2. QED
        BY <2>1, <4>1
    <3>2. DOMAIN r[i].archive = DOMAIN q[i].archive
      <4>1. DOMAIN A(r[i]) = DOMAIN r[i].archive /\ DOMAIN A(q[i]) = DOMAIN q[i].archive
        OBVIOUS
      <4>2. QED
        BY <3>1, <4>1
    <3>3. ASSUME NEW j \in DOMAIN r[i].archive
          PROVE  /\ r[i].archive[j].id = q[i].archive[j].id
                 /\ r[i].archive[j].repo = q[i].archive[j].repo
                 /\ flags.verboseWAL => r[i].archive[j] = q[i].archive[j]
      <4>1. A(r[i])[j] = A(q[i])[j]
        BY <3>1
      <4>2. r[i].archive[j] \in Archive /\ q[i].archive[j] \in Archive
        BY <2>2, <3>2, StanzaFields
      <4>3. CASE flags.verboseWAL
        BY <3>2, <4>1, <4>3
      <4>4. CASE ~flags.verboseWAL
        <5>1. [r[i].archive[j] EXCEPT !.min = "", !.max = ""]
                = [q[i].archive[j] EXCEPT !.min = "", !.max = ""]
          BY <3>2, <4>1, <4>4
        <5>2. \A x \in Archive : /\ [x EXCEPT !.min = "", !.max = ""].id = x.id
                                 /\ [x EXCEPT !.min = "", !.max = ""].repo = x.repo
          BY DEF Archive
        <5>3. QED
          BY <4>2, <4>4, <5>1, <5>2
      <4>5. QED
        BY <4>3, <4>4
    <3>4. QED
      BY <3>2, <3>3
  <2>6. /\ DOMAIN r[i].backup = DOMAIN q[i].backup
        /\ \A j \in DOMAIN r[i].backup : SameBackup(r[i].backup[j], q[i].backup[j])
    <3> DEFINE L(b) == <<b.label, b.type, checkBackupIncremental(b), b.id, b.repo, b.prior,
                         b.backrest, b.lsn, b.wal, b.start, b.stop>>
               B(x) == [j \in DOMAIN x.backup |-> L(x.backup[j])]
    <3>1. B(r[i]) = B(q[i])
      <4>1. Of1(r, i).backup = B(r[i]) /\ Of1(q, i).backup = B(q[i])
        BY DEF Of1
      <4>2. QED
        BY <2>1, <4>1
    <3>2. \A b, c : L(b) = L(c) => SameBackup(b, c)
      BY DEF SameBackup
    <3> HIDE DEF L
    <3>3. /\ DOMAIN B(r[i]) = DOMAIN r[i].backup /\ DOMAIN B(q[i]) = DOMAIN q[i].backup
          /\ \A j \in DOMAIN r[i].backup : B(r[i])[j] = L(r[i].backup[j])
          /\ \A j \in DOMAIN q[i].backup : B(q[i])[j] = L(q[i].backup[j])
      OBVIOUS
    <3> HIDE DEF B
    <3>4. QED
      BY <3>1, <3>2, <3>3
  <2>7. QED
    BY <2>3, <2>4, <2>5, <2>6 DEF Alike
<1>4. QED
  BY <1>2, <1>3

-----------------------------------------------------------------------------
\* Sizes and references have label sets that depend on the labels only.
LEMMA SizesKeys ==
  ASSUME NEW group, NEW labels, NEW b, NEW c
  PROVE  Keys(SetSizes(group, labels, b)) \subseteq Keys(SetSizes(group, labels, c))
<1> SUFFICES ASSUME NEW s \in SetSizes(group, labels, b)
             PROVE  <<s.vector, s.labels>> \in Keys(SetSizes(group, labels, c))
  BY DEF Keys
<1>1. PICK v \in Sizes : s \in Series(<<group, v>>, labels, SizesOf(b)[v])
  BY InSizes
<1>2. <<s.vector, s.labels>> \in Keys(Series(<<group, v>>, labels, SizesOf(b)[v]))
  BY <1>1 DEF Keys
<1>3. <<s.vector, s.labels>> \in Keys(Series(<<group, v>>, labels, SizesOf(c)[v]))
  BY <1>2, OneSeries
<1>4. PICK t \in Series(<<group, v>>, labels, SizesOf(c)[v]) : <<s.vector, s.labels>> = <<t.vector, t.labels>>
  BY <1>3, KeysIn
<1>5. t \in SetSizes(group, labels, c)
  BY <1>4, InSizes
<1>6. QED
  BY <1>4, <1>5, KeysIn

\* References of two backups have the same label sets.
LEMMA ReferencesKeys ==
  ASSUME NEW group, NEW labels, NEW b \in Backup, NEW c \in Backup
  PROVE  Keys(References(group, labels, b)) \subseteq Keys(References(group, labels, c))
<1> SUFFICES ASSUME NEW s \in References(group, labels, b)
             PROVE  <<s.vector, s.labels>> \in Keys(References(group, labels, c))
  BY DEF Keys
<1>1. PICK v \in {"full", "diff", "incr"} :
        s \in Series(<<group, "references">>, <<v>> \o labels, b.reference[v])
  BY InReferences
<1>2. <<s.vector, s.labels>> \in Keys(Series(<<group, "references">>, <<v>> \o labels, b.reference[v]))
  BY <1>1 DEF Keys
<1>3. <<s.vector, s.labels>> \in Keys(Series(<<group, "references">>, <<v>> \o labels, c.reference[v]))
  BY <1>2, OneSeries
<1>4. PICK t \in Series(<<group, "references">>, <<v>> \o labels, c.reference[v]) :
        <<s.vector, s.labels>> = <<t.vector, t.labels>>
  BY <1>3, KeysIn
<1>5. t \in References(group, labels, c)
  BY <1>4, InReferences
<1>6. QED
  BY <1>4, <1>5, KeysIn

\* The label sets of A are among those of C.
Covered(A, C) == Keys(A) \subseteq Keys(C)

\* Covered sets of series, together.
LEMMA UnionKeys ==
  ASSUME NEW A, NEW B, NEW C, NEW D, Covered(A, C), Covered(B, D)
  PROVE  Covered(A \cup B, C \cup D)
<1>1. Keys(A \cup B) = Keys(A) \cup Keys(B)
  BY KeysOfUnion
<1>2. Keys(C \cup D) = Keys(C) \cup Keys(D)
  BY KeysOfUnion
<1>3. QED
  BY <1>1, <1>2 DEF Covered

\* Stanzas of the same shape publish the same label sets, list by list.
LEMMA AlikeStanza ==
  ASSUME NEW st, NEW su, st.name = su.name
  PROVE  Covered(StanzaSeries(st), StanzaSeries(su))
<1> DEFINE OfLock(x, name, lock) ==
             Series(<<name, "lock_status">>, <<x.name>>, convertBool(lock.held))
             \cup Series(<<name, "total_bytes">>, <<x.name>>, convertPointer(lock.size))
             \cup Series(<<name, "complete_bytes">>, <<x.name>>, convertPointer(lock.complete))
           Code(x) == Series(<<"stanza", "status">>, <<x.name>>, x.status.code)
<1>1. ASSUME NEW name, NEW a, NEW b
      PROVE  Covered(OfLock(st, name, a), OfLock(su, name, b))
  <2> DEFINE Part1(x, y) == Series(<<name, "lock_status">>, <<x.name>>, convertBool(y.held))
             Part2(x, y) == Series(<<name, "total_bytes">>, <<x.name>>, convertPointer(y.size))
             Part3(x, y) == Series(<<name, "complete_bytes">>, <<x.name>>,
                                   convertPointer(y.complete))
  <2>1. /\ Covered(Part1(st, a), Part1(su, b))
        /\ Covered(Part2(st, a), Part2(su, b))
        /\ Covered(Part3(st, a), Part3(su, b))
    BY OneSeries DEF Covered
  <2>2. OfLock(st, name, a) = Part1(st, a) \cup Part2(st, a) \cup Part3(st, a)
    OBVIOUS
  <2>3. OfLock(su, name, b) = Part1(su, b) \cup Part2(su, b) \cup Part3(su, b)
    OBVIOUS
  <2> HIDE DEF Part1, Part2, Part3, OfLock
  <2>4. Covered(Part1(st, a) \cup Part2(st, a), Part1(su, b) \cup Part2(su, b))
    BY <2>1, UnionKeys
  <2>5. Covered((Part1(st, a) \cup Part2(st, a)) \cup Part3(st, a),
          (Part1(su, b) \cup Part2(su, b)) \cup Part3(su, b))
    BY <2>1, <2>4, UnionKeys
  <2>6. QED
    BY <2>2, <2>3, <2>5
<1>2. Covered(Code(st), Code(su))
  BY OneSeries DEF Covered
<1>3. \A x : StanzaSeries(x) = Code(x) \cup OfLock(x, "stanza_backup", x.status.backup)
                                       \cup OfLock(x, "stanza_restore", x.status.restore)
  BY DEF StanzaSeries
<1> HIDE DEF Code, OfLock
<1> DEFINE Both(x) == Code(x) \cup OfLock(x, "stanza_backup", x.status.backup)
<1>4. Covered(Both(st), Both(su))
  BY <1>1, <1>2, UnionKeys
<1>5. \A x : StanzaSeries(x) = Both(x) \cup OfLock(x, "stanza_restore", x.status.restore)
  BY <1>3
<1> HIDE DEF Both
<1>6. QED
  BY <1>1, <1>4, <1>5, UnionKeys

\* WAL archives alike have the same label sets.
LEMMA AlikeWAL ==
  ASSUME NEW st, NEW su, NEW j \in DOMAIN st.archive, Alike(st, su)
  PROVE  Keys(WALSeries(st, st.archive[j])) = Keys(WALSeries(su, su.archive[j]))
<1> DEFINE complete(a) == a.min # "" /\ a.max # ""
           Show(a, bound) == IF complete(a) /\ flags.verboseWAL THEN bound ELSE ""
           Values(x, a) == <<Itoa(a.id), getPGVersion(a.id, a.repo, x.db), Itoa(a.repo), x.name,
                             Show(a, a.max), Show(a, a.min)>>
<1>1. \A x, a : WALSeries(x, a) =
                  Series(<<"wal", "archive_status">>, Values(x, a), convertBool(complete(a)))
  BY DEF WALSeries
<1>2. Values(st, st.archive[j]) = Values(su, su.archive[j])
  <2>1. CASE flags.verboseWAL
    BY <2>1 DEF Alike
  <2>2. CASE ~flags.verboseWAL
    BY <2>2 DEF Alike
  <2>3. QED
    BY <2>1, <2>2
<1> HIDE DEF Values, complete
<1>3. QED
  BY <1>1, <1>2, OneSeries

\* Backups alike have the same label sets.
LEMMA AlikeBackup ==
  ASSUME NEW st, NEW su, NEW b \in Backup, NEW c \in Backup,
         st.name = su.name, st.db = su.db, SameBackup(b, c)
  PROVE  Covered(BackupSeries(st, b), BackupSeries(su, c))
<1> DEFINE InfoOf(x, y) == Series(<<"backup", "info">>,
         <<y.backrest, y.label, y.type, checkBackupIncremental(y), Itoa(y.id),
           convertEmptyLSNValueLabel(y.lsn[1]), convertEmptyLSNValueLabel(y.lsn[2]),
           getPGVersion(y.id, y.repo, x.db), y.prior, Itoa(y.repo), x.name,
           y.wal[1], y.wal[2]>>, 1)
           DurationOf(x, y) == Series(<<"backup", "duration_seconds">>,
              LabelsOf(x, y) \o <<Itoa(y.start), Itoa(y.stop)>>, y.stop - y.start)
           SizedOf(x, y) == SetSizes("backup", LabelsOf(x, y), y)
           RefsOf(x, y) == IF flags.backupRefCount THEN References("backup", LabelsOf(x, y), y) ELSE {}
<1>1. \A x, y : BackupSeries(x, y) = InfoOf(x, y) \cup DurationOf(x, y) \cup SizedOf(x, y) \cup RefsOf(x, y)
  BY DEF BackupSeries
<1>2. LabelsOf(st, b) = LabelsOf(su, c)
  BY DEF LabelsOf, SameBackup
<1>3. InfoOf(st, b) = InfoOf(su, c)
  BY DEF SameBackup
<1>4. DurationOf(st, b) = DurationOf(su, c)
  BY <1>2 DEF SameBackup
<1>5. Covered(SizedOf(st, b), SizedOf(su, c))
  BY <1>2, SizesKeys DEF Covered
<1>6. Covered(RefsOf(st, b), RefsOf(su, c))
  <2>1. CASE flags.backupRefCount
    BY <1>2, <2>1, ReferencesKeys DEF Covered
  <2>2. CASE ~flags.backupRefCount
    BY <2>2 DEF Covered
  <2>3. QED
    BY <2>1, <2>2
<1> HIDE DEF InfoOf, DurationOf, SizedOf, RefsOf
<1> DEFINE Two(x, y) == InfoOf(x, y) \cup DurationOf(x, y)
           Three(x, y) == Two(x, y) \cup SizedOf(x, y)
<1>7. Covered(Two(st, b), Two(su, c))
  BY <1>3, <1>4 DEF Covered
<1>8. \A x, y : BackupSeries(x, y) = Three(x, y) \cup RefsOf(x, y)
  BY <1>1
<1> HIDE DEF Two
<1>9. Covered(Three(st, b), Three(su, c))
  BY <1>5, <1>7, UnionKeys
<1> HIDE DEF Three
<1>10. QED
  BY <1>6, <1>8, <1>9, UnionKeys

\* Last backups alike have the same label sets.
LEMMA AlikeLast ==
  ASSUME NEW st, NEW su, NEW slot, NEW other, NEW b \in Backup, NEW c \in Backup,
         st.name = su.name, SameBackup(b, c),
         slot.type = other.type, slot.backup = b, other.backup = c
  PROVE  Covered(LastSeriesOf(st, slot), LastSeriesOf(su, other))
<1> DEFINE labels == <<slot.type, checkBackupIncremental(b), st.name>>
           DurationOf(y) == Series(<<"last", "duration_seconds">>, labels, y.stop - y.start)
           SinceOf(y) == Series(<<"last", "since_completion_seconds">>, labels, Clock - y.stop)
           SizedOf(y) == SetSizes("last", labels, y)
           RefsOf(y) == References("last", labels, y)
<1>1. LastSeriesOf(st, slot) = SizedOf(b) \cup DurationOf(b) \cup SinceOf(b) \cup RefsOf(b)
  BY DEF LastSeriesOf
<1>2. LastSeriesOf(su, other) = SizedOf(c) \cup DurationOf(c) \cup SinceOf(c) \cup RefsOf(c)
  BY DEF LastSeriesOf, SameBackup
<1>3. /\ Covered(SizedOf(b), SizedOf(c)) /\ Covered(RefsOf(b), RefsOf(c))
      /\ Covered(DurationOf(b), DurationOf(c)) /\ Covered(SinceOf(b), SinceOf(c))
  BY SizesKeys, ReferencesKeys, OneSeries DEF Covered
<1> HIDE DEF labels, DurationOf, SinceOf, SizedOf, RefsOf
<1> DEFINE Two(y) == SizedOf(y) \cup DurationOf(y)
           Three(y) == Two(y) \cup SinceOf(y)
<1>4. Covered(Two(b), Two(c))
  BY <1>3, UnionKeys
<1>5. LastSeriesOf(st, slot) = Three(b) \cup RefsOf(b) /\ LastSeriesOf(su, other) = Three(c) \cup RefsOf(c)
  BY <1>1, <1>2
<1> HIDE DEF Two
<1>6. Covered(Three(b), Three(c))
  BY <1>3, <1>4, UnionKeys
<1> HIDE DEF Three
<1>7. QED
  BY <1>3, <1>5, <1>6, UnionKeys

\* The slots hold the same places of the list.
LEMMA AlikeSlots ==
  ASSUME NEW st, NEW su, Alike(st, su)
  PROVE  Rule(st.backup)!Selected = Rule(su.backup)!Selected
<1>1. /\ DOMAIN st.backup = DOMAIN su.backup
      /\ \A j \in DOMAIN st.backup : /\ st.backup[j].type = su.backup[j].type
                                      /\ st.backup[j].stop = su.backup[j].stop
  BY DEF Alike, SameBackup
<1>2. \A type : Rule(st.backup)!LastOf(type) = Rule(su.backup)!LastOf(type)
  BY <1>1 DEF Rule!LastOf
<1>3. \A X, Y : X \subseteq DOMAIN st.backup /\ Y \subseteq DOMAIN st.backup =>
        /\ Rule(st.backup)!Later(X, Y) = Rule(su.backup)!Later(X, Y)
        /\ Rule(st.backup)!Later(X, Y) \subseteq DOMAIN st.backup
  BY <1>1 DEF Rule!Later
<1>4. \A type : Rule(st.backup)!LastOf(type) \subseteq DOMAIN st.backup
  BY DEF Rule!LastOf
<1>5. QED
  BY <1>2, <1>3, <1>4 DEF Rule!Selected

\* Stanzas alike have the same label sets, list by list.
LEMMA AlikeEntry ==
  ASSUME NEW r \in Replies, NEW q \in Replies, NEW i \in DOMAIN r, i \in DOMAIN q,
         Alike(r[i], q[i]), NEW p \in Phase, NEW j \in DOMAIN Lists(r[i])[p],
         NEW key, Entry(r[i], p, j, key)
  PROVE  \E k \in DOMAIN Lists(q[i])[p] : Entry(q[i], p, k, key)
<1> DEFINE st == r[i]
           su == q[i]
<1>0. /\ st \in Stanza /\ su \in Stanza
  BY RepliesAssumption
<1>1. /\ st.name = su.name /\ st.db = su.db
      /\ DOMAIN st.backup = DOMAIN su.backup
      /\ \A k \in DOMAIN st.backup : /\ SameBackup(st.backup[k], su.backup[k])
                                      /\ st.backup[k] \in Backup /\ su.backup[k] \in Backup
  BY <1>0, StanzaFields DEF Alike
<1>2. PICK new : Shows(st, p, j, new) /\ key \in Keys(new)
  BY DEF Entry
<1>3. ASSUME NEW other, NEW k \in DOMAIN Lists(su)[p], Shows(su, p, k, other),
             Covered(new, other)
      PROVE  \E n \in DOMAIN Lists(su)[p] : Entry(su, p, n, key)
  BY <1>2, <1>3 DEF Entry, Covered
<1>4. CASE p = "stanza"
  <2>1. new = StanzaSeries(st) /\ Shows(su, p, j, StanzaSeries(su))
    BY <1>2, <1>4 DEF Shows
  <2>2. j \in DOMAIN Lists(su)[p]
    BY <1>4 DEF Lists
  <2>3. QED
    BY <1>1, <1>3, <2>1, <2>2, AlikeStanza
<1>5. CASE p = "repo"
  <2>1. new = RepoSeries(st, Repos(st)[j]) /\ j \in DOMAIN Repos(st)
    BY <1>2, <1>5 DEF Shows, Lists
  <2>2. PICK k \in DOMAIN Repos(su) : /\ Repos(st)[j].cipher = Repos(su)[k].cipher
                                      /\ Repos(st)[j].key = Repos(su)[k].key
    BY <2>1 DEF Alike
  <2>3. k \in DOMAIN Lists(su)[p] /\ Shows(su, p, k, RepoSeries(su, Repos(su)[k]))
    BY <1>5 DEF Shows, Lists
  <2>4. Covered(new, RepoSeries(su, Repos(su)[k]))
    BY <1>1, <2>1, <2>2, OneSeries DEF RepoSeries, Covered
  <2>5. QED
    BY <1>3, <2>3, <2>4
<1>6. CASE p = "wal"
  <2>1. new = WALSeries(st, st.archive[j]) /\ j \in DOMAIN st.archive
    BY <1>2, <1>6 DEF Shows, Lists
  <2>2. j \in DOMAIN Lists(su)[p] /\ Shows(su, p, j, WALSeries(su, su.archive[j]))
    BY <1>6, <2>1 DEF Shows, Lists, Alike
  <2>3. Covered(new, WALSeries(su, su.archive[j]))
    BY <2>1, AlikeWAL DEF Covered
  <2>4. QED
    BY <1>3, <2>2, <2>3
<1>7. CASE p = "backup"
  <2>1. new = BackupSeries(st, st.backup[j]) /\ j \in DOMAIN st.backup
    BY <1>2, <1>7 DEF Shows, Lists
  <2>2. j \in DOMAIN Lists(su)[p] /\ Shows(su, p, j, BackupSeries(su, su.backup[j]))
    BY <1>1, <1>7, <2>1 DEF Shows, Lists
  <2>3. Covered(new, BackupSeries(su, su.backup[j]))
    BY <1>1, <2>1, AlikeBackup
  <2>4. QED
    BY <1>3, <2>2, <2>3
<1>8. CASE p = "last"
  <2>1. new = LastSeriesOf(st, Slots(st)[j]) /\ j \in DOMAIN Slots(st)
    BY <1>2, <1>8 DEF Shows, Lists
  <2>2. Rule(st.backup)!Selected = Rule(su.backup)!Selected
    BY AlikeSlots
  <2> DEFINE Position == Rule(st.backup)!Selected
             Place0(type) == CHOOSE k \in Position[type] : TRUE
             SlotOf(x, type) == [type |-> type, backup |-> x.backup[Place0(type)]]
             Filled(x) == <<SlotOf(x, "full"), SlotOf(x, "diff"), SlotOf(x, "incr")>>
  <2>3. /\ Slots(st) = IF Position["full"] = {} THEN << >> ELSE Filled(st)
        /\ Slots(su) = IF Position["full"] = {} THEN << >> ELSE Filled(su)
    BY <2>2 DEF Slots
  <2> HIDE DEF Position, Place0, Filled
  <2>4. Position["full"] # {}
    BY <2>1, <2>3
  <2>5. PICK type \in {"full", "diff", "incr"} : /\ Slots(st)[j] = SlotOf(st, type)
                                                 /\ Slots(su)[j] = SlotOf(su, type)
                                                 /\ j \in DOMAIN Slots(su)
    <3>1. j \in 1..3
      BY <2>1, <2>3, <2>4 DEF Filled
    <3>2. QED
      BY <2>3, <2>4, <3>1 DEF Filled
  <2>6. PICK n \in DOMAIN st.backup : Slots(st)[j].backup = st.backup[n]
    BY <1>0, <2>1, SlotsFilled
  <2>7. PICK m \in DOMAIN su.backup : Slots(su)[j].backup = su.backup[m]
    BY <1>0, <2>5, SlotsFilled
  <2>8. Slots(st)[j].type = Slots(su)[j].type
    BY <2>5
  <2>9. SameBackup(Slots(st)[j].backup, Slots(su)[j].backup)
    <3>1. Place0(type) \in DOMAIN st.backup
      BY <1>0, <2>4, SelectedType DEF Position, Place0
    <3>2. Slots(st)[j].backup = st.backup[Place0(type)] /\ Slots(su)[j].backup = su.backup[Place0(type)]
      BY <2>5
    <3>3. QED
      BY <1>1, <3>1, <3>2
  <2>10. Covered(new, LastSeriesOf(su, Slots(su)[j]))
    BY <1>1, <2>1, <2>6, <2>7, <2>8, <2>9, AlikeLast
  <2>11. j \in DOMAIN Lists(su)[p] /\ Shows(su, p, j, LastSeriesOf(su, Slots(su)[j]))
    BY <1>8, <2>5 DEF Shows, Lists
  <2>12. QED
    BY <1>3, <2>10, <2>11
<1>9. CASE p = "databases"
  <2>1. PICK value \in Nat : new = processSpecificBackupData(st, st.backup[j], value)
    BY <1>2, <1>9 DEF Shows
  <2>2. j \in DOMAIN st.backup /\ j \in DOMAIN Lists(su)[p]
    BY <1>1, <1>9 DEF Lists
  <2>3. Shows(su, p, j, processSpecificBackupData(su, su.backup[j], value))
    BY <1>9 DEF Shows
  <2>4. new = processSpecificBackupData(su, su.backup[j], value)
    BY <1>1, <2>1, <2>2 DEF processSpecificBackupData, SameBackup
  <2>5. QED
    BY <1>3, <2>2, <2>3, <2>4 DEF Covered
<1>10. QED
  BY <1>4, <1>5, <1>6, <1>7, <1>8, <1>9 DEF Phase

\* Replies of one shape give the same label sets.
LEMMA SameShapeSameKeys ==
  ASSUME NEW r \in Replies, NEW q \in Replies, Shape(r) = Shape(q)
  PROVE  \A key : OfReply(r, key) <=> OfReply(q, key)
<1>1. ASSUME NEW x \in Replies, NEW y \in Replies, Shape(x) = Shape(y), NEW key, OfReply(x, key)
      PROVE  OfReply(y, key)
  <2>1. DOMAIN x = DOMAIN y /\ \A i \in DOMAIN x : Alike(x[i], y[i])
    BY <1>1, SameShape
  <2>2. CASE key \in VersionKeys
    BY <2>2 DEF OfReply
  <2>3. CASE key \notin VersionKeys
    <3>1. PICK i \in DOMAIN x, p \in Phase : \E j \in DOMAIN Lists(x[i])[p] : Entry(x[i], p, j, key)
      BY <1>1, <2>3 DEF OfReply
    <3>2. PICK j \in DOMAIN Lists(x[i])[p] : Entry(x[i], p, j, key)
      BY <3>1
    <3>3. \E k \in DOMAIN Lists(y[i])[p] : Entry(y[i], p, k, key)
      BY <2>1, <3>2, AlikeEntry
    <3>4. QED
      BY <2>1, <3>3 DEF OfReply
  <2>4. QED
    BY <2>2, <2>3
<1>2. QED
  BY <1>1

\* Every step keeps the label sets remembered from the last cycle those of its reply.
LEMMA BeforeWholeStep ==
  ASSUME Place, Exact, BeforeWhole, before.reply = << >> \/ before.reply \in Replies, [Next]_vars
  PROVE  BeforeWhole' /\ (before.reply = << >> \/ before.reply \in Replies)'
<1>1. CASE Info
  <2>1. /\ before' = [reply |-> reply, labels |-> LabelSets] /\ flags' = flags /\ pc = "info"
    BY <1>1 DEF Info
  <2>2. before'.reply = reply /\ before'.labels = Keys(series)
    BY <2>1 DEF LabelSets, Keys
  <2>3. \A key : key \in Keys(series) <=> OfReply(reply, key)
    BY <2>1, WholeReply
  <2>4. \A st : Lists(st)' = Lists(st)
    BY <2>1, SameFlags
  <2>5. \A st, p, j, key : Entry(st, p, j, key)' <=> Entry(st, p, j, key)
    BY <2>1, SameFlags
  <2>6. \A key : key \in before'.labels <=> OfReply(before.reply, key)'
    BY <2>2, <2>3, <2>4, <2>5 DEF OfReply
  <2>7. QED
    BY <2>2, <2>6 DEF BeforeWhole, Place
<1>2. CASE UNCHANGED <<before, flags>>
  BY <1>2, SameFlags DEF BeforeWhole, OfReply
<1>3. QED
  BY <1>1, <1>2, PublicationSteps DEF Next, Done, vars, Quiet, Sleep, Wake, ElementPublished,
     ListDone, getBackrestVersionMetrics

\* Between two cycles whose replies have the same shape no series comes or goes.
THEOREM NothingFlaps == Spec => []NoFlapping
<1> DEFINE BeforeType == before.reply = << >> \/ before.reply \in Replies
<1>1. Init => Exact /\ BeforeWhole /\ BeforeType
  <2> SUFFICES ASSUME Init PROVE Exact /\ BeforeWhole /\ BeforeType
    OBVIOUS
  <2>1. pc = "version" /\ reply = << >> /\ series = {} /\ before = NoReply
    BY DEF Init
  <2>2. DOMAIN reply = {} /\ before.reply = << >>
    BY <2>1 DEF NoReply
  <2>3. \A key : key \notin Keys(series)
    BY <2>1 DEF Keys
  <2>4. QED
    BY <2>1, <2>2, <2>3 DEF Exact, BeforeWhole
<1>2. Place /\ Exact /\ BeforeWhole /\ BeforeType /\ [Next]_vars
        => Place' /\ Exact' /\ BeforeWhole' /\ BeforeType'
  BY PlaceStep, ExactStep, BeforeWholeStep
<1>3. Place /\ Exact /\ BeforeWhole /\ BeforeType => NoFlapping
  <2> SUFFICES ASSUME Place, Exact, BeforeWhole, BeforeType,
                      pc = "sleep", reply # << >>, before.reply # << >>,
                      Shape(reply) = Shape(before.reply)
               PROVE  LabelSets = before.labels
    BY DEF NoFlapping
  <2>1. reply \in Replies /\ before.reply \in Replies
    BY DEF Place
  <2>2. \A key : key \in Keys(series) <=> OfReply(reply, key)
    BY WholeReply
  <2>3. before # NoReply
    BY DEF NoReply
  <2>4. \A key : key \in before.labels <=> OfReply(before.reply, key)
    BY <2>3 DEF BeforeWhole
  <2>5. \A key : OfReply(reply, key) <=> OfReply(before.reply, key)
    BY <2>1, SameShapeSameKeys
  <2>6. \A key : key \in Keys(series) <=> key \in before.labels
    BY <2>2, <2>4, <2>5
  <2>7. QED
    BY <2>6 DEF LabelSets, Keys
<1>4. QED
  BY <1>1, <1>2, <1>3, PlaceInit, PTL DEF Spec
===============================================================================
