------------------------- MODULE StanzaLabels_proofs --------------------------
(***************************************************************************)
(* The labels of those series: each says under its own name what the entry   *)
(* of the reply has there, and each archive, repository and backup of the    *)
(* reply has a series of its own that can be joined with the others of the   *)
(* same backup.                                                              *)
(***************************************************************************)
EXTENDS StanzaMetrics_proofs, WellFoundedInduction, FunctionTheorems

-----------------------------------------------------------------------------
\* Numbers are told apart by their decimal digits.
ItoaInjective == \A m, n \in Nat : Itoa(m) = Itoa(n) => m = n

\* The first place of a non-empty set of places.
LEMMA FirstPlace ==
  ASSUME NEW T, T \subseteq Nat, T # {}
  PROVE  /\ \E i \in T : \A j \in T : i <= j
         /\ (CHOOSE i \in T : \A j \in T : i <= j) \in T
<1>1. PICK i \in T : \A j \in T : ~(<<j, i>> \in OpToRel(<, Nat))
  BY NatLessThanWellFounded, WFMin
<1>2. ASSUME NEW j \in T PROVE i <= j
  <2>1. <<j, i>> \notin OpToRel(<, Nat)
    BY <1>1
  <2>2. ~(j < i)
    BY <2>1 DEF OpToRel
  <2>3. QED
    BY <2>2
<1>3. QED
  BY <1>2

\* The label value under a name that is declared once.
LEMMA LabelValue ==
  ASSUME NEW vector, NEW values, NEW value, NEW s \in Series(vector, values, value),
         NEW k \in DOMAIN Declared[vector[1]][vector[2]],
         \A i \in DOMAIN Declared[vector[1]][vector[2]] :
           Declared[vector[1]][vector[2]][i] = Declared[vector[1]][vector[2]][k] => i = k
  PROVE  s.labels[Declared[vector[1]][vector[2]][k]] = values[k]
<1> DEFINE names == Declared[vector[1]][vector[2]]
           labels == [n \in LabelNames(vector) |->
                        values[CHOOSE i \in DOMAIN names : names[i] = n]]
           one == [vector |-> vector, value |-> value, labels |-> labels]
<1>1. Series(vector, values, value) = IF Len(values) # Len(names) THEN {} ELSE {one}
  BY DEF Series
<1>2. one.labels = labels
  OBVIOUS
<1>3. /\ k \in DOMAIN names /\ \A i \in DOMAIN names : names[i] = names[k] => i = k
      /\ names[k] \in LabelNames(vector)
  BY DEF LabelNames
<1> HIDE DEF one, names
<1>4. s = one
  BY <1>1
<1>5. labels[names[k]] = values[CHOOSE i \in DOMAIN names : names[i] = names[k]]
  BY <1>3
<1>6. (CHOOSE i \in DOMAIN names : names[i] = names[k]) = k
  BY <1>3
<1>7. QED
  BY <1>2, <1>4, <1>5, <1>6 DEF names

\* What the two vectors that show a version are labelled with.
LEMMA WALLabels ==
  ASSUME NEW st, NEW a, NEW s \in WALSeries(st, a)
  PROVE  /\ s.vector = <<"wal", "archive_status">>
         /\ s.labels["database_id"] = Itoa(a.id)
         /\ s.labels["pg_version"] = getPGVersion(a.id, a.repo, st.db)
         /\ s.labels["repo_key"] = Itoa(a.repo) /\ s.labels["stanza"] = st.name
         /\ <<s.labels["wal_min"], s.labels["wal_max"]>> \in {<<"", "">>, <<a.min, a.max>>}
<1> DEFINE complete == a.min # "" /\ a.max # ""
           Show(bound) == IF complete /\ flags.verboseWAL THEN bound ELSE ""
           values == <<Itoa(a.id), getPGVersion(a.id, a.repo, st.db), Itoa(a.repo), st.name,
                       Show(a.max), Show(a.min)>>
           vector == <<"wal", "archive_status">>
<1>1. s \in Series(vector, values, convertBool(complete))
  BY DEF WALSeries
<1>2. Declared[vector[1]][vector[2]]
        = <<"database_id", "pg_version", "repo_key", "stanza", "wal_max", "wal_min">>
  BY DEF Declared, WALVectors
<1>3. /\ values[1] = Itoa(a.id) /\ values[2] = getPGVersion(a.id, a.repo, st.db)
      /\ values[3] = Itoa(a.repo) /\ values[4] = st.name
      /\ <<values[6], values[5]>> \in {<<"", "">>, <<a.min, a.max>>}
  OBVIOUS
<1> DEFINE names == <<"database_id", "pg_version", "repo_key", "stanza", "wal_max", "wal_min">>
<1>4. \A k \in 1..6 : /\ k \in DOMAIN names
                      /\ \A i \in DOMAIN names : names[i] = names[k] => i = k
  OBVIOUS
<1>5. names[1] = "database_id" /\ names[2] = "pg_version" /\ names[3] = "repo_key"
      /\ names[4] = "stanza" /\ names[5] = "wal_max" /\ names[6] = "wal_min"
  OBVIOUS
<1> HIDE DEF values, vector, names, complete
<1>6. s.vector = vector
  BY <1>1, OneSeries
<1>7. \A k \in 1..6 : s.labels[names[k]] = values[k]
  BY <1>1, <1>2, <1>4, LabelValue DEF names
<1>8. /\ s.labels[names[1]] = values[1] /\ s.labels[names[2]] = values[2]
      /\ s.labels[names[3]] = values[3] /\ s.labels[names[4]] = values[4]
      /\ s.labels[names[5]] = values[5] /\ s.labels[names[6]] = values[6]
  BY <1>7
<1>9. QED
  BY <1>3, <1>5, <1>6, <1>8 DEF vector

\* The label values of backup_info, by name.
LEMMA InfoLabels ==
  ASSUME NEW st, NEW b \in Backup, b.start <= b.stop, NEW s \in BackupSeries(st, b),
         s.vector = <<"backup", "info">>
  PROVE  /\ s.labels["database_id"] = Itoa(b.id)
         /\ s.labels["pg_version"] = getPGVersion(b.id, b.repo, st.db)
         /\ s.labels["repo_key"] = Itoa(b.repo) /\ s.labels["stanza"] = st.name
         /\ s.labels["backup_name"] = b.label /\ s.labels["backup_type"] = b.type
         /\ s.labels["block_incr"] = checkBackupIncremental(b)
         /\ s.labels["backrest_ver"] = b.backrest /\ s.labels["prior"] = b.prior
         /\ s.labels["lsn_start"] = convertEmptyLSNValueLabel(b.lsn[1])
         /\ s.labels["lsn_stop"] = convertEmptyLSNValueLabel(b.lsn[2])
         /\ s.labels["wal_start"] = b.wal[1] /\ s.labels["wal_stop"] = b.wal[2]
<1> DEFINE vector == <<"backup", "info">>
           values == <<b.backrest, b.label, b.type, checkBackupIncremental(b), Itoa(b.id),
              convertEmptyLSNValueLabel(b.lsn[1]), convertEmptyLSNValueLabel(b.lsn[2]),
              getPGVersion(b.id, b.repo, st.db), b.prior, Itoa(b.repo), st.name,
              b.wal[1], b.wal[2]>>
           names == <<"backrest_ver", "backup_name", "backup_type", "block_incr", "database_id",
                      "lsn_start", "lsn_stop", "pg_version", "prior", "repo_key", "stanza",
                      "wal_start", "wal_stop">>
           Duration == Series(<<"backup", "duration_seconds">>,
              LabelsOf(st, b) \o <<Itoa(b.start), Itoa(b.stop)>>, b.stop - b.start)
           Sized == SetSizes("backup", LabelsOf(st, b), b)
           Refs == IF flags.backupRefCount THEN References("backup", LabelsOf(st, b), b) ELSE {}
<1>1. s \in Series(vector, values, 1) \cup Duration \cup Sized \cup Refs
  BY DEF BackupSeries
<1>2. /\ \A t \in Duration : t.vector = <<"backup", "duration_seconds">>
      /\ \A t \in Sized : \E v \in Sizes : t.vector = <<"backup", v>>
      /\ \A t \in Refs : t.vector = <<"backup", "references">>
  BY OneSeries, SizesStored
<1>3. Declared[vector[1]][vector[2]] = names
  <2>1. Declared["backup"]["info"] = names
    BY DEF Declared, BackupVectors, Sizes
  <2>2. QED
    BY <2>1
<1>4. /\ values[2] = b.label /\ values[3] = b.type /\ values[4] = checkBackupIncremental(b)
      /\ values[5] = Itoa(b.id) /\ values[8] = getPGVersion(b.id, b.repo, st.db)
      /\ values[10] = Itoa(b.repo) /\ values[11] = st.name
      /\ values[1] = b.backrest /\ values[9] = b.prior
      /\ values[6] = convertEmptyLSNValueLabel(b.lsn[1])
      /\ values[7] = convertEmptyLSNValueLabel(b.lsn[2])
      /\ values[12] = b.wal[1] /\ values[13] = b.wal[2]
  OBVIOUS
<1>5. /\ names[2] = "backup_name" /\ names[3] = "backup_type" /\ names[4] = "block_incr"
      /\ names[5] = "database_id" /\ names[8] = "pg_version" /\ names[10] = "repo_key"
      /\ names[11] = "stanza" /\ names[1] = "backrest_ver" /\ names[6] = "lsn_start"
      /\ names[7] = "lsn_stop" /\ names[9] = "prior" /\ names[12] = "wal_start"
      /\ names[13] = "wal_stop"
  OBVIOUS
<1>6. \A k \in 1..13 :
        k \in DOMAIN names /\ \A i \in DOMAIN names : names[i] = names[k] => i = k
  OBVIOUS
<1>7. \A v : <<"backup", v>>[2] = v
  OBVIOUS
<1>8. "info" \notin Sizes
  BY DEF Sizes
<1> HIDE DEF values, Duration, Sized, Refs
<1>9. s \in Series(vector, values, 1)
  BY <1>1, <1>2, <1>7, <1>8
<1> HIDE DEF names, vector
<1>10. \A k \in 1..13 : s.labels[names[k]] = values[k]
  BY <1>3, <1>6, <1>9, LabelValue
<1>11. /\ s.labels[names[1]] = values[1] /\ s.labels[names[2]] = values[2]
       /\ s.labels[names[3]] = values[3] /\ s.labels[names[4]] = values[4]
       /\ s.labels[names[5]] = values[5] /\ s.labels[names[6]] = values[6]
       /\ s.labels[names[7]] = values[7] /\ s.labels[names[8]] = values[8]
       /\ s.labels[names[9]] = values[9] /\ s.labels[names[10]] = values[10]
       /\ s.labels[names[11]] = values[11] /\ s.labels[names[12]] = values[12]
       /\ s.labels[names[13]] = values[13]
  BY <1>10
<1>12. QED
  BY <1>4, <1>5, <1>11

-----------------------------------------------------------------------------
\* Each vector is one phase's.
LEMMA PhaseOf ==
  ASSUME NEW p \in Phase
  PROVE  /\ <<"wal", "archive_status">> \in Vectors[p] => p = "wal"
         /\ <<"repo", "status">> \in Vectors[p] => p = "repo"
         /\ \A v \in Sizes \cup {"info", "duration_seconds"} :
              <<"backup", v>> \in Vectors[p] => p = "backup"
         /\ <<"backup", "databases">> \in Vectors[p] => p = "databases"
<1>0. \A x, y : <<x, y>>[1] = x /\ <<x, y>>[2] = y
  OBVIOUS
<1>1. \A X, Y : \A v \in X \X Y : v[1] \in X /\ v[2] \in Y
  OBVIOUS
<1>2. CASE p = "stanza"
  <2>1. \A v \in Vectors["stanza"] : v[1] \in {"stanza", "stanza_backup", "stanza_restore"}
    BY <1>0, <1>1 DEF Vectors
  <2>2. QED
    BY <1>0, <1>2, <2>1
<1>3. CASE p = "repo"
  <2>1. \A v \in Vectors["repo"] : v[1] = "repo"
    BY <1>0 DEF Vectors
  <2>2. QED
    BY <1>0, <1>3, <2>1
<1>4. CASE p = "wal"
  <2>1. \A v \in Vectors["wal"] : v[1] = "wal"
    BY <1>0 DEF Vectors
  <2>2. QED
    BY <1>0, <1>4, <2>1
<1>5. CASE p = "backup"
  <2>1. \A v \in Vectors["backup"] : v[1] = "backup" /\ v[2] # "databases"
    BY <1>1 DEF Vectors, Sizes
  <2>2. QED
    BY <1>0, <1>5, <2>1
<1>6. CASE p = "last"
  <2>1. \A v \in Vectors["last"] : v[1] = "last"
    BY <1>1 DEF Vectors
  <2>2. QED
    BY <1>0, <1>6, <2>1
<1>7. CASE p = "databases"
  <2>1. \A v \in Vectors["databases"] : v[1] = "backup" /\ v[2] = "databases"
    BY <1>0 DEF Vectors
  <2>2. \A v \in Sizes \cup {"info", "duration_seconds"} : v # "databases"
    BY DEF Sizes
  <2>3. QED
    BY <1>0, <1>7, <2>1, <2>2
<1>8. QED
  BY <1>2, <1>3, <1>4, <1>5, <1>6, <1>7 DEF Phase

\* Every series of the reply was stored for an entry of one of its lists.
LEMMA StoredFor ==
  ASSUME Place, Exact, NEW s \in series, s.vector # <<"version", "info">>
  PROVE  \E i \in DOMAIN reply : \E p \in Phase : \E j \in DOMAIN Lists(reply[i])[p] :
           /\ s.vector \in Vectors[p]
           /\ \E new : /\ Shows(reply[i], p, j, new)
                       /\ \E t \in new : t.vector = s.vector /\ t.labels = s.labels
<1> DEFINE key == <<s.vector, s.labels>>
<1>1. key \in Keys(series) /\ key[1] = s.vector
  BY DEF Keys
<1>2. \A k \in VersionKeys : k[1] = <<"version", "info">>
  BY OneSeries DEF VersionKeys, Keys
<1>3. key \notin VersionKeys
  BY <1>1, <1>2
<1>4. PICK i \in DOMAIN reply, p \in Phase :
        \E j \in DOMAIN Lists(reply[i])[p] : Entry(reply[i], p, j, key)
  BY <1>1, <1>3 DEF Exact
<1>5. PICK j \in DOMAIN Lists(reply[i])[p] : Entry(reply[i], p, j, key)
  BY <1>4
<1>6. reply \in Replies
  BY <1>4, ReplyType DEF Place
<1>7. s.vector \in Vectors[p]
  BY <1>1, <1>5, <1>6, VersionApart
<1>8. PICK new : Shows(reply[i], p, j, new) /\ key \in Keys(new)
  BY <1>5 DEF Entry
<1>9. PICK t \in new : key = <<t.vector, t.labels>>
  BY <1>8, KeysIn
<1>10. t.vector = s.vector /\ t.labels = s.labels
  BY <1>9
<1>11. QED
  BY <1>5, <1>7, <1>8, <1>10

-----------------------------------------------------------------------------
\* The version found for a database id is that of the database.
LEMMA VersionSaid ==
  ASSUME NEW st \in Stanza, NEW id, NEW repo, NEW s,
         s.labels["pg_version"] = getPGVersion(id, repo, st.db)
  PROVE  SaysVersion(s, st, id, repo)
<1> DEFINE found == {j \in DOMAIN st.db : st.db[j].id = id /\ st.db[j].repo = repo}
           first == CHOOSE i \in found : \A j \in found : i <= j
<1>1. found \subseteq Nat
  BY StanzaFields
<1>2. getPGVersion(id, repo, st.db) = IF found = {} THEN "" ELSE st.db[first].version
  BY DEF getPGVersion
<1>3. SaysVersion(s, st, id, repo)
        <=> IF found = {} THEN s.labels["pg_version"] = ""
            ELSE \E j \in found : s.labels["pg_version"] = st.db[j].version
  BY DEF SaysVersion
<1>4. found # {} => first \in found
  BY <1>1, FirstPlace
<1> HIDE DEF found, first
<1>5. QED
  BY <1>2, <1>3, <1>4

-----------------------------------------------------------------------------
\* References apart, a label set has one value.
OneValue ==
  \A s, t \in series :
    s.vector = t.vector /\ s.vector[2] # "references" /\ s.labels = t.labels => s = t

\* Publishing keeps one value per label set.
LEMMA PublishOneValue ==
  ASSUME OneValue, NEW new, OnePerVector(new), Publish(new)
  PROVE  OneValue'
<1>1. series' = {s \in series : \A t \in new : s.vector # t.vector \/ s.labels # t.labels}
                  \cup new
  BY DEF Publish
<1>2. ASSUME NEW s \in series', NEW t \in series', s.vector = t.vector,
             s.vector[2] # "references", s.labels = t.labels
      PROVE  s = t
  <2>1. CASE s \in new /\ t \in new
    BY <1>2, <2>1 DEF OnePerVector
  <2>2. CASE s \notin new /\ t \notin new
    BY <1>1, <1>2, <2>2 DEF OneValue
  <2>3. CASE s \in new /\ t \notin new
    BY <1>1, <1>2, <2>3
  <2>4. CASE s \notin new /\ t \in new
    BY <1>1, <1>2, <2>4
  <2>5. QED
    BY <2>1, <2>2, <2>3, <2>4
<1>3. QED
  BY <1>2 DEF OneValue

\* Every step keeps one value per label set.
LEMMA OneValueStep ==
  ASSUME Place, OneValue, [Next]_vars
  PROVE  OneValue'
<1>1. CASE series' \subseteq series
  BY <1>1 DEF OneValue
<1>2. CASE getBackrestVersionMetrics
  <2>1. PICK value : Publish(Series(<<"version", "info">>, << >>, value))
    BY <1>2 DEF getBackrestVersionMetrics
  <2>2. OnePerVector(Series(<<"version", "info">>, << >>, value))
    BY OneSeries DEF OnePerVector
  <2>3. QED
    BY <2>1, <2>2, PublishOneValue
<1>3. CASE ElementPublished
  <2>1. PICK new : Shows(S, pc, item, new) /\ Publish(new)
    BY <1>3 DEF ElementPublished
  <2>2. /\ reply \in Replies /\ at \in DOMAIN reply /\ S = reply[at]
        /\ pc \in Phase /\ item \in DOMAIN Lists(S)[pc]
    BY <1>3, Current DEF ElementPublished
  <2>3. OnePerVector(new)
    BY <2>1, <2>2, ShowsStored DEF Stored
  <2>4. QED
    BY <2>1, <2>3, PublishOneValue
<1>4. CASE Info \/ Wake
  BY <1>1, <1>4 DEF Info, Wake
<1>5. CASE UNCHANGED series
  BY <1>1, <1>5
<1>6. QED
  BY <1>2, <1>3, <1>4, <1>5, PublicationSteps DEF Next, Done, vars, Sleep, ListDone

-----------------------------------------------------------------------------
\* The pairs of a stanza and an element of its list for phase p.
Places(r, p) == UNION {{<<i, j>> : j \in DOMAIN Lists(r[i])[p]} : i \in DOMAIN r}

\* Membership in the places.
LEMMA InPlaces ==
  ASSUME NEW r, NEW p
  PROVE  /\ \A i \in DOMAIN r : \A j \in DOMAIN Lists(r[i])[p] : <<i, j>> \in Places(r, p)
         /\ \A e \in Places(r, p) : \E i \in DOMAIN r : \E j \in DOMAIN Lists(r[i])[p] : e = <<i, j>>
  BY DEF Places

\* There are finitely many places.
LEMMA PlacesFinite ==
  ASSUME NEW r \in Replies, NEW p \in Phase
  PROVE  IsFiniteSet(Places(r, p))
<1> DEFINE Row(i) == {<<i, j>> : j \in DOMAIN Lists(r[i])[p]}
           Rows == {Row(i) : i \in DOMAIN r}
<1>1. /\ r \in Seq(Stanza) /\ DOMAIN r = 1..Len(r) /\ Len(r) \in Nat
      /\ \A i \in DOMAIN r : r[i] \in Stanza
  BY RepliesAssumption
<1>2. ASSUME NEW i \in DOMAIN r PROVE IsFiniteSet(Row(i))
  <2> DEFINE n == Len(Lists(r[i])[p])
             f == [j \in 1..n |-> <<i, j>>]
  <2>1. n \in Nat /\ DOMAIN Lists(r[i])[p] = 1..n
    BY <1>1, ListsType
  <2>2. IsFiniteSet(1..n)
    BY <2>1, FS_Interval
  <2>3. Row(i) = {<<i, j>> : j \in 1..n}
    BY <2>1
  <2> HIDE DEF n
  <2>4. f \in [1..n -> Row(i)] /\ \A t \in Row(i) : \E j \in 1..n : f[j] = t
    BY <2>3
  <2>5. f \in Surjection(1..n, Row(i))
    BY <2>4, Fun_IsSurj
  <2>6. QED
    BY <2>2, <2>5, FS_Surjection
<1>3. IsFiniteSet(Rows)
  <2> DEFINE g == [i \in 1..Len(r) |-> Row(i)]
  <2>1. IsFiniteSet(1..Len(r))
    BY <1>1, FS_Interval
  <2>2. Rows = {Row(i) : i \in 1..Len(r)}
    BY <1>1
  <2> HIDE DEF Row
  <2>3. g \in [1..Len(r) -> Rows] /\ \A t \in Rows : \E i \in 1..Len(r) : g[i] = t
    BY <2>2
  <2> HIDE DEF Rows, g
  <2>4. g \in Surjection(1..Len(r), Rows)
    BY <2>3, Fun_IsSurj
  <2>5. QED
    BY <2>1, <2>4, FS_Surjection
<1>4. \A T \in Rows : IsFiniteSet(T)
  BY <1>2
<1>5. Places(r, p) = UNION Rows
  BY DEF Places
<1> HIDE DEF Rows
<1>6. QED
  BY <1>3, <1>4, <1>5, FS_UNION

\* As many as there are places, if there is one for each.
LEMMA SameCount ==
  ASSUME NEW E, IsFiniteSet(E), NEW O, NEW f \in [E -> O],
         \A a, b \in E : f[a] = f[b] => a = b,
         \A o \in O : \E e \in E : f[e] = o
  PROVE  Cardinality(O) = Cardinality(E)
<1>1. f \in Bijection(E, O)
  BY Fun_IsBij
<1>2. ExistsBijection(E, O)
  BY <1>1, Fun_ExistsBij
<1>3. QED
  BY <1>2, FS_Bijection

\* A series of phase p's vector v, beside what is stored for the j-th element.
Stands(i, p, j, v, s) ==
  /\ s.vector = v
  /\ \E new : Shows(reply[i], p, j, new) /\ \E t \in new : t.vector = v /\ t.labels = s.labels

\* Once everything is published there is one for every element that has one, and
\* one only.
LEMMA StandsThere ==
  ASSUME Place, Exact, at = Len(reply) + 1, NEW p \in Phase, NEW v,
         NEW i \in DOMAIN reply, NEW j \in DOMAIN Lists(reply[i])[p],
         \E new : Shows(reply[i], p, j, new) /\ \E t \in new : t.vector = v
  PROVE  \E s \in series : Stands(i, p, j, v, s)
<1>1. PICK new : Shows(reply[i], p, j, new) /\ \E t \in new : t.vector = v
  OBVIOUS
<1>2. PICK t \in new : t.vector = v
  BY <1>1
<1>3. <<t.vector, t.labels>> \in Keys(new)
  BY KeysIn
<1>4. Entry(reply[i], p, j, <<t.vector, t.labels>>) /\ Published(i, p, j)
  BY <1>1, <1>3, AllPublished DEF Entry
<1>5. <<t.vector, t.labels>> \in Keys(series)
  BY <1>4 DEF Exact
<1>6. PICK s \in series : <<t.vector, t.labels>> = <<s.vector, s.labels>>
  BY <1>5, KeysIn
<1>7. s.vector = v /\ s.labels = t.labels
  BY <1>2, <1>6
<1>8. QED
  BY <1>1, <1>2, <1>7 DEF Stands

\* An element stands for one series of a vector.
LEMMA StandsOnce ==
  ASSUME Place, OneValue, NEW p \in Phase, NEW v, v[2] # "references",
         NEW i \in DOMAIN reply, NEW j \in DOMAIN Lists(reply[i])[p],
         NEW s \in series, NEW t \in series, Stands(i, p, j, v, s), Stands(i, p, j, v, t)
  PROVE  s = t
<1>1. PICK a : Shows(reply[i], p, j, a) /\ \E x \in a : x.vector = v /\ x.labels = s.labels
  BY DEF Stands
<1>2. PICK b : Shows(reply[i], p, j, b) /\ \E x \in b : x.vector = v /\ x.labels = t.labels
  BY DEF Stands
<1>3. PICK x \in a : x.vector = v /\ x.labels = s.labels
  BY <1>1
<1>4. PICK y \in b : y.vector = v /\ y.labels = t.labels
  BY <1>2
<1>5. Keys(a) = Keys(b)
  BY <1>1, <1>2, SameKeys
<1>6. <<x.vector, x.labels>> \in Keys(b)
  BY <1>5, KeysIn
<1>7. PICK z \in b : <<x.vector, x.labels>> = <<z.vector, z.labels>>
  BY <1>6, KeysIn
<1>8. z.vector = v /\ z.labels = s.labels
  BY <1>3, <1>7
<1>9. reply \in Replies
  BY ReplyType DEF Place
<1>10. OnePerVector(b)
  BY <1>2, <1>9, ShowsStored DEF Stored
<1>11. s.labels = t.labels
  BY <1>4, <1>8, <1>10 DEF OnePerVector
<1>12. QED
  BY <1>11 DEF Stands, OneValue

\* A vector whose series tell the elements of a list apart has one series per element.
LEMMA Counted ==
  ASSUME Place, Exact, OneValue, at = Len(reply) + 1, pc # "version",
         NEW p \in Phase, NEW v, v # <<"version", "info">>, v[2] # "references",
         \A q \in Phase : v \in Vectors[q] => q = p,
         \A i \in DOMAIN reply : \A j \in DOMAIN Lists(reply[i])[p] :
           \E new : Shows(reply[i], p, j, new) /\ \E t \in new : t.vector = v,
         \A i, k \in DOMAIN reply : \A j \in DOMAIN Lists(reply[i])[p] :
           \A m \in DOMAIN Lists(reply[k])[p] : \A a, b :
             /\ Shows(reply[i], p, j, a) /\ Shows(reply[k], p, m, b)
             => \A s \in a : \A t \in b :
                  s.vector = v /\ t.vector = v /\ s.labels = t.labels => i = k /\ j = m
  PROVE  Cardinality(Of(v)) = Cardinality(Places(reply, p))
<1> DEFINE E == Places(reply, p)
           f == [e \in E |-> CHOOSE s \in series : Stands(e[1], p, e[2], v, s)]
<1>1. ASSUME NEW i \in DOMAIN reply, NEW j \in DOMAIN Lists(reply[i])[p]
      PROVE  \E s \in series : Stands(i, p, j, v, s)
  BY StandsThere
<1>2. ASSUME NEW i \in DOMAIN reply, NEW j \in DOMAIN Lists(reply[i])[p],
             NEW k \in DOMAIN reply, NEW m \in DOMAIN Lists(reply[k])[p],
             NEW s \in series, NEW t \in series, Stands(i, p, j, v, s), Stands(k, p, m, v, t)
      PROVE  s = t <=> i = k /\ j = m
  <2>1. PICK a : Shows(reply[i], p, j, a) /\ \E x \in a : x.vector = v /\ x.labels = s.labels
    BY <1>2 DEF Stands
  <2>2. PICK b : Shows(reply[k], p, m, b) /\ \E x \in b : x.vector = v /\ x.labels = t.labels
    BY <1>2 DEF Stands
  <2>3. s.labels = t.labels => i = k /\ j = m
    BY <2>1, <2>2
  <2>4. i = k /\ j = m => s = t
    BY <1>2, StandsOnce
  <2>5. QED
    BY <2>3, <2>4
<1>3. \A e \in E : \E i \in DOMAIN reply : \E j \in DOMAIN Lists(reply[i])[p] :
        e = <<i, j>> /\ e[1] = i /\ e[2] = j
  BY InPlaces
<1>4. ASSUME NEW e \in E PROVE f[e] \in series /\ Stands(e[1], p, e[2], v, f[e])
  <2>1. \E s \in series : Stands(e[1], p, e[2], v, s)
    BY <1>1, <1>3
  <2>2. QED
    BY <2>1
<1>5. f \in [E -> Of(v)]
  BY <1>4 DEF Of, Stands
<1>6. ASSUME NEW a \in E, NEW b \in E, f[a] = f[b] PROVE a = b
  BY <1>2, <1>3, <1>4, <1>6
<1>7. ASSUME NEW s \in Of(v) PROVE \E e \in E : f[e] = s
  <2>1. s \in series /\ s.vector = v
    BY DEF Of
  <2>2. PICK i \in DOMAIN reply, q \in Phase : \E j \in DOMAIN Lists(reply[i])[q] :
           /\ s.vector \in Vectors[q]
           /\ \E new : /\ Shows(reply[i], q, j, new)
                       /\ \E t \in new : t.vector = s.vector /\ t.labels = s.labels
    BY <2>1, StoredFor
  <2>3. q = p
    BY <2>1, <2>2
  <2>4. PICK j \in DOMAIN Lists(reply[i])[p] : Stands(i, p, j, v, s)
    BY <2>1, <2>2, <2>3 DEF Stands
  <2>5. <<i, j>> \in E /\ <<i, j>>[1] = i /\ <<i, j>>[2] = j
    BY InPlaces
  <2>6. f[<<i, j>>] \in series /\ Stands(i, p, j, v, f[<<i, j>>])
    BY <1>4, <2>5
  <2>7. f[<<i, j>>] = s
    BY <1>2, <2>1, <2>4, <2>6
  <2>8. QED
    BY <2>5, <2>7
<1>8. IsFiniteSet(E)
  <2>1. CASE reply \in Replies
    BY <2>1, PlacesFinite
  <2>2. CASE reply = << >>
    <3>1. E = {}
      BY <2>2 DEF Places
    <3>2. QED
      BY <3>1, FS_EmptySet
  <2>3. QED
    BY <2>1, <2>2 DEF Place
<1> HIDE DEF E, f
<1>9. QED
  BY <1>5, <1>6, <1>7, <1>8, SameCount DEF E

\* A list of label values as long as the list of names is stored.
LEMMA Accepted ==
  ASSUME NEW vector, NEW values, NEW value, Len(values) = Len(Declared[vector[1]][vector[2]])
  PROVE  \E s \in Series(vector, values, value) : s.vector = vector
<1>1. Series(vector, values, value) # {}
  BY DEF Series
<1>2. QED
  BY <1>1, OneSeries

\* Each archive is stored in wal_archive_status, labelled with what tells it apart.
LEMMA WALOne ==
  ASSUME NEW st, NEW a
  PROVE  \E s \in WALSeries(st, a) : s.vector = <<"wal", "archive_status">>
<1> DEFINE complete == a.min # "" /\ a.max # ""
           Show(bound) == IF complete /\ flags.verboseWAL THEN bound ELSE ""
           values == <<Itoa(a.id), getPGVersion(a.id, a.repo, st.db), Itoa(a.repo), st.name,
                       Show(a.max), Show(a.min)>>
           vector == <<"wal", "archive_status">>
<1>1. WALSeries(st, a) = Series(vector, values, convertBool(complete))
  BY DEF WALSeries
<1>2. Len(values) = 6
  OBVIOUS
<1>3. Len(Declared[vector[1]][vector[2]]) = 6
  BY DEF Declared, WALVectors
<1> HIDE DEF values, complete, vector
<1>4. QED
  BY <1>1, <1>2, <1>3, Accepted DEF vector

\* Each repository is stored in repo_status, labelled with what tells it apart.
LEMMA RepoOne ==
  ASSUME NEW st, NEW r
  PROVE  /\ \E s \in RepoSeries(st, r) : s.vector = <<"repo", "status">>
         /\ \A s \in RepoSeries(st, r) : /\ s.labels["cipher"] = r.cipher
                                         /\ s.labels["repo_key"] = Itoa(r.key)
                                         /\ s.labels["stanza"] = st.name
<1> DEFINE values == <<r.cipher, Itoa(r.key), st.name>>
           names == <<"cipher", "repo_key", "stanza">>
           vector == <<"repo", "status">>
<1>1. RepoSeries(st, r) = Series(vector, values, r.code)
  BY DEF RepoSeries
<1>2. Len(values) = 3 /\ values[1] = r.cipher /\ values[2] = Itoa(r.key) /\ values[3] = st.name
  OBVIOUS
<1>3. Declared[vector[1]][vector[2]] = names
  BY DEF Declared, RepoVectors
<1>4. /\ Len(names) = 3 /\ names[1] = "cipher" /\ names[2] = "repo_key" /\ names[3] = "stanza"
      /\ \A k \in 1..3 :
           k \in DOMAIN names /\ \A i \in DOMAIN names : names[i] = names[k] => i = k
  OBVIOUS
<1> HIDE DEF values, names, vector
<1>5. \E s \in RepoSeries(st, r) : s.vector = vector
  BY <1>1, <1>2, <1>3, <1>4, Accepted
<1>6. \A s \in RepoSeries(st, r) : \A k \in 1..3 : s.labels[names[k]] = values[k]
  BY <1>1, <1>3, <1>4, LabelValue
<1>7. \A s \in RepoSeries(st, r) :
        /\ s.labels[names[1]] = values[1] /\ s.labels[names[2]] = values[2]
        /\ s.labels[names[3]] = values[3]
  BY <1>6
<1>8. QED
  BY <1>2, <1>4, <1>5, <1>7 DEF vector

\* Each backup is stored in backup_info.
LEMMA InfoOne ==
  ASSUME NEW st, NEW b
  PROVE  \E s \in BackupSeries(st, b) : s.vector = <<"backup", "info">>
<1> DEFINE vector == <<"backup", "info">>
           values == <<b.backrest, b.label, b.type, checkBackupIncremental(b), Itoa(b.id),
              convertEmptyLSNValueLabel(b.lsn[1]), convertEmptyLSNValueLabel(b.lsn[2]),
              getPGVersion(b.id, b.repo, st.db), b.prior, Itoa(b.repo), st.name,
              b.wal[1], b.wal[2]>>
<1>1. \A s \in Series(vector, values, 1) : s \in BackupSeries(st, b)
  BY DEF BackupSeries
<1>2. Len(values) = 13
  OBVIOUS
<1>3. Len(Declared[vector[1]][vector[2]]) = 13
  <2>1. Len(Declared["backup"]["info"]) = 13
    BY DEF Declared, BackupVectors, Sizes
  <2>2. QED
    BY <2>1
<1> HIDE DEF values, vector
<1>4. \E s \in Series(vector, values, 1) : s.vector = vector
  BY <1>2, <1>3, Accepted
<1>5. QED
  BY <1>1, <1>4 DEF vector

-----------------------------------------------------------------------------
\* The labels the series of one backup have in common.
CommonOf(st, b, s) ==
  /\ s.labels["backup_name"] = b.label /\ s.labels["backup_type"] = b.type
  /\ s.labels["block_incr"] = checkBackupIncremental(b)
  /\ s.labels["database_id"] = Itoa(b.id) /\ s.labels["repo_key"] = Itoa(b.repo)
  /\ s.labels["stanza"] = st.name

\* What is known of the backups of a reply.
LEMMA BackupsOfReply ==
  ASSUME NEW r \in Replies
  PROVE  \A i \in DOMAIN r : /\ r[i] \in Stanza
                            /\ \A j \in DOMAIN r[i].backup :
                                 /\ r[i].backup[j] \in Backup
                                 /\ r[i].backup[j].id \in Nat /\ r[i].backup[j].repo \in Nat
                                 /\ r[i].backup[j].start <= r[i].backup[j].stop
<1>1. \A i \in DOMAIN r : r[i] \in Stanza
  BY RepliesAssumption
<1>2. \A b \in Backup : b.id \in Nat /\ b.repo \in Nat
  BY DEF Backup
<1>3. \A st \in Stanza : \A j \in DOMAIN st.backup : st.backup[j] \in Backup
  BY StanzaFields
<1>4. QED
  BY <1>1, <1>2, <1>3, TimesAssumption

\* They tell backups apart.
LEMMA CommonTells ==
  ASSUME ItoaInjective, Place, NEW i \in DOMAIN reply, NEW k \in DOMAIN reply,
         NEW j \in DOMAIN reply[i].backup, NEW m \in DOMAIN reply[k].backup, NEW s, NEW t,
         CommonOf(reply[i], reply[i].backup[j], s), CommonOf(reply[k], reply[k].backup[m], t),
         \A n \in {"stanza", "repo_key", "backup_name"} : s.labels[n] = t.labels[n]
  PROVE  i = k /\ j = m
<1>1. reply \in Replies
  BY ReplyType DEF Place
<1>2. reply[i].name = reply[k].name
  BY DEF CommonOf
<1>3. i = k
  BY <1>1, <1>2, NamesAssumption
<1>4. /\ Itoa(reply[i].backup[j].repo) = Itoa(reply[i].backup[m].repo)
      /\ reply[i].backup[j].label = reply[i].backup[m].label
  BY <1>3 DEF CommonOf
<1>5. reply[i].backup[j].repo = reply[i].backup[m].repo
  BY <1>1, <1>3, <1>4, BackupsOfReply DEF ItoaInjective
<1>6. QED
  BY <1>1, <1>3, <1>4, <1>5, NumbersAssumption

-----------------------------------------------------------------------------
\* Every archive, repository and backup has a series of its own.
LEMMA WALCounted ==
  ASSUME ItoaInjective, Place, Exact, OneValue, at = Len(reply) + 1, pc # "version"
  PROVE  Cardinality(Of(<<"wal", "archive_status">>)) = Cardinality(Places(reply, "wal"))
<1> DEFINE v == <<"wal", "archive_status">>
           p == "wal"
<1>0. v # <<"version", "info">> /\ v[2] # "references" /\ p \in Phase
  BY DEF Phase
<1>1. \A q \in Phase : v \in Vectors[q] => q = p
  BY PhaseOf
<1>2. \A i \in DOMAIN reply : \A j \in DOMAIN Lists(reply[i])[p] :
        \E new : Shows(reply[i], p, j, new) /\ \E t \in new : t.vector = v
  BY WALOne DEF Shows
<1>2a. \A st, x : \A s \in WALSeries(st, x) :
        /\ s.labels["database_id"] = Itoa(x.id) /\ s.labels["repo_key"] = Itoa(x.repo)
        /\ s.labels["stanza"] = st.name
  BY WALLabels
<1>3. ASSUME NEW i \in DOMAIN reply, NEW k \in DOMAIN reply,
             NEW j \in DOMAIN Lists(reply[i])[p], NEW m \in DOMAIN Lists(reply[k])[p],
             NEW a, NEW b, Shows(reply[i], p, j, a), Shows(reply[k], p, m, b),
             NEW s \in a, NEW t \in b, s.vector = v, t.vector = v, s.labels = t.labels
      PROVE  i = k /\ j = m
  <2>1. /\ a = WALSeries(reply[i], reply[i].archive[j]) /\ j \in DOMAIN reply[i].archive
        /\ b = WALSeries(reply[k], reply[k].archive[m]) /\ m \in DOMAIN reply[k].archive
    BY <1>3 DEF Shows, Lists
  <2>2. reply \in Replies /\ reply[i] \in Stanza /\ reply[k] \in Stanza
    BY ReplyType DEF Place
  <2>3. reply[i].name = reply[k].name
    BY <1>3, <1>2a, <2>1
  <2>4. i = k
    BY <2>2, <2>3, NamesAssumption
  <2>5. /\ Itoa(reply[i].archive[j].id) = Itoa(reply[i].archive[m].id)
        /\ Itoa(reply[i].archive[j].repo) = Itoa(reply[i].archive[m].repo)
    BY <1>3, <1>2a, <2>1, <2>4
  <2>6. \A n \in DOMAIN reply[i].archive :
          reply[i].archive[n].id \in Nat /\ reply[i].archive[n].repo \in Nat
    <3>1. \A x \in Archive : x.id \in Nat /\ x.repo \in Nat
      BY DEF Archive
    <3>2. reply[i].archive \in Seq(Archive)
      BY <2>2, StanzaFields
    <3>3. QED
      BY <3>1, <3>2
  <2>7. /\ reply[i].archive[j].id = reply[i].archive[m].id
        /\ reply[i].archive[j].repo = reply[i].archive[m].repo
    BY <2>1, <2>4, <2>5, <2>6 DEF ItoaInjective
  <2>8. j = m
    BY <2>1, <2>2, <2>4, <2>7, NumbersAssumption
  <2>9. QED
    BY <2>4, <2>8
<1>4. \A i, k \in DOMAIN reply : \A j \in DOMAIN Lists(reply[i])[p] :
        \A m \in DOMAIN Lists(reply[k])[p] : \A a, b :
          /\ Shows(reply[i], p, j, a) /\ Shows(reply[k], p, m, b)
          => \A s \in a : \A t \in b :
               s.vector = v /\ t.vector = v /\ s.labels = t.labels => i = k /\ j = m
  BY <1>3
<1> HIDE DEF v, p
<1>5. Cardinality(Of(v)) = Cardinality(Places(reply, p))
  BY <1>0, <1>1, <1>2, <1>4, Counted
<1>6. QED
  BY <1>5 DEF v, p

\* One series per repository.
LEMMA RepoCounted ==
  ASSUME ItoaInjective, Place, Exact, OneValue, at = Len(reply) + 1, pc # "version"
  PROVE  Cardinality(Of(<<"repo", "status">>)) = Cardinality(Places(reply, "repo"))
<1> DEFINE v == <<"repo", "status">>
           p == "repo"
<1>0. v # <<"version", "info">> /\ v[2] # "references" /\ p \in Phase
  BY DEF Phase
<1>1. \A q \in Phase : v \in Vectors[q] => q = p
  BY PhaseOf
<1>2. \A i \in DOMAIN reply : \A j \in DOMAIN Lists(reply[i])[p] :
        \E new : Shows(reply[i], p, j, new) /\ \E t \in new : t.vector = v
  <2>1. \A st, j : Shows(st, p, j, RepoSeries(st, Repos(st)[j]))
    BY DEF Shows
  <2>2. \A st, r : \E t \in RepoSeries(st, r) : t.vector = v
    BY RepoOne
  <2>3. QED
    BY <2>1, <2>2
<1>3. ASSUME NEW i \in DOMAIN reply, NEW k \in DOMAIN reply,
             NEW j \in DOMAIN Lists(reply[i])[p], NEW m \in DOMAIN Lists(reply[k])[p],
             NEW a, NEW b, Shows(reply[i], p, j, a), Shows(reply[k], p, m, b),
             NEW s \in a, NEW t \in b, s.vector = v, t.vector = v, s.labels = t.labels
      PROVE  i = k /\ j = m
  <2>1. /\ a = RepoSeries(reply[i], Repos(reply[i])[j]) /\ j \in DOMAIN Repos(reply[i])
        /\ b = RepoSeries(reply[k], Repos(reply[k])[m]) /\ m \in DOMAIN Repos(reply[k])
    BY <1>3 DEF Shows, Lists
  <2>2. reply \in Replies /\ reply[i] \in Stanza /\ reply[k] \in Stanza
    BY ReplyType DEF Place
  <2>3. reply[i].name = reply[k].name
    BY <1>3, <2>1, RepoOne
  <2>4. i = k
    BY <2>2, <2>3, NamesAssumption
  <2>5. Itoa(Repos(reply[i])[j].key) = Itoa(Repos(reply[i])[m].key)
    BY <1>3, <2>1, <2>4, RepoOne
  <2>6. CASE reply[i].repo.given
    <3> DEFINE Listed == [cipher: STRING, key: Nat, code: Nat]
    <3>1. \A x \in Listed : x.key \in Nat
      OBVIOUS
    <3>2. reply[i].repo.list \in Seq(Listed)
      BY <2>2, StanzaFields DEF Repo
    <3> HIDE DEF Listed
    <3>3. Repos(reply[i]) = reply[i].repo.list
      BY <2>6 DEF Repos
    <3>4. \A n \in DOMAIN Repos(reply[i]) : Repos(reply[i])[n].key \in Nat
      BY <3>1, <3>2, <3>3
    <3>5. Repos(reply[i])[j].key = Repos(reply[i])[m].key
      BY <2>1, <2>4, <2>5, <3>4 DEF ItoaInjective
    <3>6. j = m
      BY <2>1, <2>2, <2>4, <3>3, <3>5, NumbersAssumption
    <3>7. QED
      BY <2>4, <3>6
  <2>7. CASE ~reply[i].repo.given
    <3>1. \E x : Repos(reply[i]) = <<x>>
      BY <2>7 DEF Repos
    <3>2. DOMAIN Repos(reply[i]) = {1}
      BY <3>1
    <3>3. QED
      BY <2>1, <2>4, <3>2
  <2>8. QED
    BY <2>6, <2>7
<1>4. \A i, k \in DOMAIN reply : \A j \in DOMAIN Lists(reply[i])[p] :
        \A m \in DOMAIN Lists(reply[k])[p] : \A a, b :
          /\ Shows(reply[i], p, j, a) /\ Shows(reply[k], p, m, b)
          => \A s \in a : \A t \in b :
               s.vector = v /\ t.vector = v /\ s.labels = t.labels => i = k /\ j = m
  BY <1>3
<1> HIDE DEF v, p
<1>5. Cardinality(Of(v)) = Cardinality(Places(reply, p))
  BY <1>0, <1>1, <1>2, <1>4, Counted
<1>6. QED
  BY <1>5 DEF v, p

\* One series per backup.
LEMMA BackupCounted ==
  ASSUME ItoaInjective, Place, Exact, OneValue, at = Len(reply) + 1, pc # "version"
  PROVE  Cardinality(Of(<<"backup", "info">>)) = Cardinality(Places(reply, "backup"))
<1> DEFINE v == <<"backup", "info">>
           p == "backup"
<1>0. v # <<"version", "info">> /\ v[2] # "references" /\ p \in Phase
  BY DEF Phase
<1>1. \A q \in Phase : v \in Vectors[q] => q = p
  BY PhaseOf
<1>2. \A i \in DOMAIN reply : \A j \in DOMAIN Lists(reply[i])[p] :
        \E new : Shows(reply[i], p, j, new) /\ \E t \in new : t.vector = v
  <2>1. \A st, j : Shows(st, p, j, BackupSeries(st, st.backup[j]))
    BY DEF Shows
  <2>2. \A st, b : \E t \in BackupSeries(st, b) : t.vector = v
    BY InfoOne
  <2>3. ASSUME NEW i \in DOMAIN reply, NEW j \in DOMAIN Lists(reply[i])[p]
        PROVE  \E new : Shows(reply[i], p, j, new) /\ \E t \in new : t.vector = v
    <3>1. Shows(reply[i], p, j, BackupSeries(reply[i], reply[i].backup[j]))
      BY <2>1
    <3>2. \E t \in BackupSeries(reply[i], reply[i].backup[j]) : t.vector = v
      BY <2>2
    <3> HIDE DEF v, p
    <3>3. QED
      BY <3>1, <3>2
  <2>4. QED
    BY <2>3
<1>3. ASSUME NEW i \in DOMAIN reply, NEW k \in DOMAIN reply,
             NEW j \in DOMAIN Lists(reply[i])[p], NEW m \in DOMAIN Lists(reply[k])[p],
             NEW a, NEW b, Shows(reply[i], p, j, a), Shows(reply[k], p, m, b),
             NEW s \in a, NEW t \in b, s.vector = v, t.vector = v, s.labels = t.labels
      PROVE  i = k /\ j = m
  <2>1. /\ a = BackupSeries(reply[i], reply[i].backup[j]) /\ j \in DOMAIN reply[i].backup
        /\ b = BackupSeries(reply[k], reply[k].backup[m]) /\ m \in DOMAIN reply[k].backup
    BY <1>3 DEF Shows, Lists
  <2>2. CommonOf(reply[i], reply[i].backup[j], s) /\ CommonOf(reply[k], reply[k].backup[m], t)
    <3>1. reply \in Replies
      BY ReplyType DEF Place
    <3>2. /\ reply[i].backup[j] \in Backup /\ reply[k].backup[m] \in Backup
          /\ reply[i].backup[j].start <= reply[i].backup[j].stop
          /\ reply[k].backup[m].start <= reply[k].backup[m].stop
      BY <2>1, <3>1, BackupsOfReply
    <3>3. QED
      BY <1>3, <2>1, <3>2, InfoLabels DEF CommonOf
  <2>3. QED
    BY <1>3, <2>1, <2>2, CommonTells
<1>4. \A i, k \in DOMAIN reply : \A j \in DOMAIN Lists(reply[i])[p] :
        \A m \in DOMAIN Lists(reply[k])[p] : \A a, b :
          /\ Shows(reply[i], p, j, a) /\ Shows(reply[k], p, m, b)
          => \A s \in a : \A t \in b :
               s.vector = v /\ t.vector = v /\ s.labels = t.labels => i = k /\ j = m
  BY <1>3
<1> HIDE DEF v, p
<1>5. Cardinality(Of(v)) = Cardinality(Places(reply, p))
  BY <1>0, <1>1, <1>2, <1>4, Counted
<1>6. QED
  BY <1>5 DEF v, p

-----------------------------------------------------------------------------
\* The label values of a backup, under the names most vectors declare for them.
LEMMA PerBackupLabels ==
  ASSUME NEW st, NEW b, NEW vector, NEW value,
         Declared[vector[1]][vector[2]] = PerBackup
  PROVE  /\ \E s \in Series(vector, LabelsOf(st, b), value) : s.vector = vector
         /\ \A s \in Series(vector, LabelsOf(st, b), value) : CommonOf(st, b, s)
<1> DEFINE values == <<b.label, b.type, checkBackupIncremental(b), Itoa(b.id), Itoa(b.repo), st.name>>
           names == <<"backup_name", "backup_type", "block_incr", "database_id", "repo_key",
                      "stanza">>
<1>1. LabelsOf(st, b) = values /\ Declared[vector[1]][vector[2]] = names
  BY DEF LabelsOf, PerBackup
<1>2. /\ values[1] = b.label /\ values[2] = b.type /\ values[3] = checkBackupIncremental(b)
      /\ values[4] = Itoa(b.id) /\ values[5] = Itoa(b.repo) /\ values[6] = st.name
      /\ Len(values) = 6
  OBVIOUS
<1>3. /\ names[1] = "backup_name" /\ names[2] = "backup_type" /\ names[3] = "block_incr"
      /\ names[4] = "database_id" /\ names[5] = "repo_key" /\ names[6] = "stanza"
      /\ Len(names) = 6
  OBVIOUS
<1>4. \A k \in 1..6 : /\ k \in DOMAIN names
                      /\ \A i \in DOMAIN names : names[i] = names[k] => i = k
  OBVIOUS
<1> HIDE DEF values, names
<1>5. \E s \in Series(vector, values, value) : s.vector = vector
  BY <1>1, <1>2, <1>3, Accepted
<1>6. \A s \in Series(vector, values, value) : \A k \in 1..6 : s.labels[names[k]] = values[k]
  BY <1>1, <1>4, LabelValue
<1>7. QED
  BY <1>1, <1>2, <1>3, <1>5, <1>6 DEF CommonOf

\* Six label values and two more.
LEMMA SixAndTwo ==
  ASSUME NEW c1, NEW c2, NEW c3, NEW c4, NEW c5, NEW c6, NEW c7, NEW c8
  PROVE  LET s == <<c1, c2, c3, c4, c5, c6>> \o <<c7, c8>>
         IN  /\ Len(s) = 8 /\ DOMAIN s = 1..8
             /\ s[1] = c1 /\ s[2] = c2 /\ s[3] = c3 /\ s[4] = c4 /\ s[5] = c5 /\ s[6] = c6
             /\ s[7] = c7 /\ s[8] = c8
  OBVIOUS

\* The label values of backup_duration_seconds, by name.
LEMMA DurationLabels ==
  ASSUME NEW st, NEW b, NEW value
  PROVE  LET vector == <<"backup", "duration_seconds">>
             new == Series(vector, LabelsOf(st, b) \o <<Itoa(b.start), Itoa(b.stop)>>, value)
         IN  /\ \E s \in new : s.vector = vector
             /\ \A s \in new : /\ CommonOf(st, b, s)
                               /\ s.labels["start_time"] = Itoa(b.start)
                               /\ s.labels["stop_time"] = Itoa(b.stop)
<1> DEFINE vector == <<"backup", "duration_seconds">>
           values == LabelsOf(st, b) \o <<Itoa(b.start), Itoa(b.stop)>>
           names == PerBackup \o <<"start_time", "stop_time">>
<1>1. Declared[vector[1]][vector[2]] = names
  <2>1. Declared["backup"]["duration_seconds"] = names
    BY DEF Declared, BackupVectors, Sizes
  <2>2. QED
    BY <2>1
<1>2. /\ values[1] = b.label /\ values[2] = b.type /\ values[3] = checkBackupIncremental(b)
      /\ values[4] = Itoa(b.id) /\ values[5] = Itoa(b.repo) /\ values[6] = st.name
      /\ values[7] = Itoa(b.start) /\ values[8] = Itoa(b.stop) /\ Len(values) = 8
  BY SixAndTwo DEF LabelsOf
<1>3. /\ names[1] = "backup_name" /\ names[2] = "backup_type" /\ names[3] = "block_incr"
      /\ names[4] = "database_id" /\ names[5] = "repo_key" /\ names[6] = "stanza"
      /\ names[7] = "start_time" /\ names[8] = "stop_time"
      /\ Len(names) = 8 /\ DOMAIN names = 1..8
  BY SixAndTwo DEF PerBackup
<1> HIDE DEF names
<1>4. \A k \in 1..8 : /\ k \in DOMAIN names
                      /\ \A i \in DOMAIN names : names[i] = names[k] => i = k
  BY <1>3
<1> HIDE DEF values, vector
<1>5. \E s \in Series(vector, values, value) : s.vector = vector
  BY <1>1, <1>2, <1>3, Accepted
<1>6. \A s \in Series(vector, values, value) : \A k \in 1..8 : s.labels[names[k]] = values[k]
  BY <1>1, <1>4, LabelValue
<1>7. \A s \in Series(vector, values, value) :
        /\ CommonOf(st, b, s)
        /\ s.labels["start_time"] = Itoa(b.start) /\ s.labels["stop_time"] = Itoa(b.stop)
  BY <1>2, <1>3, <1>6 DEF CommonOf
<1>8. QED
  BY <1>5, <1>7 DEF vector, values

\* The label values of backup_databases, by name.
LEMMA CountLabels ==
  ASSUME NEW st, NEW b, NEW value
  PROVE  /\ \E s \in processSpecificBackupData(st, b, value) : s.vector = <<"backup", "databases">>
         /\ \A s \in processSpecificBackupData(st, b, value) : CommonOf(st, b, s)
<1> DEFINE vector == <<"backup", "databases">>
           values == <<b.type, st.name, b.label, checkBackupIncremental(b), Itoa(b.id), Itoa(b.repo)>>
           names == <<"backup_type", "stanza", "backup_name", "block_incr", "database_id",
                      "repo_key">>
<1>1. processSpecificBackupData(st, b, value) = Series(vector, values, value)
  BY DEF processSpecificBackupData
<1>2. Declared[vector[1]][vector[2]] = names
  <2>1. Declared["backup"]["databases"] = names
    BY DEF Declared, BackupVectors, Sizes
  <2>2. QED
    BY <2>1
<1>3. /\ values[3] = b.label /\ values[1] = b.type /\ values[4] = checkBackupIncremental(b)
      /\ values[5] = Itoa(b.id) /\ values[6] = Itoa(b.repo) /\ values[2] = st.name
      /\ Len(values) = 6
  OBVIOUS
<1>4. /\ names[3] = "backup_name" /\ names[1] = "backup_type" /\ names[4] = "block_incr"
      /\ names[5] = "database_id" /\ names[6] = "repo_key" /\ names[2] = "stanza"
      /\ Len(names) = 6
  OBVIOUS
<1>5. \A k \in 1..6 : /\ k \in DOMAIN names
                      /\ \A i \in DOMAIN names : names[i] = names[k] => i = k
  OBVIOUS
<1> HIDE DEF values, names, vector
<1>6. \E s \in Series(vector, values, value) : s.vector = vector
  BY <1>2, <1>3, <1>4, Accepted
<1>7. \A s \in Series(vector, values, value) : \A k \in 1..6 : s.labels[names[k]] = values[k]
  BY <1>2, <1>5, LabelValue
<1>8. QED
  BY <1>1, <1>3, <1>4, <1>6, <1>7 DEF CommonOf, vector

\* The label values all vectors of a backup share.
LEMMA BackupLabels ==
  ASSUME NEW st, NEW b \in Backup, NEW f \in Sizes \cup {"duration_seconds"}
  PROVE  /\ \E s \in BackupSeries(st, b) : s.vector = <<"backup", f>>
         /\ \A s \in BackupSeries(st, b) : s.vector = <<"backup", f>> => CommonOf(st, b, s)
<1> DEFINE InfoSet == Series(<<"backup", "info">>,
         <<b.backrest, b.label, b.type, checkBackupIncremental(b), Itoa(b.id),
           convertEmptyLSNValueLabel(b.lsn[1]), convertEmptyLSNValueLabel(b.lsn[2]),
           getPGVersion(b.id, b.repo, st.db), b.prior, Itoa(b.repo), st.name,
           b.wal[1], b.wal[2]>>, 1)
           Duration == Series(<<"backup", "duration_seconds">>,
              LabelsOf(st, b) \o <<Itoa(b.start), Itoa(b.stop)>>, b.stop - b.start)
           Sized == SetSizes("backup", LabelsOf(st, b), b)
           Refs == IF flags.backupRefCount THEN References("backup", LabelsOf(st, b), b) ELSE {}
<1>1. BackupSeries(st, b) = InfoSet \cup Duration \cup Sized \cup Refs
  BY DEF BackupSeries
<1>2. /\ \A s \in InfoSet : s.vector = <<"backup", "info">>
      /\ \A s \in Refs : s.vector = <<"backup", "references">>
      /\ \A s \in Duration : s.vector = <<"backup", "duration_seconds">>
  BY OneSeries, SizesStored
<1>3. \A x, y : <<x, y>>[1] = x /\ <<x, y>>[2] = y
  OBVIOUS
<1>4. \A s \in Duration : CommonOf(st, b, s)
  BY DurationLabels
<1>5. \E s \in Duration : s.vector = <<"backup", "duration_seconds">>
  BY DurationLabels
<1>6. \A v \in Sizes : Declared["backup"][v] = PerBackup
  BY DEF Declared, BackupVectors
<1>7. ASSUME NEW v \in Sizes
      PROVE  /\ \E s \in Series(<<"backup", v>>, LabelsOf(st, b), SizesOf(b)[v]) : s.vector = <<"backup", v>>
             /\ \A s \in Series(<<"backup", v>>, LabelsOf(st, b), SizesOf(b)[v]) : CommonOf(st, b, s)
  <2> DEFINE vector == <<"backup", v>>
  <2>1. Declared[vector[1]][vector[2]] = PerBackup
    BY <1>3, <1>6
  <2> HIDE DEF vector
  <2>2. /\ \E s \in Series(vector, LabelsOf(st, b), SizesOf(b)[v]) : s.vector = vector
        /\ \A s \in Series(vector, LabelsOf(st, b), SizesOf(b)[v]) : CommonOf(st, b, s)
    BY <2>1, PerBackupLabels
  <2>3. QED
    BY <2>2 DEF vector
<1>8. \A s \in Sized : CommonOf(st, b, s)
  BY <1>7, InSizes
<1>9. \A v \in Sizes : \E s \in Sized : s.vector = <<"backup", v>>
  BY <1>7, InSizes
<1>10. f # "info" /\ f # "references"
  BY DEF Sizes
<1> HIDE DEF InfoSet, Duration, Sized, Refs
<1>11. QED
  BY <1>1, <1>2, <1>3, <1>4, <1>5, <1>8, <1>9, <1>10

\* The vectors that can be joined with backup_info.
JoinedVectors == ({"backup"} \X (Sizes \cup {"duration_seconds"}))
                 \cup (IF flags.backupDBCount THEN {<<"backup", "databases">>} ELSE {})

\* Each is stored for every backup of one phase's list.
LEMMA JoinedPhase ==
  ASSUME Place, NEW v \in JoinedVectors
  PROVE  /\ v # <<"version", "info">> /\ v[2] # "references"
         /\ \E p \in Phase :
              /\ \A q \in Phase : v \in Vectors[q] => q = p
              /\ \A i \in DOMAIN reply :
                   /\ DOMAIN Lists(reply[i])[p] = DOMAIN reply[i].backup
                   /\ \A j \in DOMAIN reply[i].backup :
                        /\ \E new : Shows(reply[i], p, j, new) /\ \E t \in new : t.vector = v
                        /\ \A new : Shows(reply[i], p, j, new) =>
                             \A t \in new : t.vector = v => CommonOf(reply[i], reply[i].backup[j], t)
<1>0. \A x, y : <<x, y>>[1] = x /\ <<x, y>>[2] = y
  OBVIOUS
<1>1. \A i \in DOMAIN reply : \A j \in DOMAIN reply[i].backup : reply[i].backup[j] \in Backup
  BY ReplyType, BackupsOfReply DEF Place
<1>2. CASE v = <<"backup", "databases">> /\ flags.backupDBCount
  <2>1. v # <<"version", "info">> /\ v[2] # "references"
    BY <1>0, <1>2
  <2>2. \A q \in Phase : v \in Vectors[q] => q = "databases"
    BY <1>2, PhaseOf
  <2>3. ASSUME NEW i \in DOMAIN reply
        PROVE  /\ DOMAIN Lists(reply[i])["databases"] = DOMAIN reply[i].backup
               /\ \A j \in DOMAIN reply[i].backup :
                    /\ \E new : Shows(reply[i], "databases", j, new) /\ \E t \in new : t.vector = v
                    /\ \A new : Shows(reply[i], "databases", j, new) =>
                         \A t \in new : t.vector = v => CommonOf(reply[i], reply[i].backup[j], t)
    <3>1. DOMAIN Lists(reply[i])["databases"] = DOMAIN reply[i].backup
      BY <1>2 DEF Lists
    <3>2. ASSUME NEW j \in DOMAIN reply[i].backup
          PROVE  /\ \E new : Shows(reply[i], "databases", j, new) /\ \E t \in new : t.vector = v
                 /\ \A new : Shows(reply[i], "databases", j, new) =>
                      \A t \in new : t.vector = v => CommonOf(reply[i], reply[i].backup[j], t)
      <4>1. Shows(reply[i], "databases", j, processSpecificBackupData(reply[i], reply[i].backup[j], 0))
        BY DEF Shows
      <4>2. \E t \in processSpecificBackupData(reply[i], reply[i].backup[j], 0) : t.vector = v
        BY <1>2, CountLabels
      <4>3. ASSUME NEW new, Shows(reply[i], "databases", j, new), NEW t \in new
            PROVE  CommonOf(reply[i], reply[i].backup[j], t)
        BY <4>3, CountLabels DEF Shows
      <4>4. QED
        BY <4>1, <4>2, <4>3
    <3>3. QED
      BY <3>1, <3>2
  <2>4. "databases" \in Phase
    BY DEF Phase
  <2>5. QED
    BY <2>1, <2>2, <2>3, <2>4
<1>3. CASE v \in {"backup"} \X (Sizes \cup {"duration_seconds"})
  <2>0. PICK f \in Sizes \cup {"duration_seconds"} : v = <<"backup", f>>
    BY <1>3
  <2>1. v # <<"version", "info">> /\ v[2] # "references"
    BY <1>0, <2>0 DEF Sizes
  <2>2. \A q \in Phase : v \in Vectors[q] => q = "backup"
    BY <2>0, PhaseOf
  <2>3. ASSUME NEW i \in DOMAIN reply
        PROVE  /\ DOMAIN Lists(reply[i])["backup"] = DOMAIN reply[i].backup
               /\ \A j \in DOMAIN reply[i].backup :
                    /\ \E new : Shows(reply[i], "backup", j, new) /\ \E t \in new : t.vector = v
                    /\ \A new : Shows(reply[i], "backup", j, new) =>
                         \A t \in new : t.vector = v => CommonOf(reply[i], reply[i].backup[j], t)
    <3>1. DOMAIN Lists(reply[i])["backup"] = DOMAIN reply[i].backup
      BY DEF Lists
    <3>2. ASSUME NEW j \in DOMAIN reply[i].backup
          PROVE  /\ \E new : Shows(reply[i], "backup", j, new) /\ \E t \in new : t.vector = v
                 /\ \A new : Shows(reply[i], "backup", j, new) =>
                      \A t \in new : t.vector = v => CommonOf(reply[i], reply[i].backup[j], t)
      <4>1. \A new : Shows(reply[i], "backup", j, new) <=> new = BackupSeries(reply[i], reply[i].backup[j])
        BY DEF Shows
      <4>2. reply[i].backup[j] \in Backup
        BY <1>1
      <4>3. \E t \in BackupSeries(reply[i], reply[i].backup[j]) : t.vector = v
        <5>1. \E t \in BackupSeries(reply[i], reply[i].backup[j]) : t.vector = <<"backup", f>>
          BY ONLY <4>2, BackupLabels, f \in Sizes \cup {"duration_seconds"}
        <5>2. QED
          BY <2>0, <5>1
      <4>4. \A t \in BackupSeries(reply[i], reply[i].backup[j]) :
              t.vector = v => CommonOf(reply[i], reply[i].backup[j], t)
        BY <2>0, <4>2, BackupLabels
      <4>5. QED
        BY <4>1, <4>3, <4>4
    <3>3. QED
      BY <3>1, <3>2
  <2>4. "backup" \in Phase
    BY DEF Phase
  <2>5. QED
    BY <2>1, <2>2, <2>3, <2>4
<1>4. QED
  BY <1>2, <1>3 DEF JoinedVectors

\* To one backup_info series belongs one series of each of the others.
LEMMA JoinedOnce ==
  ASSUME ItoaInjective, Place, Exact, OneValue, at = Len(reply) + 1, pc # "version",
         NEW o \in Of(<<"backup", "info">>), NEW v \in JoinedVectors
  PROVE  Cardinality({s \in Of(v) : \A n \in Common : s.labels[n] = o.labels[n]}) = 1
<1>1. PICK p \in Phase :
        /\ \A q \in Phase : v \in Vectors[q] => q = p
        /\ \A i \in DOMAIN reply :
             /\ DOMAIN Lists(reply[i])[p] = DOMAIN reply[i].backup
             /\ \A j \in DOMAIN reply[i].backup :
                  /\ \E new : Shows(reply[i], p, j, new) /\ \E t \in new : t.vector = v
                  /\ \A new : Shows(reply[i], p, j, new) =>
                       \A t \in new : t.vector = v => CommonOf(reply[i], reply[i].backup[j], t)
  BY JoinedPhase
<1>2. v # <<"version", "info">> /\ v[2] # "references"
  BY JoinedPhase
<1>3. Common = {"backup_name", "backup_type", "block_incr", "database_id", "repo_key", "stanza"}
  BY DEF Common, PerBackup
<1>4. PICK k \in DOMAIN reply : \E j \in DOMAIN reply[k].backup :
        CommonOf(reply[k], reply[k].backup[j], o)
  <2>1. o \in series /\ o.vector = <<"backup", "info">> /\ o.vector # <<"version", "info">>
    BY DEF Of
  <2>2. PICK i \in DOMAIN reply, q \in Phase : \E j \in DOMAIN Lists(reply[i])[q] :
           /\ o.vector \in Vectors[q]
           /\ \E new : /\ Shows(reply[i], q, j, new)
                       /\ \E t \in new : t.vector = o.vector /\ t.labels = o.labels
    BY <2>1, StoredFor
  <2>3. q = "backup"
    BY <2>1, <2>2, PhaseOf
  <2>4. PICK j \in DOMAIN Lists(reply[i])[q] :
          \E new : /\ Shows(reply[i], q, j, new)
                   /\ \E t \in new : t.vector = o.vector /\ t.labels = o.labels
    BY <2>2
  <2>5. j \in DOMAIN reply[i].backup
    BY <2>3, <2>4 DEF Lists
  <2>6. PICK t \in BackupSeries(reply[i], reply[i].backup[j]) :
          t.vector = o.vector /\ t.labels = o.labels
    BY <2>3, <2>4 DEF Shows
  <2>7. /\ reply[i].backup[j] \in Backup
        /\ reply[i].backup[j].start <= reply[i].backup[j].stop
    BY <2>5, ReplyType, BackupsOfReply DEF Place
  <2>8. CommonOf(reply[i], reply[i].backup[j], o)
    BY <2>1, <2>6, <2>7, InfoLabels DEF CommonOf
  <2>9. QED
    BY <2>5, <2>8
<1>5. PICK j \in DOMAIN reply[k].backup : CommonOf(reply[k], reply[k].backup[j], o)
  BY <1>4
<1>6. j \in DOMAIN Lists(reply[k])[p]
  BY <1>1
<1>7. PICK one \in series : Stands(k, p, j, v, one)
  BY <1>1, <1>6, StandsThere
<1>8. ASSUME NEW s, NEW i \in DOMAIN reply, NEW m \in DOMAIN reply[i].backup, Stands(i, p, m, v, s)
      PROVE  CommonOf(reply[i], reply[i].backup[m], s)
  BY <1>1, <1>8 DEF Stands, CommonOf
<1>9. ASSUME NEW s \in Of(v), \A n \in Common : s.labels[n] = o.labels[n]
      PROVE  s = one
  <2>1. s \in series /\ s.vector = v
    BY DEF Of
  <2>2. PICK i \in DOMAIN reply, q \in Phase : \E m \in DOMAIN Lists(reply[i])[q] :
           /\ s.vector \in Vectors[q]
           /\ \E new : /\ Shows(reply[i], q, m, new)
                       /\ \E t \in new : t.vector = s.vector /\ t.labels = s.labels
    BY <1>2, <2>1, StoredFor
  <2>3. q = p
    BY <1>1, <2>1, <2>2
  <2>4. PICK m \in DOMAIN Lists(reply[i])[p] : Stands(i, p, m, v, s)
    BY <2>1, <2>2, <2>3 DEF Stands
  <2>5. m \in DOMAIN reply[i].backup
    BY <1>1, <2>4
  <2>6. CommonOf(reply[i], reply[i].backup[m], s)
    BY <1>8, <2>4, <2>5
  <2>7. i = k /\ m = j
    BY <1>3, <1>5, <1>9, <2>5, <2>6, CommonTells
  <2>8. QED
    BY <1>2, <1>6, <1>7, <2>1, <2>4, <2>7, StandsOnce
<1>10. one \in Of(v) /\ \A n \in Common : one.labels[n] = o.labels[n]
  BY <1>3, <1>5, <1>7, <1>8 DEF Of, Stands, CommonOf
<1>11. {s \in Of(v) : \A n \in Common : s.labels[n] = o.labels[n]} = {one}
  BY <1>9, <1>10
<1>12. QED
  BY <1>11, FS_Singleton

\* At the end of a cycle every archive, repository and backup has a series of its own,
\* and the series of a backup can be joined, if numbers are told apart by their digits.
THEOREM EveryEntry == ASSUME ItoaInjective PROVE Spec => []EveryEntryHasItsSeries
<1>1. Init => Exact /\ OneValue
  <2> SUFFICES ASSUME Init PROVE Exact /\ OneValue
    OBVIOUS
  <2>1. pc = "version" /\ reply = << >> /\ series = {}
    BY DEF Init
  <2>2. DOMAIN reply = {} /\ \A key : key \notin Keys(series)
    BY <2>1 DEF Keys
  <2>3. QED
    BY <2>1, <2>2 DEF Exact, OneValue
<1>2. Place /\ Exact /\ OneValue /\ [Next]_vars => Place' /\ Exact' /\ OneValue'
  BY PlaceStep, ExactStep, OneValueStep
<1>3. Place /\ Exact /\ OneValue => EveryEntryHasItsSeries
  <2> SUFFICES ASSUME Place, Exact, OneValue, pc = "sleep"
               PROVE  EveryEntryHasItsSeries
    BY DEF EveryEntryHasItsSeries
  <2>1. at = Len(reply) + 1 /\ pc # "version"
    BY DEF Place
  <2>2. /\ Cardinality(Of(<<"wal", "archive_status">>)) = Cardinality(Places(reply, "wal"))
        /\ Cardinality(Of(<<"repo", "status">>)) = Cardinality(Places(reply, "repo"))
        /\ Cardinality(Of(<<"backup", "info">>)) = Cardinality(Places(reply, "backup"))
    BY <2>1, WALCounted, RepoCounted, BackupCounted
  <2>3. \A o \in Of(<<"backup", "info">>) : \A v \in JoinedVectors :
          Cardinality({s \in Of(v) : \A n \in Common : s.labels[n] = o.labels[n]}) = 1
    BY <2>1, JoinedOnce
  <2>4. QED
    BY <2>2, <2>3 DEF EveryEntryHasItsSeries, Total, Places, Lists, JoinedVectors
<1>4. QED
  BY <1>1, <1>2, <1>3, PlaceInit, PTL DEF Spec

-----------------------------------------------------------------------------
\* One label value and six or three more.
LEMMA OneAndMore ==
  ASSUME NEW c0, NEW c1, NEW c2, NEW c3, NEW c4, NEW c5, NEW c6
  PROVE  /\ LET s == <<c0>> \o <<c1, c2, c3, c4, c5, c6>>
            IN  /\ DOMAIN s = 1..7
                /\ s[1] = c0 /\ s[2] = c1 /\ s[3] = c2 /\ s[4] = c3 /\ s[5] = c4
                /\ s[6] = c5 /\ s[7] = c6
         /\ LET s == <<c0>> \o <<c1, c2, c3>>
            IN  /\ DOMAIN s = 1..4
                /\ s[1] = c0 /\ s[2] = c1 /\ s[3] = c2 /\ s[4] = c3
  OBVIOUS

\* The label values of backup_references, by name, and the count beside the kind.
LEMMA BackupReferences ==
  ASSUME NEW st, NEW b \in Backup, NEW s \in References("backup", LabelsOf(st, b), b)
  PROVE  CommonOf(st, b, s) /\ SaysReferences(s, b)
<1>1. PICK kind \in {"full", "diff", "incr"} :
        s \in Series(<<"backup", "references">>, <<kind>> \o LabelsOf(st, b), b.reference[kind])
  BY InReferences
<1> DEFINE vector == <<"backup", "references">>
           values == <<kind>> \o LabelsOf(st, b)
           names == <<"ref_backup">> \o PerBackup
<1>2. Declared[vector[1]][vector[2]] = names
  <2>1. Declared["backup"]["references"] = names
    BY DEF Declared, BackupVectors, Sizes
  <2>2. QED
    BY <2>1
<1>3. /\ values[1] = kind /\ values[2] = b.label /\ values[3] = b.type
      /\ values[4] = checkBackupIncremental(b) /\ values[5] = Itoa(b.id)
      /\ values[6] = Itoa(b.repo) /\ values[7] = st.name
  BY OneAndMore DEF LabelsOf
<1>4. /\ names[1] = "ref_backup" /\ names[2] = "backup_name" /\ names[3] = "backup_type"
      /\ names[4] = "block_incr" /\ names[5] = "database_id" /\ names[6] = "repo_key"
      /\ names[7] = "stanza" /\ DOMAIN names = 1..7
  BY OneAndMore DEF PerBackup
<1> HIDE DEF names
<1>5. \A k \in 1..7 : k \in DOMAIN names /\ \A i \in DOMAIN names : names[i] = names[k] => i = k
  BY <1>4
<1>6. s \in Series(vector, values, b.reference[kind])
  BY <1>1
<1> HIDE DEF values, vector
<1>7. \A k \in 1..7 : s.labels[names[k]] = values[k]
  BY <1>2, <1>5, <1>6, LabelValue
<1>8. s.value = b.reference[kind]
  BY <1>6, OneSeries
<1>9. s.labels["ref_backup"] = kind /\ CommonOf(st, b, s)
  BY <1>3, <1>4, <1>7 DEF CommonOf
<1>10. DOMAIN b.reference = {"full", "diff", "incr"}
  BY DEF Backup
<1>11. QED
  BY <1>8, <1>9, <1>10 DEF SaysReferences

\* What getBackupMetrics stores for a backup says what its fields say.
LEMMA BackupSays ==
  ASSUME NEW st \in Stanza, NEW b \in Backup, b.start <= b.stop, NEW s \in BackupSeries(st, b)
  PROVE  s.labels["stanza"] = st.name /\ SaysBackup(s, st, b)
<1> DEFINE InfoSet == Series(<<"backup", "info">>,
         <<b.backrest, b.label, b.type, checkBackupIncremental(b), Itoa(b.id),
           convertEmptyLSNValueLabel(b.lsn[1]), convertEmptyLSNValueLabel(b.lsn[2]),
           getPGVersion(b.id, b.repo, st.db), b.prior, Itoa(b.repo), st.name,
           b.wal[1], b.wal[2]>>, 1)
           Duration == Series(<<"backup", "duration_seconds">>,
              LabelsOf(st, b) \o <<Itoa(b.start), Itoa(b.stop)>>, b.stop - b.start)
           Sized == SetSizes("backup", LabelsOf(st, b), b)
           Refs == IF flags.backupRefCount THEN References("backup", LabelsOf(st, b), b) ELSE {}
<1>1. BackupSeries(st, b) = InfoSet \cup Duration \cup Sized \cup Refs
  BY DEF BackupSeries
<1>2. \A x, y : <<x, y>>[2] = y
  OBVIOUS
<1>3. /\ \A t \in InfoSet : t.vector = <<"backup", "info">>
      /\ \A t \in Duration : t.vector = <<"backup", "duration_seconds">>
      /\ \A t \in Sized : \E v \in Sizes : t.vector = <<"backup", v>>
      /\ \A t \in Refs : t.vector = <<"backup", "references">>
  BY OneSeries, SizesStored
<1>4. \A v \in Sizes : v \notin {"info", "duration_seconds", "references"}
  BY DEF Sizes
<1>5. \A t \in Duration : /\ CommonOf(st, b, t)
                          /\ t.labels["start_time"] = Itoa(b.start)
                          /\ t.labels["stop_time"] = Itoa(b.stop)
  BY DurationLabels
<1>6. \A t \in Refs : CommonOf(st, b, t) /\ SaysReferences(t, b)
  BY BackupReferences
<1> HIDE DEF InfoSet, Duration, Sized, Refs
<1>7. CASE s \in InfoSet
  <2>1. s.vector = <<"backup", "info">> /\ s.vector[2] = "info"
    BY <1>2, <1>3, <1>7
  <2>2. /\ CommonOf(st, b, s)
        /\ s.labels["backrest_ver"] = b.backrest /\ s.labels["prior"] = b.prior
        /\ s.labels["lsn_start"] = convertEmptyLSNValueLabel(b.lsn[1])
        /\ s.labels["lsn_stop"] = convertEmptyLSNValueLabel(b.lsn[2])
        /\ s.labels["wal_start"] = b.wal[1] /\ s.labels["wal_stop"] = b.wal[2]
        /\ s.labels["pg_version"] = getPGVersion(b.id, b.repo, st.db)
    BY <2>1, InfoLabels DEF CommonOf
  <2>3. SaysVersion(s, st, b.id, b.repo)
    BY <2>2, VersionSaid
  <2>4. QED
    BY <2>1, <2>2, <2>3 DEF SaysBackup, CommonOf
<1>8. CASE s \in Duration
  <2>1. s.vector[2] = "duration_seconds"
    BY <1>2, <1>3, <1>8
  <2>2. QED
    BY <1>5, <1>8, <2>1 DEF SaysBackup, CommonOf
<1>9. CASE s \in Sized
  <2>1. PICK v \in Sizes : s.vector = <<"backup", v>>
    BY <1>3, <1>9
  <2>2. s.vector[2] = v
    BY <1>2, <2>1
  <2>3. CommonOf(st, b, s)
    BY <2>1, BackupLabels
  <2>4. QED
    BY <1>4, <2>2, <2>3 DEF SaysBackup, CommonOf
<1>10. CASE s \in Refs
  <2>1. s.vector[2] = "references"
    BY <1>2, <1>3, <1>10
  <2>2. QED
    BY <1>6, <1>10, <2>1 DEF SaysBackup, CommonOf
<1>11. QED
  BY <1>1, <1>7, <1>8, <1>9, <1>10

\* The label values of the last backups' vectors, by name.
LEMMA LastLabels ==
  ASSUME NEW st, NEW slot, NEW vector, NEW value,
         Declared[vector[1]][vector[2]] = <<"backup_type", "block_incr", "stanza">>,
         NEW s \in Series(vector, <<slot.type, checkBackupIncremental(slot.backup), st.name>>, value)
  PROVE  /\ s.labels["stanza"] = st.name /\ s.labels["backup_type"] = slot.type
         /\ s.labels["block_incr"] = checkBackupIncremental(slot.backup)
<1> DEFINE values == <<slot.type, checkBackupIncremental(slot.backup), st.name>>
           names == <<"backup_type", "block_incr", "stanza">>
<1>1. /\ values[1] = slot.type /\ values[2] = checkBackupIncremental(slot.backup)
      /\ values[3] = st.name
  OBVIOUS
<1>2. names[1] = "backup_type" /\ names[2] = "block_incr" /\ names[3] = "stanza"
  OBVIOUS
<1>3. \A k \in 1..3 : k \in DOMAIN names /\ \A i \in DOMAIN names : names[i] = names[k] => i = k
  OBVIOUS
<1>4. Declared[vector[1]][vector[2]] = names /\ s \in Series(vector, values, value)
  OBVIOUS
<1> HIDE DEF values, names
<1>5. \A k \in 1..3 : s.labels[names[k]] = values[k]
  BY <1>3, <1>4, LabelValue
<1>6. QED
  BY <1>1, <1>2, <1>5

\* The label values of the last references, by name, and the count beside the kind.
LEMMA LastReferences ==
  ASSUME NEW st, NEW slot, slot.backup \in Backup,
         NEW s \in References("last", <<slot.type, checkBackupIncremental(slot.backup), st.name>>,
                              slot.backup)
  PROVE  /\ s.labels["stanza"] = st.name /\ s.labels["backup_type"] = slot.type
         /\ s.labels["block_incr"] = checkBackupIncremental(slot.backup)
         /\ SaysReferences(s, slot.backup)
<1> DEFINE b == slot.backup
           labels == <<slot.type, checkBackupIncremental(b), st.name>>
<1>1. PICK kind \in {"full", "diff", "incr"} :
        s \in Series(<<"last", "references">>, <<kind>> \o labels, b.reference[kind])
  BY InReferences
<1> DEFINE vector == <<"last", "references">>
           values == <<kind>> \o labels
           names == <<"ref_backup", "backup_type", "block_incr", "stanza">>
<1>2. Declared[vector[1]][vector[2]] = names
  <2>1. Declared["last"]["references"] = names
    BY DEF Declared, LastVectors
  <2>2. QED
    BY <2>1
<1>3. /\ values[1] = kind /\ values[2] = slot.type /\ values[3] = checkBackupIncremental(b)
      /\ values[4] = st.name
  BY OneAndMore
<1>4. /\ names[1] = "ref_backup" /\ names[2] = "backup_type" /\ names[3] = "block_incr"
      /\ names[4] = "stanza"
  OBVIOUS
<1>5. \A k \in 1..4 : k \in DOMAIN names /\ \A i \in DOMAIN names : names[i] = names[k] => i = k
  OBVIOUS
<1>6. s \in Series(vector, values, b.reference[kind])
  BY <1>1
<1> HIDE DEF values, vector, names
<1>7. \A k \in 1..4 : s.labels[names[k]] = values[k]
  BY <1>2, <1>5, <1>6, LabelValue
<1>8. s.value = b.reference[kind]
  BY <1>6, OneSeries
<1>9. DOMAIN b.reference = {"full", "diff", "incr"}
  BY DEF Backup
<1>10. QED
  BY <1>3, <1>4, <1>7, <1>8, <1>9 DEF SaysReferences

\* What getBackupLastMetrics stores for a slot says what the slot holds.
LEMMA LastSays ==
  ASSUME NEW st, NEW slot, slot.backup \in Backup, NEW s \in LastSeriesOf(st, slot)
  PROVE  s.labels["stanza"] = st.name /\ SaysLast(s, slot)
<1> DEFINE b == slot.backup
           labels == <<slot.type, checkBackupIncremental(b), st.name>>
           Sized == SetSizes("last", labels, b)
           Duration == Series(<<"last", "duration_seconds">>, labels, b.stop - b.start)
           Since == Series(<<"last", "since_completion_seconds">>, labels, Clock - b.stop)
           Refs == References("last", labels, b)
           Says(t) == /\ t.labels["stanza"] = st.name /\ t.labels["backup_type"] = slot.type
                      /\ t.labels["block_incr"] = checkBackupIncremental(b)
<1>1. LastSeriesOf(st, slot) = Sized \cup Duration \cup Since \cup Refs
  BY DEF LastSeriesOf
<1>2. \A x, y : <<x, y>>[1] = x /\ <<x, y>>[2] = y
  OBVIOUS
<1>3. \A v \in LastOnly : v # "references"
               /\ Declared["last"][v] = <<"backup_type", "block_incr", "stanza">>
  BY DEF LastOnly, Declared, LastVectors, Sizes
<1>4. ASSUME NEW v \in LastOnly, NEW value, NEW t \in Series(<<"last", v>>, labels, value)
      PROVE  Says(t) /\ t.vector[2] # "references"
  <2> DEFINE vector == <<"last", v>>
  <2>1. Declared[vector[1]][vector[2]] = <<"backup_type", "block_incr", "stanza">>
    BY <1>2, <1>3
  <2>2. t.vector = vector /\ vector[2] = v
    BY <1>2, <1>4, OneSeries
  <2>3. t \in Series(vector, labels, value)
    BY <1>4
  <2> HIDE DEF vector
  <2>4. Says(t)
    BY <2>1, <2>3, LastLabels
  <2>5. QED
    BY <1>3, <2>2, <2>4
<1>5. \A t \in Sized \cup Duration \cup Since : Says(t) /\ t.vector[2] # "references"
  <2>1. Sizes \subseteq LastOnly /\ "duration_seconds" \in LastOnly
        /\ "since_completion_seconds" \in LastOnly
    BY DEF LastOnly
  <2>2. \A t \in Sized : \E v \in Sizes : t \in Series(<<"last", v>>, labels, SizesOf(b)[v])
    BY InSizes
  <2> HIDE DEF Sized, Says, labels
  <2>3. QED
    BY <1>4, <2>1, <2>2
<1>6. \A t \in Refs : Says(t) /\ SaysReferences(t, b)
  BY LastReferences
<1> HIDE DEF Sized, Duration, Since, Refs
<1>7. Says(s) /\ (s.vector[2] = "references" => SaysReferences(s, b))
  <2> HIDE DEF Says
  <2>1. QED
    BY <1>1, <1>5, <1>6
<1>8. QED
  BY <1>7 DEF SaysLast

\* The label values of stanza_status and of the locks.
LEMMA StanzaSays ==
  ASSUME NEW st, NEW s \in StanzaSeries(st)
  PROVE  s.labels["stanza"] = st.name
<1> DEFINE OfOne(t) == \E vector, value : /\ t \in Series(vector, <<st.name>>, value)
                                         /\ Declared[vector[1]][vector[2]] = <<"stanza">>
<1>1. ASSUME NEW vector, NEW value, Declared[vector[1]][vector[2]] = <<"stanza">>,
             NEW t \in Series(vector, <<st.name>>, value)
      PROVE  t.labels["stanza"] = st.name
  <2> DEFINE names == <<"stanza">>
             values == <<st.name>>
  <2>1. names[1] = "stanza" /\ 1 \in DOMAIN names /\ \A i \in DOMAIN names : i = 1
    OBVIOUS
  <2>2. values[1] = st.name
    OBVIOUS
  <2>3. Declared[vector[1]][vector[2]] = names /\ t \in Series(vector, values, value)
    BY <1>1
  <2> HIDE DEF names, values
  <2>4. t.labels[names[1]] = values[1]
    BY <2>1, <2>3, LabelValue
  <2>5. QED
    BY <2>1, <2>2, <2>4
<1>2. /\ Declared["stanza"]["status"] = <<"stanza">>
      /\ \A g \in {"stanza_backup", "stanza_restore"} :
           \A v \in {"lock_status", "total_bytes", "complete_bytes"} :
             Declared[g][v] = <<"stanza">>
  BY DEF Declared, StanzaVectors, LockVectors
<1>3. \A x, y : <<x, y>>[1] = x /\ <<x, y>>[2] = y
  OBVIOUS
<1>4. \A value : \A t \in Series(<<"stanza", "status">>, <<st.name>>, value) : OfOne(t)
  BY <1>2, <1>3
<1>5. \A g \in {"stanza_backup", "stanza_restore"} :
        \A v \in {"lock_status", "total_bytes", "complete_bytes"} :
          \A value : \A t \in Series(<<g, v>>, <<st.name>>, value) : OfOne(t)
  BY <1>2, <1>3
<1> HIDE DEF OfOne
<1>6. OfOne(s)
  BY <1>4, <1>5 DEF StanzaSeries
<1>7. QED
  BY <1>1, <1>6 DEF OfOne

\* Every label of every series says under its own name what one entry of the reply says.
THEOREM ByName == Spec => []LabelsByName
<1>1. Init => FromReply
  BY DEF Init, FromReply
<1>2. Place /\ FromReply /\ [Next]_vars => Place' /\ FromReply'
  BY PlaceStep, FromReplyStep
<1>3. Place /\ FromReply => LabelsByName
  <2> DEFINE Says(s, st) ==
        /\ s.labels.stanza = st.name
        /\ s.vector[1] = "repo" => \E j \in DOMAIN Repos(st) :
             s.labels.cipher = Repos(st)[j].cipher /\ s.labels.repo_key = Itoa(Repos(st)[j].key)
        /\ s.vector[1] = "wal" => \E j \in DOMAIN st.archive : SaysArchive(s, st, st.archive[j])
        /\ s.vector[1] = "backup" => \E j \in DOMAIN st.backup : SaysBackup(s, st, st.backup[j])
        /\ s.vector[1] = "last" => \E j \in DOMAIN Slots(st) : SaysLast(s, Slots(st)[j])
  <2> SUFFICES ASSUME Place, FromReply, NEW s \in series, s.vector # <<"version", "info">>
               PROVE  \E i \in DOMAIN reply : Says(s, reply[i])
    BY DEF LabelsByName
  <2>1. OfEntry(s)
    BY OneSeries DEF FromReply, OfVersion
  <2>2. PICK i \in DOMAIN reply, p \in Phase : \E j \in DOMAIN Lists(reply[i])[p] :
          \E new : Shows(reply[i], p, j, new) /\ s \in new
    BY <2>1 DEF OfEntry
  <2>2a. PICK j \in DOMAIN Lists(reply[i])[p] : \E new : Shows(reply[i], p, j, new) /\ s \in new
    BY <2>2
  <2>3. PICK new : Shows(reply[i], p, j, new) /\ s \in new
    BY <2>2a
  <2> DEFINE st == reply[i]
  <2>4. reply \in Replies /\ st \in Stanza
    BY <2>2, ReplyType DEF Place
  <2>5. s.vector \in Vectors[p]
    BY <2>3, <2>4, EntryVector
  <2>6. \A k \in DOMAIN st.backup : st.backup[k] \in Backup /\ st.backup[k].start <= st.backup[k].stop
    BY <2>2, <2>4, BackupsOfReply
  <2>7. \A x, y : <<x, y>>[1] = x
    OBVIOUS
  <2>8. \A X, Y : \A v \in X \X Y : v[1] \in X
    OBVIOUS
  <2>9. CASE p = "stanza"
    <3>1. s.vector[1] \in {"stanza", "stanza_backup", "stanza_restore"}
      BY <2>5, <2>7, <2>8, <2>9 DEF Vectors
    <3>2. QED
      BY <2>3, <2>9, <3>1, StanzaSays DEF Shows
  <2>10. CASE p = "repo"
    <3>1. s.vector[1] = "repo"
      BY <2>5, <2>7, <2>10 DEF Vectors
    <3>2. j \in DOMAIN Repos(st)
      BY <2>10 DEF Lists
    <3>3. QED
      BY <2>3, <2>10, <3>1, <3>2, RepoOne DEF Shows
  <2>11. CASE p = "wal"
    <3>1. s.vector[1] = "wal"
      BY <2>5, <2>7, <2>11 DEF Vectors
    <3>2. j \in DOMAIN st.archive /\ s \in WALSeries(st, st.archive[j])
      BY <2>3, <2>11 DEF Lists, Shows
    <3>3. s.labels["stanza"] = st.name /\ SaysArchive(s, st, st.archive[j])
      <4> DEFINE a == st.archive[j]
      <4>1. /\ s.labels["database_id"] = Itoa(a.id) /\ s.labels["stanza"] = st.name
            /\ s.labels["pg_version"] = getPGVersion(a.id, a.repo, st.db)
            /\ s.labels["repo_key"] = Itoa(a.repo)
            /\ <<s.labels["wal_min"], s.labels["wal_max"]>> \in {<<"", "">>, <<a.min, a.max>>}
        <5>1. s \in WALSeries(st, a)
          BY <3>2
        <5> HIDE DEF a, st
        <5>2. QED
          BY <5>1, WALLabels, Zenon
      <4>2. SaysVersion(s, st, a.id, a.repo)
        BY <2>4, <4>1, VersionSaid
      <4>3. QED
        BY <4>1, <4>2 DEF SaysArchive
    <3>4. QED
      BY <3>1, <3>2, <3>3
  <2>12. CASE p = "backup"
    <3>1. s.vector[1] = "backup"
      BY <2>5, <2>8, <2>12 DEF Vectors
    <3>2. j \in DOMAIN st.backup /\ s \in BackupSeries(st, st.backup[j])
      BY <2>3, <2>12 DEF Lists, Shows
    <3>3. s.labels["stanza"] = st.name /\ SaysBackup(s, st, st.backup[j])
      BY <2>4, <2>6, <3>2, BackupSays
    <3>4. QED
      BY <3>1, <3>2, <3>3
  <2>13. CASE p = "last"
    <3>1. s.vector[1] = "last"
      BY <2>5, <2>8, <2>13 DEF Vectors
    <3>2. j \in DOMAIN Slots(st) /\ s \in LastSeriesOf(st, Slots(st)[j])
      BY <2>3, <2>13 DEF Lists, Shows
    <3>3. PICK k \in DOMAIN st.backup :
            Slots(st)[j] = [type |-> <<"full", "diff", "incr">>[j], backup |-> st.backup[k]]
      BY <2>4, <3>2, SlotsFilled
    <3>4. Slots(st)[j].backup \in Backup
      BY <2>6, <3>3
    <3>5. s.labels["stanza"] = st.name /\ SaysLast(s, Slots(st)[j])
      BY <3>2, <3>4, LastSays
    <3>6. QED
      BY <3>1, <3>2, <3>5
  <2>14. CASE p = "databases"
    <3>1. s.vector = <<"backup", "databases">>
      BY <2>5, <2>14 DEF Vectors
    <3>2. s.vector[1] = "backup" /\ s.vector[2] = "databases"
      BY <3>1
    <3>3. j \in DOMAIN st.backup /\ CommonOf(st, st.backup[j], s)
      <4>1. j \in DOMAIN st.backup
        BY <2>14 DEF Lists
      <4>2. PICK value : new = processSpecificBackupData(st, st.backup[j], value)
        BY <2>3, <2>14 DEF Shows
      <4>3. QED
        BY <2>3, <4>1, <4>2, CountLabels
    <3>4. s.labels["stanza"] = st.name /\ SaysBackup(s, st, st.backup[j])
      BY <3>2, <3>3 DEF SaysBackup, CommonOf
    <3>5. QED
      BY <3>2, <3>3, <3>4
  <2>15. QED
    BY <2>9, <2>10, <2>11, <2>12, <2>13, <2>14 DEF Phase
<1>4. QED
  BY <1>1, <1>2, <1>3, PlaceInit, PTL DEF Spec
===============================================================================
