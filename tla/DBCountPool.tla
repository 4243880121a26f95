----------------------------- MODULE DBCountPool -----------------------------
(***************************************************************************)
(* getBackupDBCountMetrics: one goroutine per backup runs                  *)
(* `pgbackrest info --set' and sets pgbackrest_backup_databases.  A        *)
(* buffered channel is the semaphore that bounds how many run at once, a   *)
(* WaitGroup is what the caller waits on before it returns.                *)
(*                                                                         *)
(* Backups are the positions of the stanza's backup list.  The label set   *)
(* of the series names the backup (label, type, block_incr, database id,   *)
(* repo key), so a position stands for its label set.                      *)
(***************************************************************************)
EXTENDS Integers, FiniteSets

CONSTANTS
  NumBackups,            \* length of the stanza's backup list
  MaxParallelProcesses,  \* flag database-parallel-processes, the channel's capacity
  DatabaseRef            \* DatabaseRef[b] = databases pgBackRest reports for b

Backups == 1..NumBackups

ASSUME NumBackupsAssumption  == NumBackups \in Nat
ASSUME ParallelismAssumption == MaxParallelProcesses \in Nat
ASSUME DatabaseRefAssumption == DatabaseRef \in [Backups -> Nat]

VARIABLES
  pc,        \* the calling goroutine
  next,      \* the position its loop has reached
  ch,        \* tokens in the channel
  wg,        \* the WaitGroup's counter
  worker,    \* worker[b] = where the goroutine of backup b is
  value,     \* value[b] = metricValue, its local result
  series     \* pgbackrest_backup_databases

vars == <<pc, next, ch, wg, worker, value, series>>

NoValue == -1

-----------------------------------------------------------------------------
Init == /\ pc = "range"
        /\ next = 1
        /\ ch = 0
        /\ wg = 0
        /\ worker = [b \in Backups |-> "none"]
        /\ value = [b \in Backups |-> NoValue]
        /\ series = [b \in Backups |-> NoValue]

\* Defect: the channel has room for one more.
AcquireOneMore ==
  /\ pc = "range" /\ next <= NumBackups
  /\ ch <= MaxParallelProcesses
  /\ ch' = ch + 1
  /\ pc' = "spawn"
  /\ UNCHANGED <<next, wg, worker, value, series>>

\* Defect: the loop runs one past the list.
AcquirePastEnd ==
  /\ pc = "range" /\ next <= NumBackups + 1
  /\ ch < MaxParallelProcesses
  /\ ch' = ch + 1
  /\ pc' = "spawn"
  /\ UNCHANGED <<next, wg, worker, value, series>>

\* `ch <- struct{}{}' blocks while the buffer is full.  A channel of capacity 0
\* has no buffer: a send needs a receiver, and the only receivers are the
\* goroutines this very loop starts, so it never proceeds.
Acquire ==
  /\ pc = "range" /\ next <= NumBackups
  /\ ch < MaxParallelProcesses
  /\ ch' = ch + 1
  /\ pc' = "spawn"
  /\ UNCHANGED <<next, wg, worker, value, series>>

\* Defect: wg.Add is missing.
SpawnWithoutAdd ==
  /\ pc = "spawn"
  /\ worker' = [worker EXCEPT ![next] = "exec"]
  /\ next' = next + 1
  /\ pc' = "range"
  /\ UNCHANGED <<ch, wg, value, series>>

Spawn ==
  /\ pc = "spawn"
  /\ wg' = wg + 1
  /\ worker' = [worker EXCEPT ![next] = "exec"]
  /\ next' = next + 1
  /\ pc' = "range"
  /\ UNCHANGED <<ch, value, series>>

RangeEnd ==
  /\ pc = "range" /\ next > NumBackups
  /\ pc' = "wait"
  /\ UNCHANGED <<next, ch, wg, worker, value, series>>

\* Defect: wg.Wait is missing.
ReturnWithoutWait ==
  /\ pc = "wait"
  /\ pc' = "returned"
  /\ UNCHANGED <<next, ch, wg, worker, value, series>>

\* wg.Wait() returns when the counter is zero.
Return ==
  /\ pc = "wait" /\ wg = 0
  /\ pc' = "returned"
  /\ UNCHANGED <<next, ch, wg, worker, value, series>>

\* getParsedSpecificBackupInfoData: pgBackRest exits.  An error, unreadable JSON
\* or a reply without the backup or its database list leaves the value at 0.
Fetch(b) ==
  /\ worker[b] = "exec"
  /\ \E v \in {0, DatabaseRef[b]} : value' = [value EXCEPT ![b] = v]
  /\ worker' = [worker EXCEPT ![b] = "set"]
  /\ UNCHANGED <<pc, next, ch, wg, series>>

\* Defect: the goroutine takes its labels from the loop variable.
SetMetricOfLoopVariable(b) ==
  /\ worker[b] = "set"
  /\ series' = [series EXCEPT ![next - 1] = value[b]]
  /\ worker' = [worker EXCEPT ![b] = "defer"]
  /\ UNCHANGED <<pc, next, ch, wg, value>>

SetMetric(b) ==
  /\ worker[b] = "set"
  /\ series' = [series EXCEPT ![b] = value[b]]
  /\ worker' = [worker EXCEPT ![b] = "defer"]
  /\ UNCHANGED <<pc, next, ch, wg, value>>

\* Defect: a token is taken back here, and again by the deferred receive.
DoneTakesToken(b) ==
  /\ worker[b] = "defer" /\ ch > 0
  /\ wg' = wg - 1 /\ ch' = ch - 1
  /\ worker' = [worker EXCEPT ![b] = "release"]
  /\ UNCHANGED <<pc, next, value, series>>

\* The deferred function: wg.Done(), then the token is taken back.
Done(b) ==
  /\ worker[b] = "defer"
  /\ wg' = wg - 1
  /\ worker' = [worker EXCEPT ![b] = "release"]
  /\ UNCHANGED <<pc, next, ch, value, series>>

\* Defect: the deferred receive is missing.
ExitWithToken(b) ==
  /\ worker[b] = "release"
  /\ worker' = [worker EXCEPT ![b] = "exited"]
  /\ UNCHANGED <<pc, next, ch, wg, value, series>>

Release(b) ==
  /\ worker[b] = "release"
  /\ ch > 0
  /\ ch' = ch - 1
  /\ worker' = [worker EXCEPT ![b] = "exited"]
  /\ UNCHANGED <<pc, next, wg, value, series>>

Caller    == Acquire \/ Spawn \/ RangeEnd \/ Return
Worker(b) == Fetch(b) \/ SetMetric(b) \/ Done(b) \/ Release(b)

\* The call is over and so are its goroutines.
Terminated ==
  /\ pc = "returned" /\ \A b \in Backups : worker[b] = "exited"
  /\ UNCHANGED vars

Next == Caller \/ (\E b \in Backups : Worker(b)) \/ Terminated

\* The Go scheduler runs every goroutine that can run, and every pgBackRest
\* process exits (Fetch is fair): the code sets no timeout of its own.
Spec == /\ Init /\ [][Next]_vars
        /\ WF_vars(Caller)
        /\ \A b \in Backups : WF_vars(Worker(b))

-----------------------------------------------------------------------------
TypeOK ==
  /\ pc \in {"range", "spawn", "wait", "returned"}
  /\ next \in 1..(NumBackups + 1)
  /\ ch \in Nat
  /\ wg \in Int
  /\ worker \in [Backups -> {"none", "exec", "set", "defer", "release", "exited"}]
  /\ value  \in [Backups -> Nat \cup {NoValue}]
  /\ series \in [Backups -> Nat \cup {NoValue}]

Running    == {b \in Backups : worker[b] = "exec"}
HasToken   == {b \in Backups : worker[b] \in {"exec", "set", "defer", "release"}}
NotDone    == {b \in Backups : worker[b] \in {"exec", "set", "defer"}}

\* Never more pgBackRest processes than the flag allows (README: "number of
\* parallel processes").
ParallelismBounded == Cardinality(Running) <= MaxParallelProcesses

\* Every token in the channel belongs to a goroutine that will take it back, or
\* to the one about to be started; so the receive in the deferred function
\* finds a token and a finished goroutine never hangs.
TokensAccounted ==
  ch = Cardinality(HasToken) + (IF pc = "spawn" THEN 1 ELSE 0)

\* wg.Add comes before the goroutine that calls wg.Done: the counter is the
\* number of goroutines still at work and never goes negative (a panic).
WaitGroupAccounted == wg = Cardinality(NotDone)

\* When the call returns every backup of the list has its series, with the value
\* fetched for that very backup (0 if the fetch failed).
CompleteOnReturn ==
  pc = "returned" => \A b \in Backups : series[b] \in {0, DatabaseRef[b]}

\* After the return no goroutine touches the metric any more: a later reset is
\* final.
NoWriteAfterReturn == [][pc = "returned" => UNCHANGED series]_vars

\* The call returns, and every goroutine it started exits.
Returns    == <>(pc = "returned")
NoLeak     == \A b \in Backups : worker[b] = "exec" ~> worker[b] = "exited"

\* What the caller may rely on, without goroutines.
Batch == INSTANCE DBCountBatch WITH returned <- pc = "returned"

ImplementsBatch == Batch!Spec
=============================================================================
