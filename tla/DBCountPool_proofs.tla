-------------------------- MODULE DBCountPool_proofs --------------------------
(***************************************************************************)
(* For every number of backups, every capacity of the channel and every    *)
(* interleaving: the pool never runs more pgBackRest processes than the    *)
(* flag allows, its counters agree with its goroutines, and it implements  *)
(* the batch its caller relies on.                                         *)
(***************************************************************************)
EXTENDS DBCountPool, FiniteSetTheorems, TLAPS

USE NumBackupsAssumption, ParallelismAssumption, DatabaseRefAssumption

\* The goroutines started so far are those before `next'; a goroutine's value and
\* series follow from where it is.
Progress ==
  /\ \A b \in Backups : worker[b] = "none" <=> b >= next
  /\ pc = "spawn" => next \in Backups
  /\ pc \in {"wait", "returned"} => next = NumBackups + 1
  /\ \A b \in Backups :
       /\ worker[b] \in {"none", "exec"} => value[b] = NoValue
       /\ worker[b] \in {"none", "exec", "set"} => series[b] = NoValue
       /\ worker[b] \notin {"none", "exec"} => value[b] \in {0, DatabaseRef[b]}
       /\ worker[b] \notin {"none", "exec", "set"} => series[b] = value[b]

\* No goroutine is at work once the caller has seen the counter at zero.
AllDoneOnReturn == pc = "returned" => NotDone = {}

IInv == /\ TypeOK
        /\ Progress
        /\ TokensAccounted
        /\ ch <= MaxParallelProcesses
        /\ WaitGroupAccounted
        /\ AllDoneOnReturn

-----------------------------------------------------------------------------
\* Sets of backups are finite, so their cardinalities are numbers.
LEMMA SubsetsFinite ==
  ASSUME NEW S, S \subseteq Backups
  PROVE  IsFiniteSet(S) /\ Cardinality(S) \in Nat
<1>1. IsFiniteSet(Backups)
  BY FS_Interval DEF Backups
<1>2. IsFiniteSet(S)
  BY <1>1, FS_Subset
<1>3. QED
  BY <1>2, FS_CardinalityType

\* A goroutine inside pgBackRest holds a token.
LEMMA SetsTyped ==
  ASSUME TypeOK
  PROVE  /\ Running \subseteq HasToken /\ HasToken \subseteq Backups
         /\ NotDone \subseteq Backups
  BY DEF Running, HasToken, NotDone, TypeOK

\* Types are kept; the loop index stays in the list because Spawn runs only after
\* Acquire has seen a backup there.
LEMMA TypeStep ==
  ASSUME TypeOK, Progress, [Next]_vars
  PROVE  TypeOK'
<1>1. CASE Acquire
  BY <1>1 DEF Acquire, TypeOK
<1>2. CASE Spawn
  <2>1. next \in Backups
    BY <1>2 DEF Spawn, Progress
  <2>2. next + 1 \in 1..(NumBackups + 1)
    BY <2>1 DEF Backups
  <2>3. next' \in 1..(NumBackups + 1)
    BY <1>2, <2>2 DEF Spawn
  <2>4. wg' \in Int
    BY <1>2 DEF Spawn, TypeOK
  <2>5. worker' \in [Backups -> {"none", "exec", "set", "defer", "release", "exited"}]
    BY <1>2 DEF Spawn, TypeOK
  <2>6. pc' \in {"range", "spawn", "wait", "returned"}
    BY <1>2 DEF Spawn
  <2>7. QED
    BY <1>2, <2>3, <2>4, <2>5, <2>6 DEF Spawn, TypeOK
<1>3. CASE RangeEnd
  BY <1>3 DEF RangeEnd, TypeOK
<1>4. CASE Return
  BY <1>4 DEF Return, TypeOK
<1>5. ASSUME NEW b \in Backups, Fetch(b) PROVE TypeOK'
  BY <1>5 DEF Fetch, TypeOK
<1>6. ASSUME NEW b \in Backups, SetMetric(b) PROVE TypeOK'
  BY <1>6 DEF SetMetric, TypeOK
<1>7. ASSUME NEW b \in Backups, Done(b) PROVE TypeOK'
  BY <1>7 DEF Done, TypeOK
<1>8. ASSUME NEW b \in Backups, Release(b) PROVE TypeOK'
  BY <1>8 DEF Release, TypeOK
<1>9. CASE UNCHANGED vars
  BY <1>9 DEF vars, TypeOK
<1>10. QED
  BY <1>1, <1>2, <1>3, <1>4, <1>5, <1>6, <1>7, <1>8, <1>9
     DEF Next, Caller, Worker, Terminated

\* A goroutine's value and series follow from where it is.
LEMMA ProgressStep ==
  ASSUME TypeOK, Progress, [Next]_vars
  PROVE  Progress'
<1>1. CASE Acquire
  BY <1>1 DEF Acquire, TypeOK, Progress, Backups, NoValue
<1>2. CASE Spawn
  BY <1>2 DEF Spawn, TypeOK, Progress, Backups, NoValue
<1>3. CASE RangeEnd
  BY <1>3 DEF RangeEnd, TypeOK, Progress, Backups, NoValue
<1>4. CASE Return
  BY <1>4 DEF Return, TypeOK, Progress, Backups, NoValue
<1>5. ASSUME NEW b \in Backups, Fetch(b) PROVE Progress'
  BY <1>5 DEF Fetch, TypeOK, Progress, Backups, NoValue
<1>6. ASSUME NEW b \in Backups, SetMetric(b) PROVE Progress'
  BY <1>6 DEF SetMetric, TypeOK, Progress, Backups, NoValue
<1>7. ASSUME NEW b \in Backups, Done(b) PROVE Progress'
  BY <1>7 DEF Done, TypeOK, Progress, Backups, NoValue
<1>8. ASSUME NEW b \in Backups, Release(b) PROVE Progress'
  BY <1>8 DEF Release, TypeOK, Progress, Backups, NoValue
<1>9. CASE UNCHANGED vars
  BY <1>9 DEF vars, TypeOK, Progress, Backups, NoValue
<1>10. QED
  BY <1>1, <1>2, <1>3, <1>4, <1>5, <1>6, <1>7, <1>8, <1>9
     DEF Next, Caller, Worker, Terminated

\* A token more is in the channel exactly while a goroutine is being started.
LEMMA TokensStep ==
  ASSUME TypeOK, Progress, TokensAccounted, [Next]_vars
  PROVE  TokensAccounted'
<1>1. IsFiniteSet(HasToken)
  BY SetsTyped, SubsetsFinite
<1>2. ASSUME HasToken' = HasToken, ch' = ch, pc' = "spawn" <=> pc = "spawn"
      PROVE  TokensAccounted'
  BY <1>2 DEF TokensAccounted
<1>3. CASE Acquire
  <2>1. HasToken' = HasToken
    BY <1>3 DEF Acquire, HasToken
  <2>2. QED
    BY <1>3, <2>1, SetsTyped, SubsetsFinite DEF Acquire, TokensAccounted, TypeOK
<1>4. CASE Spawn
  <2>1. next \in Backups /\ worker[next] = "none"
    BY <1>4 DEF Spawn, Progress, Backups
  <2>2. HasToken' = HasToken \cup {next} /\ next \notin HasToken
    BY <1>4, <2>1 DEF Spawn, HasToken, TypeOK
  <2>3. Cardinality(HasToken') = Cardinality(HasToken) + 1
    BY <1>1, <2>2, FS_AddElement
  <2>4. QED
    BY <1>4, <2>3, SetsTyped, SubsetsFinite DEF Spawn, TokensAccounted, TypeOK
<1>5. CASE RangeEnd
  <2>1. HasToken' = HasToken
    BY <1>5 DEF RangeEnd, HasToken
  <2>2. QED
    BY <1>5, <1>2, <2>1 DEF RangeEnd
<1>6. CASE Return
  <2>1. HasToken' = HasToken
    BY <1>6 DEF Return, HasToken
  <2>2. QED
    BY <1>6, <1>2, <2>1 DEF Return
<1>7. ASSUME NEW b \in Backups, Fetch(b) \/ SetMetric(b) \/ Done(b)
      PROVE  TokensAccounted'
  <2>1. HasToken' = HasToken
    BY <1>7 DEF Fetch, SetMetric, Done, HasToken, TypeOK
  <2>2. QED
    BY <1>7, <1>2, <2>1 DEF Fetch, SetMetric, Done
<1>8. ASSUME NEW b \in Backups, Release(b) PROVE TokensAccounted'
  <2>1. HasToken' = HasToken \ {b} /\ b \in HasToken
    BY <1>8 DEF Release, HasToken, TypeOK
  <2>2. Cardinality(HasToken') = Cardinality(HasToken) - 1
    BY <1>1, <2>1, FS_RemoveElement
  <2>3. QED
    BY <1>8, <2>2, SetsTyped, SubsetsFinite DEF Release, TokensAccounted, TypeOK
<1>9. CASE UNCHANGED vars
  <2>1. HasToken' = HasToken
    BY <1>9 DEF vars, HasToken
  <2>2. QED
    BY <1>9, <1>2, <2>1 DEF vars
<1>10. QED
  BY <1>3, <1>4, <1>5, <1>6, <1>7, <1>8, <1>9 DEF Next, Caller, Worker, Terminated

\* wg.Add and wg.Done keep the counter at the number of goroutines at work.
LEMMA WaitGroupStep ==
  ASSUME TypeOK, Progress, WaitGroupAccounted, [Next]_vars
  PROVE  WaitGroupAccounted'
<1>1. IsFiniteSet(NotDone)
  BY SetsTyped, SubsetsFinite
<1>2. ASSUME NotDone' = NotDone, wg' = wg PROVE WaitGroupAccounted'
  BY <1>2 DEF WaitGroupAccounted
<1>3. CASE Acquire \/ RangeEnd \/ Return \/ UNCHANGED vars
  <2>1. NotDone' = NotDone /\ wg' = wg
    BY <1>3 DEF Acquire, RangeEnd, Return, vars, NotDone
  <2>2. QED
    BY <1>2, <2>1
<1>4. CASE Spawn
  <2>1. next \in Backups /\ worker[next] = "none"
    BY <1>4 DEF Spawn, Progress, Backups
  <2>2. NotDone' = NotDone \cup {next} /\ next \notin NotDone
    BY <1>4, <2>1 DEF Spawn, NotDone, TypeOK
  <2>3. Cardinality(NotDone') = Cardinality(NotDone) + 1
    BY <1>1, <2>2, FS_AddElement
  <2>4. QED
    BY <1>4, <2>3 DEF Spawn, WaitGroupAccounted
<1>5. ASSUME NEW b \in Backups, Fetch(b) \/ SetMetric(b) \/ Release(b)
      PROVE  WaitGroupAccounted'
  <2>1. NotDone' = NotDone /\ wg' = wg
    BY <1>5 DEF Fetch, SetMetric, Release, NotDone, TypeOK
  <2>2. QED
    BY <1>2, <2>1
<1>6. ASSUME NEW b \in Backups, Done(b) PROVE WaitGroupAccounted'
  <2>1. NotDone' = NotDone \ {b} /\ b \in NotDone
    BY <1>6 DEF Done, NotDone, TypeOK
  <2>2. Cardinality(NotDone') = Cardinality(NotDone) - 1
    BY <1>1, <2>1, FS_RemoveElement
  <2>3. QED
    BY <1>6, <2>2 DEF Done, WaitGroupAccounted
<1>7. QED
  BY <1>3, <1>4, <1>5, <1>6 DEF Next, Caller, Worker, Terminated

\* wg.Wait returns with nobody at work, and nobody is started afterwards.
LEMMA AllDoneStep ==
  ASSUME TypeOK, Progress, WaitGroupAccounted, AllDoneOnReturn, [Next]_vars
  PROVE  AllDoneOnReturn'
<1>1. CASE Return
  <2>1. IsFiniteSet(NotDone)
    BY SetsTyped, SubsetsFinite
  <2>2. NotDone = {}
    BY <1>1, <2>1, FS_EmptySet DEF Return, WaitGroupAccounted
  <2>3. QED
    BY <1>1, <2>2 DEF Return, AllDoneOnReturn, NotDone
<1>2. CASE Acquire \/ Spawn \/ RangeEnd
  BY <1>2 DEF Acquire, Spawn, RangeEnd, AllDoneOnReturn
<1>3. ASSUME NEW b \in Backups, Worker(b) PROVE AllDoneOnReturn'
  <2>1. NotDone' \subseteq NotDone /\ pc' = pc
    BY <1>3 DEF Worker, Fetch, SetMetric, Done, Release, NotDone, TypeOK
  <2>2. QED
    BY <2>1 DEF AllDoneOnReturn
<1>4. CASE UNCHANGED vars
  BY <1>4 DEF vars, AllDoneOnReturn, NotDone
<1>5. QED
  BY <1>1, <1>2, <1>3, <1>4 DEF Next, Caller, Terminated

\* The inductive invariant.
THEOREM Invariance == Spec => []IInv
<1>1. Init => IInv
  <2> SUFFICES ASSUME Init PROVE IInv
    OBVIOUS
  <2>1. TypeOK
    BY DEF Init, TypeOK, NoValue
  <2>2. Progress
    BY DEF Init, Progress, Backups
  <2>3. HasToken = {} /\ NotDone = {}
    BY DEF Init, HasToken, NotDone
  <2>4. TokensAccounted /\ WaitGroupAccounted
    BY <2>3, FS_EmptySet DEF Init, TokensAccounted, WaitGroupAccounted
  <2>5. QED
    BY <2>1, <2>2, <2>3, <2>4 DEF Init, IInv, AllDoneOnReturn
<1>2. IInv /\ [Next]_vars => IInv'
  <2> SUFFICES ASSUME IInv, [Next]_vars PROVE IInv'
    OBVIOUS
  <2>1. TypeOK' /\ Progress'
    BY TypeStep, ProgressStep DEF IInv
  <2>2. TokensAccounted' /\ WaitGroupAccounted' /\ AllDoneOnReturn'
    BY TokensStep, WaitGroupStep, AllDoneStep DEF IInv
  <2>3. (ch <= MaxParallelProcesses)'
    BY DEF IInv, TypeOK, Next, vars, Caller, Worker, Terminated, Acquire, Spawn,
           RangeEnd, Return, Fetch, SetMetric, Done, Release
  <2>4. QED
    BY <2>1, <2>2, <2>3 DEF IInv
<1>3. QED
  BY <1>1, <1>2, PTL DEF Spec

-----------------------------------------------------------------------------
\* Type correctness of the pool: the loop index, the counters and the
\* goroutines' states.
THEOREM TypeCorrect == Spec => []TypeOK
<1>1. IInv => TypeOK
  BY DEF IInv
<1>2. QED
  BY <1>1, Invariance, PTL

\* The semaphore works: never more pgBackRest processes than the flag
\* database-parallel-processes allows.
THEOREM Parallelism == Spec => []ParallelismBounded
<1>1. IInv => ParallelismBounded
  <2> SUFFICES ASSUME IInv PROVE ParallelismBounded
    OBVIOUS
  <2>1. IsFiniteSet(HasToken) /\ Running \subseteq HasToken
    BY SetsTyped, SubsetsFinite DEF IInv
  <2>2. Cardinality(Running) <= Cardinality(HasToken)
    BY <2>1, FS_Subset
  <2>3. Cardinality(Running) \in Nat /\ Cardinality(HasToken) \in Nat
    BY SetsTyped, SubsetsFinite DEF IInv
  <2>4. Cardinality(HasToken) <= ch
    BY <2>3 DEF IInv, TokensAccounted
  <2>5. QED
    BY <2>2, <2>3, <2>4 DEF IInv, TypeOK, ParallelismBounded
<1>2. QED
  BY <1>1, Invariance, PTL

\* Every token is owned by a goroutine that gives it back, so the receive in the
\* deferred function never blocks.
THEOREM Tokens == Spec => []TokensAccounted
<1>1. IInv => TokensAccounted
  BY DEF IInv
<1>2. QED
  BY <1>1, Invariance, PTL

\* The WaitGroup counts the goroutines at work and so never goes negative.
THEOREM WaitGroup == Spec => []WaitGroupAccounted
<1>1. IInv => WaitGroupAccounted
  BY DEF IInv
<1>2. QED
  BY <1>1, Invariance, PTL

\* Once the counter is zero after the loop, every series has its fetched value.
LEMMA ReturnedComplete ==
  ASSUME IInv, pc = "returned" \/ (pc = "wait" /\ wg = 0)
  PROVE  \A b \in Backups : series[b] = value[b] /\ value[b] \in {0, DatabaseRef[b]}
<1>1. NotDone = {}
  <2>1. IsFiniteSet(NotDone)
    BY SetsTyped, SubsetsFinite DEF IInv
  <2>2. QED
    BY <2>1, FS_EmptySet DEF IInv, AllDoneOnReturn, WaitGroupAccounted
<1>2. \A b \in Backups : worker[b] \notin {"none", "exec", "set"}
  BY <1>1 DEF IInv, Progress, NotDone, Backups
<1>3. QED
  BY <1>2 DEF IInv, Progress

\* The call returns only when every backup of the list has its series, holding what
\* was fetched for that backup.
THEOREM Completeness == Spec => []CompleteOnReturn
<1>1. IInv => CompleteOnReturn
  BY ReturnedComplete DEF CompleteOnReturn
<1>2. QED
  BY <1>1, Invariance, PTL

\* No goroutine writes the metric once the call has returned, so the reset of the
\* next cycle is final.
THEOREM NoLateWrite == Spec => NoWriteAfterReturn
<1>1. IInv /\ [Next]_vars => [pc = "returned" => UNCHANGED series]_vars
  <2> SUFFICES ASSUME IInv, [Next]_vars, pc = "returned" PROVE UNCHANGED series
    OBVIOUS
  <2>1. \A b \in Backups : worker[b] # "set"
    BY DEF IInv, AllDoneOnReturn, NotDone
  <2>2. QED
    BY <2>1 DEF Next, vars, Caller, Worker, Terminated, Acquire, Spawn, RangeEnd,
                Return, Fetch, SetMetric, Done, Release
<1>2. QED
  BY <1>1, Invariance, PTL DEF Spec, NoWriteAfterReturn

\* The pool implements the batch: every step of a goroutine or of the caller is a
\* report, the return, or invisible.
THEOREM PoolImplementsBatch == Spec => Batch!SafeSpec
<1>1. Init => Batch!Init
  BY DEF Init, Batch!Init, Backups, NoValue, Batch!NoValue
<1>2. IInv /\ [Next]_vars => [Batch!Next]_(Batch!batchVars)
  <2> SUFFICES ASSUME IInv, [Next]_vars PROVE [Batch!Next]_(Batch!batchVars)
    OBVIOUS
  <2> USE DEF Batch!batchVars, Batch!Next
  <2>1. CASE Return
    <3>1. \A b \in 1..NumBackups : series[b] # Batch!NoValue
      BY <2>1, ReturnedComplete DEF Return, Batch!NoValue, Backups
    <3>2. QED
      BY <2>1, <3>1 DEF Return, Batch!Return
  <2>2. CASE Acquire \/ Spawn \/ RangeEnd \/ UNCHANGED vars
    BY <2>2 DEF Acquire, Spawn, RangeEnd, vars
  <2>3. ASSUME NEW b \in Backups, SetMetric(b) PROVE Batch!Next
    <3>1. series[b] = Batch!NoValue /\ value[b] \in {0, DatabaseRef[b]}
      BY <2>3 DEF SetMetric, IInv, Progress, NoValue, Batch!NoValue
    <3>2. pc # "returned"
      BY <2>3 DEF SetMetric, IInv, AllDoneOnReturn, NotDone
    <3>3. Batch!Report(b)
      BY <2>3, <3>1, <3>2 DEF SetMetric, Batch!Report
    <3>4. QED
      BY <3>3 DEF Backups
  <2>4. ASSUME NEW b \in Backups, Fetch(b) \/ Done(b) \/ Release(b)
        PROVE  UNCHANGED Batch!batchVars
    BY <2>4 DEF Fetch, Done, Release
  <2>5. QED
    BY <2>1, <2>2, <2>3, <2>4 DEF Next, Caller, Worker, Terminated
<1>3. QED
  BY <1>1, <1>2, Invariance, PTL DEF Spec, Batch!SafeSpec
=============================================================================
