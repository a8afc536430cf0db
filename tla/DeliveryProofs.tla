--------------------------- MODULE DeliveryProofs ---------------------------
(***************************************************************************)
(* What queue mode promises of jobs, backoffs, attempts and dead letters.  *)
(* Inductive invariants on top of SafeInv: which tasks are dead letters    *)
(* (always), where the job of a task can be (as long as the list delivers  *)
(* it once), what a promoter has in its hands (as long as there is one),   *)
(* and who works on a task (as long as leases outlast the work and one     *)
(* reaper runs).                                                           *)
(***************************************************************************)
EXTENDS SchedulerProofs, FiniteSetTheorems

-----------------------------------------------------------------------------
(* The dead letters.                                                       *)

DeadLettered(t) == \E i \in DOMAIN dlq : dlq[i] = t
Burying(a, t) == pc[a] = "dlq" /\ pass[a].task = t

\* Only exhausted tasks have used more attempts than they may, they are on
\* their way to the list in one place, and are in it once.
DeadLetterInv ==
  /\ \A t \in Tasks : attempts[t] > MaxRetries => status[t] = "FAILED"
  /\ \A t \in Tasks : DeadLettered(t) \/ (\E a \in Actors : Burying(a, t)) => attempts[t] > MaxRetries
  /\ \A t \in Tasks : DeadLettered(t) => \A a \in Actors : ~Burying(a, t)
  /\ \A t \in Tasks : \A a, b \in Actors : Burying(a, t) /\ Burying(b, t) => a = b
  /\ \A i, j \in DOMAIN dlq : dlq[i] = dlq[j] => i = j

\* None of them is lost, unless an actor may die before it has recorded it.
AllBuried ==
  "dlq" \notin CrashPoints =>
    \A t \in Tasks : attempts[t] > MaxRetries => DeadLettered(t) \/ \E a \in Actors : Burying(a, t)

\* What most steps leave alone.
DeadQuiet ==
  /\ attempts' = attempts /\ dlq' = dlq
  /\ \A a \in Actors : pc'[a] = "dlq" => pc[a] = "dlq" /\ pass'[a] = pass[a]
  /\ "dlq" \notin CrashPoints => \A a \in Actors : pc[a] = "dlq" => pc'[a] = "dlq" /\ pass'[a] = pass[a]

LEMMA DeadStays ==
  ASSUME Typed, RowsKept, DeadLetterInv, AllBuried, DeadQuiet
  PROVE  DeadLetterInv' /\ AllBuried'
<1>1. \A t \in Tasks : \A a \in Actors : Burying(a, t)' => Burying(a, t)
  BY DEF DeadQuiet, Burying
<1>2. \A t \in Tasks : DeadLettered(t)' <=> DeadLettered(t)
  BY DEF DeadQuiet, DeadLettered
<1>3. \A t \in Tasks : attempts'[t] = attempts[t] /\ (status[t] = "FAILED" => status'[t] = "FAILED")
  BY DEF DeadQuiet, RowsKept, Terminal
<1>4. DeadLetterInv'
  BY <1>1, <1>2, <1>3 DEF DeadLetterInv, DeadQuiet
<1>5. AllBuried'
  <2>1. "dlq" \notin CrashPoints => \A t \in Tasks : \A a \in Actors : Burying(a, t) => Burying(a, t)'
    BY DEF DeadQuiet, Burying
  <2> QED BY <1>2, <1>3, <2>1 DEF AllBuried
<1> QED BY <1>4, <1>5

LEMMA OtherDead ==
  ASSUME Typed, Next, ~ \E a \in Actors : \E x \in stale[a] : Retry(a, x) \/ Exhaust(a, x),
         ~ \E a \in Actors : DeadLetter(a)
  PROVE  DeadQuiet
<1> USE DEF DeadQuiet
<1>0. pc \in [Actors -> ControlPoints] /\ pass \in [Actors -> Passes]
  BY DEF Typed, ActorsTyped
<1>1. CASE ApiStep
  BY <1>1 DEF ApiStep, CreateExecution, EnqueuePlan, ApiStops, Enqueue, taskVars, actorVars, queueVars
<1>2. ASSUME NEW a \in Actors, Drop(a), attempts' = attempts, dlq' = dlq,
             pc[a] = "dlq" => "dlq" \in CrashPoints
      PROVE  DeadQuiet
  BY <1>0, <1>2 DEF Drop
<1>3. ASSUME NEW a \in Actors, Return(a), attempts' = attempts, dlq' = dlq, pc[a] # "dlq"
      PROVE  DeadQuiet
  BY <1>0, <1>3 DEF Return
<1>4. CASE FaultStep
  <2>1. ASSUME NEW w \in Workers, PlanError(w) PROVE DeadQuiet
    <3>1. pc[w] # "dlq"
      BY <2>1, FaultsAssumption DEF PlanError, PlanPoints, PassPoints
    <3> QED BY <1>2, <2>1, <3>1 DEF PlanError, taskVars, queueVars, Actors
  <2>2. ASSUME NEW a \in Actors, Crash(a) PROVE DeadQuiet
    BY <1>2, <2>2 DEF Crash, taskVars, queueVars
  <2> QED BY <1>4, <2>1, <2>2 DEF FaultStep, PromoterCrash, PromoterStops, DuplicateDelivery, Redeliver,
          taskVars, actorVars
<1>5. ASSUME NEW w \in Workers, Dequeue(w) \/ PlanStep(w) PROVE DeadQuiet
  <2>1. CASE GuardPlan(w) /\ ~Unplanned(job[w].id)
    BY <1>2, <2>1 DEF GuardPlan, taskVars, queueVars, Actors
  <2>2. CASE ~(GuardPlan(w) /\ ~Unplanned(job[w].id))
    BY <1>0, <1>5, <2>2 DEF PlanStep, Dequeue, Pop, GuardPlan, InsertTasks, StartExecution, taskVars,
       queueVars, Actors
  <2> QED BY <2>1, <2>2
<1>6. ASSUME NEW w \in Workers, ExecuteStep(w) PROVE DeadQuiet
  <2>1. CASE Claim(w) /\ status[job[w].id] \notin Claimable
    BY <1>2, <2>1 DEF Claim, queueVars, Actors
  <2>2. CASE ~(Claim(w) /\ status[job[w].id] \notin Claimable)
    BY <1>0, <1>6, <2>2 DEF ExecuteStep, Claim, CheckResult, PersistSuccess, FailAttempt, taskVars,
       queueVars, Actors
  <2> QED BY <2>1, <2>2
<1>7. ASSUME NEW r \in Reapers, ReaperScan(r) PROVE DeadQuiet
  BY <1>0, <1>7 DEF ReaperScan, taskVars, queueVars, Actors
<1>8. ASSUME NEW a \in Actors, RecoverStep(a) PROVE DeadQuiet
  <2>1. ASSUME NEW x \in stale[a], Superseded(a, x) PROVE DeadQuiet
    BY <1>0, <2>1 DEF Superseded, AfterRecovery, taskVars, queueVars
  <2>2. CASE ScheduleRetry(a)
    BY <1>0, <2>2 DEF ScheduleRetry, ScheduleTask, AfterRecovery, taskVars
  <2> QED BY <1>8, <2>1, <2>2 DEF RecoverStep
<1>9. ASSUME NEW a \in Actors, PassStep(a) PROVE DeadQuiet
  <2>1. CASE FinalizeRead(a)
    BY <1>0, <1>3, <2>1 DEF FinalizeRead, LoopDone, taskVars, queueVars
  <2>2. CASE FinalizeWrite(a)
    BY <1>3, <2>2 DEF FinalizeWrite, taskVars, queueVars
  <2>3. ASSUME NEW e \in affected[a], BeginPass(a, e) PROVE DeadQuiet
    BY <1>0, <2>3 DEF BeginPass, taskVars, queueVars
  <2>4. CASE RepeatPass(a)
    BY <1>0, <2>4 DEF RepeatPass, LoopDone, taskVars, queueVars
  <2>5. ASSUME NEW t \in pass[a].doomed, Cascade(a, t) PROVE DeadQuiet
    BY <1>0, <2>5 DEF Cascade, queueVars
  <2>6. ASSUME NEW t \in pass[a].ready, MarkEnqueued(a, t) PROVE DeadQuiet
    BY <1>0, <2>6 DEF MarkEnqueued, queueVars
  <2>7. CASE PushTask(a)
    BY <1>0, <2>7 DEF PushTask, Enqueue, taskVars
  <2> QED BY <1>9, <2>1, <2>2, <2>3, <2>4, <2>5, <2>6, <2>7 DEF PassStep
<1>10. ASSUME NEW p \in Promoters, PromoterStep(p) PROVE DeadQuiet
  BY <1>10 DEF PromoterStep, QueueStep, PromoteScan, PromoteRemove, PromotePush, taskVars, actorVars
<1>11. ASSUME NEW t \in Tasks, Elapse(t) PROVE DeadQuiet
  BY <1>11 DEF Elapse, QueueStep, BecomeDue, LeaseExpires, taskVars, actorVars, queueVars
<1> QED BY <1>1, <1>4, <1>5, <1>6, <1>7, <1>8, <1>9, <1>10, <1>11 DEF Next, WorkerStep, ReaperStep, Actors

LEMMA RetryDead ==
  ASSUME Typed, DeadLetterInv, AllBuried, NEW a \in Actors, NEW x \in stale[a], Retry(a, x)
  PROVE  DeadLetterInv' /\ AllBuried'
<1> DEFINE u == x.task
<1>1. u \in Tasks /\ AttemptsNew(x) \in Nat /\ AttemptsNew(x) <= MaxRetries
  BY DEF Retry, RetriesLeft, AttemptsNew, Typed, ActorsTyped, StaleReads
<1>2. /\ status[u] = "RUNNING"
      /\ status' = [status EXCEPT ![u] = "RETRYING"]
      /\ attempts' = [attempts EXCEPT ![u] = AttemptsNew(x)]
      /\ pc[a] = "recover" /\ pc' = [pc EXCEPT ![a] = "zadd"]
      /\ \A b \in Actors \ {a} : pass'[b] = pass[b]
      /\ dlq' = dlq
  BY DEF Retry, StillRunning, Typed, ActorsTyped, queueVars
<1> HIDE DEF u
<1>3. \A t \in Tasks : \A b \in Actors : Burying(b, t)' <=> Burying(b, t)
  BY <1>2 DEF Burying, Typed, ActorsTyped
<1>4. ~(attempts[u] > MaxRetries)
  BY <1>1, <1>2 DEF DeadLetterInv
<1>5. ~DeadLettered(u) /\ \A b \in Actors : ~Burying(b, u)
  BY <1>1, <1>4 DEF DeadLetterInv
<1>6. \A t \in Tasks : DeadLettered(t)' <=> DeadLettered(t)
  BY <1>2 DEF DeadLettered
<1>7. /\ \A t \in Tasks \ {u} : attempts'[t] = attempts[t] /\ status'[t] = status[t]
      /\ ~(attempts'[u] > MaxRetries)
  BY <1>1, <1>2, MaxRetriesAssumption DEF Typed, TablesTyped
<1>8. DeadLetterInv'
  BY <1>2, <1>3, <1>5, <1>6, <1>7 DEF DeadLetterInv
<1>9. AllBuried'
  BY <1>3, <1>6, <1>7 DEF AllBuried
<1> QED BY <1>8, <1>9

LEMMA ExhaustDead ==
  ASSUME Typed, DeadLetterInv, AllBuried, NEW a \in Actors, NEW x \in stale[a], Exhaust(a, x)
  PROVE  DeadLetterInv' /\ AllBuried'
<1> DEFINE u == x.task
<1>1. u \in Tasks /\ AttemptsNew(x) \in Nat /\ AttemptsNew(x) > MaxRetries
  BY MaxRetriesAssumption DEF Exhaust, RetriesLeft, AttemptsNew, Typed, ActorsTyped, StaleReads
<1>2. /\ status[u] = "RUNNING"
      /\ status' = [status EXCEPT ![u] = "FAILED"]
      /\ attempts' = [attempts EXCEPT ![u] = AttemptsNew(x)]
      /\ pc[a] = "recover" /\ pc' = [pc EXCEPT ![a] = "dlq"]
      /\ \A b \in Actors \ {a} : pass'[b] = pass[b]
      /\ pass'[a].task = u
      /\ dlq' = dlq
  BY DEF Exhaust, StillRunning, Typed, ActorsTyped, Passes, queueVars
<1> HIDE DEF u
<1>3. /\ \A t \in Tasks : \A b \in Actors \ {a} : Burying(b, t)' <=> Burying(b, t)
      /\ \A t \in Tasks : ~Burying(a, t) /\ (Burying(a, t)' <=> t = u)
  BY <1>2 DEF Burying, Typed, ActorsTyped
<1>4. ~(attempts[u] > MaxRetries)
  BY <1>1, <1>2 DEF DeadLetterInv
<1>5. ~DeadLettered(u) /\ \A b \in Actors : ~Burying(b, u)
  BY <1>1, <1>4 DEF DeadLetterInv
<1>6. \A t \in Tasks : DeadLettered(t)' <=> DeadLettered(t)
  BY <1>2 DEF DeadLettered
<1>7. /\ \A t \in Tasks \ {u} : attempts'[t] = attempts[t] /\ status'[t] = status[t]
      /\ attempts'[u] > MaxRetries /\ status'[u] = "FAILED"
  BY <1>1, <1>2 DEF Typed, TablesTyped
<1>8. DeadLetterInv'
  BY <1>2, <1>3, <1>5, <1>6, <1>7 DEF DeadLetterInv
<1>9. AllBuried'
  BY <1>1, <1>3, <1>6, <1>7 DEF AllBuried
<1> QED BY <1>8, <1>9

LEMMA BuryDead ==
  ASSUME Typed, DeadLetterInv, AllBuried, NEW a \in Actors, DeadLetter(a)
  PROVE  DeadLetterInv' /\ AllBuried'
<1> DEFINE u == pass[a].task
<1>1. u \in Tasks /\ Burying(a, u)
  BY DEF DeadLetter, Burying, Typed, PointsMatch
<1>2. /\ pc' = [pc EXCEPT ![a] = AfterRecovery(stale[a])] /\ pc'[a] # "dlq"
      /\ \A b \in Actors \ {a} : pass'[b] = pass[b]
      /\ dlq \in Seq(Tasks) /\ dlq' = Append(dlq, u)
      /\ attempts' = attempts /\ status' = status
  BY DEF DeadLetter, PushDeadLetter, AfterRecovery, Typed, ActorsTyped, QueueTypeOK, taskVars
<1> HIDE DEF u
<1>3. /\ \A i \in DOMAIN dlq : i \in DOMAIN dlq' /\ dlq'[i] = dlq[i]
      /\ \A i \in DOMAIN dlq' : i \in DOMAIN dlq \/ (i = Len(dlq) + 1 /\ dlq'[i] = u)
      /\ Len(dlq) + 1 \in DOMAIN dlq' /\ dlq'[Len(dlq) + 1] = u
  BY <1>1, <1>2
<1>4. \A t \in Tasks : DeadLettered(t)' <=> DeadLettered(t) \/ t = u
  BY <1>3 DEF DeadLettered
<1>5. /\ \A t \in Tasks : \A b \in Actors \ {a} : Burying(b, t)' <=> Burying(b, t)
      /\ \A t \in Tasks : ~Burying(a, t)'
      /\ \A t \in Tasks : Burying(a, t) => t = u
  BY <1>1, <1>2 DEF Burying, Typed, ActorsTyped
<1>6. ~DeadLettered(u)
  BY <1>1 DEF DeadLetterInv
<1>7. DeadLetterInv'
  <2>1. \A i, j \in DOMAIN dlq' : dlq'[i] = dlq'[j] => i = j
    BY <1>3, <1>6 DEF DeadLettered, DeadLetterInv
  <2> QED BY <1>1, <1>2, <1>4, <1>5, <2>1 DEF DeadLetterInv
<1>8. AllBuried'
  BY <1>2, <1>4, <1>5 DEF AllBuried
<1> QED BY <1>7, <1>8

LEMMA DeadStep == SafeInv /\ DeadLetterInv /\ AllBuried /\ [Next]_vars => DeadLetterInv' /\ AllBuried'
<1> SUFFICES ASSUME SafeInv, DeadLetterInv, AllBuried, [Next]_vars PROVE DeadLetterInv' /\ AllBuried'
  OBVIOUS
<1>1. CASE Next
  <2>1. Typed /\ RowsKept
    BY <1>1, RowsStep DEF SafeInv
  <2> QED BY <1>1, <2>1, OtherDead, DeadStays, RetryDead, ExhaustDead, BuryDead
<1>2. CASE UNCHANGED vars
  <2>1. RowsKept /\ DeadQuiet
    BY <1>2 DEF vars, taskVars, actorVars, queueVars, RowsKept, DeadQuiet
  <2> QED BY <2>1, DeadStays DEF SafeInv
<1> QED BY <1>1, <1>2

LEMMA DeadInvariant == Spec => [](SafeInv /\ DeadLetterInv /\ AllBuried)
<1>1. Init => DeadLetterInv /\ AllBuried
  BY MaxRetriesAssumption
  DEF Init, QueueInit, DeadLetterInv, AllBuried, DeadLettered, Burying
<1>2. SafeInv /\ [Next]_vars => SafeInv'
  BY SafeStep
<1> QED BY <1>1, <1>2, InitSafe, DeadStep, PTL DEF Spec

\* Only tasks that have used up their attempts are dead letters, each once.
THEOREM DeadLettersExhausted == Spec => []DeadLettersAreExhausted
<1>1. SafeInv /\ DeadLetterInv => DeadLettersAreExhausted
  BY DEF DeadLetterInv, DeadLettered, DeadLettersAreExhausted, SafeInv, Typed, QueueTypeOK
<1> QED BY <1>1, DeadInvariant, PTL

\* None is dropped: it is in the list, or about to be put there, as long as no
\* actor dies between committing the failure and recording it.
THEOREM NoDeadLetterLost ==
  ASSUME "dlq" \notin CrashPoints PROVE Spec => []ExhaustedAreDeadLettered
<1>1. AllBuried => ExhaustedAreDeadLettered
  BY DEF AllBuried, DeadLettered, Burying, ExhaustedAreDeadLettered
<1> QED BY <1>1, DeadInvariant, PTL
-----------------------------------------------------------------------------
(* Where the job of a task can be.                                         *)

\* The places Tokens counts, told apart.
Places(t) ==
  {<<"list", i>> : i \in {j \in DOMAIN queue : queue[j] = TaskJob(t)}}
  \cup {<<"moving", p>> : p \in {q \in Promoters : moving[q] = t}}
  \cup {<<"claim", w>> : w \in {v \in Workers : job[v] = TaskJob(t) /\ pc[v] = "claim"}}
  \cup {<<"send", a>> : a \in {b \in Actors : pc[b] \in {"push", "zadd"} /\ pass[b].task = t}}
  \cup {<<"delayed", u>> : u \in {t} \cap delayed}

\* A task has at most one job on its way, and none while it runs or before a
\* pass has marked it as enqueued.
OnePlace(t) ==
  /\ \A x, y \in Places(t) : x = y
  /\ status[t] = "RUNNING" \/ ~enqueued[t] => Places(t) = {}

DeliveryInv == \A t \in Tasks : OnePlace(t)

\* The steps that bring no job forward, and those that move one.
JobsGo ==
  \A t \in Tasks : /\ Places(t)' \subseteq Places(t)
                   /\ status'[t] = "RUNNING" => status[t] = "RUNNING" \/ Places(t)' = {}

LEMMA PlacesGo ==
  ASSUME DeliveryInv, RowsKept, JobsGo
  PROVE  DeliveryInv'
<1>1. \A t \in Tasks : enqueued[t] => enqueued'[t]
  BY DEF RowsKept
<1> QED BY <1>1 DEF DeliveryInv, OnePlace, JobsGo

LEMMA PlacesMove ==
  ASSUME DeliveryInv, RowsKept, NEW u \in Tasks, NEW y,
         Places(u)' \subseteq {y}, status'[u] # "RUNNING", enqueued'[u],
         \A t \in Tasks \ {u} : /\ Places(t)' \subseteq Places(t)
                                /\ status'[t] = "RUNNING" => status[t] = "RUNNING"
  PROVE  DeliveryInv'
<1>1. \A t \in Tasks : enqueued[t] => enqueued'[t]
  BY DEF RowsKept
<1> QED BY <1>1 DEF DeliveryInv, OnePlace

LEMMA PlaceCases ==
  ASSUME NEW t
  PROVE  \A y : y \in Places(t) <=>
           \/ \E i \in DOMAIN queue : queue[i] = TaskJob(t) /\ y = <<"list", i>>
           \/ \E p \in Promoters : moving[p] = t /\ y = <<"moving", p>>
           \/ \E w \in Workers : job[w] = TaskJob(t) /\ pc[w] = "claim" /\ y = <<"claim", w>>
           \/ \E a \in Actors : pc[a] \in {"push", "zadd"} /\ pass[a].task = t /\ y = <<"send", a>>
           \/ t \in delayed /\ y = <<"delayed", t>>
  BY DEF Places

\* The same, place by place.
LEMMA InPlace ==
  ASSUME NEW t
  PROVE  /\ \A i \in DOMAIN queue : queue[i] = TaskJob(t) => <<"list", i>> \in Places(t)
         /\ \A p \in Promoters : moving[p] = t => <<"moving", p>> \in Places(t)
         /\ \A w \in Workers : job[w] = TaskJob(t) /\ pc[w] = "claim" => <<"claim", w>> \in Places(t)
         /\ \A a \in Actors :
              pc[a] \in {"push", "zadd"} /\ pass[a].task = t => <<"send", a>> \in Places(t)
         /\ t \in delayed => <<"delayed", t>> \in Places(t)
  BY PlaceCases

LEMMA InitDelivery == Init => DeliveryInv
<1> SUFFICES ASSUME Init, NEW t \in Tasks PROVE Places(t) = {}
  BY DEF DeliveryInv, OnePlace
<1>1. \A p \in Promoters : moving[p] # t
  BY NoneAssumption DEF Init, QueueInit
<1>2. DOMAIN queue = {} /\ delayed = {} /\ \A a \in Actors : pc[a] = "idle"
  BY DEF Init, QueueInit
<1> QED BY <1>1, <1>2, PlaceCases DEF Actors
LEMMA PlacesAfter ==
  ASSUME NEW t, NEW S,
         \A i \in DOMAIN queue' : queue'[i] = TaskJob(t) => <<"list", i>> \in S,
         \A p \in Promoters : moving'[p] = t => <<"moving", p>> \in S,
         \A w \in Workers : job'[w] = TaskJob(t) /\ pc'[w] = "claim" => <<"claim", w>> \in S,
         \A a \in Actors : pc'[a] \in {"push", "zadd"} /\ pass'[a].task = t => <<"send", a>> \in S,
         t \in delayed' => <<"delayed", t>> \in S
  PROVE  Places(t)' \subseteq S
  BY DEF Places

\* What most steps do to the queue, and to what the actors are about to claim,
\* push or delay: nothing, or they give some of it up.
ListShrinks ==
  /\ \A i \in DOMAIN queue' : queue'[i] \in TaskJobs => i \in DOMAIN queue /\ queue'[i] = queue[i]
  /\ \A p \in Promoters : moving'[p] \in {moving[p], None}
  /\ delayed' \subseteq delayed

HandsShrink ==
  /\ \A w \in Workers : pc'[w] = "claim" => pc[w] = "claim" /\ job'[w] = job[w]
  /\ \A a \in Actors :
       pc'[a] \in {"push", "zadd"} => pc[a] \in {"push", "zadd"} /\ pass'[a].task = pass[a].task

NoneStarts == \A t \in Tasks : status'[t] = "RUNNING" => status[t] = "RUNNING"

LEMMA PlacesShrink ==
  ASSUME ListShrinks, HandsShrink
  PROVE  \A t \in Tasks : Places(t)' \subseteq Places(t)
<1> SUFFICES ASSUME NEW t \in Tasks PROVE Places(t)' \subseteq Places(t)
  OBVIOUS
<1>1. TaskJob(t) \in TaskJobs
  BY DEF TaskJobs
<1>2. \A i \in DOMAIN queue' : queue'[i] = TaskJob(t) => <<"list", i>> \in Places(t)
  BY <1>1, PlaceCases DEF ListShrinks
<1>3. \A p \in Promoters : moving'[p] = t => <<"moving", p>> \in Places(t)
  BY NoneAssumption, PlaceCases DEF ListShrinks
<1>4. /\ \A w \in Workers : job'[w] = TaskJob(t) /\ pc'[w] = "claim" => <<"claim", w>> \in Places(t)
      /\ \A a \in Actors : pc'[a] \in {"push", "zadd"} /\ pass'[a].task = t => <<"send", a>> \in Places(t)
  BY PlaceCases DEF HandsShrink
<1>5. t \in delayed' => <<"delayed", t>> \in Places(t)
  BY PlaceCases DEF ListShrinks
<1> QED BY <1>2, <1>3, <1>4, <1>5, PlacesAfter

\* Only a claim starts a task.
LEMMA OtherStart ==
  ASSUME Typed, RowsKept, Next, ~ \E w \in Workers : Claim(w)
  PROVE  NoneStarts
<1> USE DEF NoneStarts, Typed, TablesTyped
<1>1. ASSUME NEW w \in Workers, ExecuteStep(w) PROVE NoneStarts
  BY <1>1 DEF ExecuteStep, CheckResult, PersistSuccess, FailAttempt, taskVars
<1>2. ASSUME NEW a \in Actors, RecoverStep(a) PROVE NoneStarts
  BY <1>2 DEF RecoverStep, Retry, Exhaust, Superseded, ScheduleRetry, DeadLetter, taskVars
<1>3. ASSUME NEW a \in Actors, PassStep(a) PROVE NoneStarts
  BY <1>3 DEF PassStep, BeginPass, RepeatPass, Cascade, MarkEnqueued, PushTask, FinalizeRead,
     FinalizeWrite, taskVars
<1>4. ASSUME NEW w \in Workers, NEW p \in Plans, InsertTasks(w, p) PROVE NoneStarts
  BY <1>4 DEF InsertTasks
<1> QED BY <1>1, <1>2, <1>3, <1>4, QuietRows DEF Next, WorkerStep, ReaperStep, PlanStep, Actors

\* The steps that move no job leave the queue and the hands alone.
MovesJob ==
  \/ \E w \in Workers : Dequeue(w)
  \/ \E a \in Actors : \/ PushTask(a) \/ ScheduleRetry(a)
                       \/ \E x \in stale[a] : Retry(a, x)
                       \/ \E t \in pass[a].ready : MarkEnqueued(a, t)
  \/ \E p \in Promoters : \/ QueueStep(PromotePush(p))
                          \/ \E t \in scan[p] : QueueStep(PromoteRemove(p, t))
  \/ \E i \in DOMAIN queue : DuplicateDelivery(i)

LEMMA AppendPlan ==
  ASSUME Typed, NEW e \in Executions, queue' = Append(queue, PlanJob(e))
  PROVE  \A i \in DOMAIN queue' : queue'[i] \in TaskJobs => i \in DOMAIN queue /\ queue'[i] = queue[i]
<1>1. PlanJob(e) \in Jobs /\ PlanJob(e) \notin TaskJobs
  BY DEF Jobs, PlanJobs, PlanJob, TaskJobs, TaskJob
<1> QED BY <1>1, AppendElements DEF Typed, QueueTypeOK

LEMMA OtherJobs ==
  ASSUME Typed, Next, ~MovesJob
  PROVE  ListShrinks /\ HandsShrink
<1> USE DEF HandsShrink
<1>0. /\ pc \in [Actors -> ControlPoints] /\ pass \in [Actors -> Passes]
      /\ job \in [Actors -> Jobs \cup {None}]
  BY DEF Typed, ActorsTyped
<1>q. UNCHANGED <<queue, delayed, moving>> => ListShrinks
  BY DEF ListShrinks
<1>h. UNCHANGED actorVars => HandsShrink
  BY DEF actorVars
<1>d. ASSUME NEW a \in Actors, Drop(a) \/ Return(a) PROVE HandsShrink
  BY <1>0, <1>d DEF Drop, Return, Actors
<1>1. CASE ApiStep
  <2>1. ASSUME NEW e \in Executions, EnqueuePlan(e) PROVE ListShrinks /\ HandsShrink
    BY <1>h, <2>1, AppendPlan DEF EnqueuePlan, Enqueue, promoterVars, ListShrinks
  <2> QED BY <1>1, <1>q, <1>h, <2>1 DEF ApiStep, CreateExecution, ApiStops, queueVars
<1>2. CASE FaultStep
  <2>1. ASSUME NEW a \in Actors, Crash(a) \/ PlanError(a) PROVE ListShrinks /\ HandsShrink
    BY <1>q, <1>d, <2>1 DEF Crash, PlanError, queueVars
  <2>2. ASSUME NEW p \in Promoters, PromoterCrash(p) PROVE ListShrinks /\ HandsShrink
    BY <1>h, <2>2 DEF PromoterCrash, PromoterStops, ListShrinks, Typed, QueueTypeOK
  <2> QED BY <1>2, <2>1, <2>2 DEF FaultStep, MovesJob, Actors
<1>3. ASSUME NEW w \in Workers, PlanStep(w) PROVE ListShrinks /\ HandsShrink
  <2>1. CASE GuardPlan(w) /\ ~Unplanned(job[w].id)
    BY <1>q, <1>d, <2>1 DEF GuardPlan, queueVars, Actors
  <2>2. CASE ~(GuardPlan(w) /\ ~Unplanned(job[w].id))
    BY <1>0, <1>q, <1>3, <2>2 DEF PlanStep, GuardPlan, InsertTasks, StartExecution, queueVars, Actors
  <2> QED BY <2>1, <2>2
<1>4. ASSUME NEW w \in Workers, ExecuteStep(w) PROVE ListShrinks /\ HandsShrink
  <2>1. CASE Claim(w) /\ status[job[w].id] \notin Claimable
    BY <1>q, <1>d, <2>1 DEF Claim, queueVars, Actors
  <2>2. CASE ~(Claim(w) /\ status[job[w].id] \notin Claimable)
    BY <1>0, <1>q, <1>4, <2>2 DEF ExecuteStep, Claim, CheckResult, PersistSuccess, FailAttempt,
       queueVars, Actors
  <2> QED BY <2>1, <2>2
<1>5. ASSUME NEW r \in Reapers, ReaperScan(r) PROVE ListShrinks /\ HandsShrink
  BY <1>0, <1>q, <1>5 DEF ReaperScan, queueVars, Actors
<1>6. ASSUME NEW a \in Actors, RecoverStep(a), ~MovesJob PROVE ListShrinks /\ HandsShrink
  <2>1. ASSUME NEW x \in stale[a], Exhaust(a, x) \/ Superseded(a, x) PROVE ListShrinks /\ HandsShrink
    BY <1>0, <1>q, <2>1 DEF Exhaust, Superseded, AfterRecovery, queueVars, Actors
  <2>2. CASE DeadLetter(a)
    BY <1>0, <1>q, <2>2 DEF DeadLetter, PushDeadLetter, AfterRecovery, promoterVars, Actors
  <2> QED BY <1>6, <2>1, <2>2 DEF RecoverStep, MovesJob
<1>7. ASSUME NEW a \in Actors, PassStep(a), ~MovesJob PROVE ListShrinks /\ HandsShrink
  <2>1. CASE FinalizeRead(a) \/ FinalizeWrite(a)
    BY <1>0, <1>q, <1>d, <2>1 DEF FinalizeRead, LoopDone, FinalizeWrite, queueVars, Actors
  <2>2. ASSUME NEW e \in affected[a], BeginPass(a, e) PROVE ListShrinks /\ HandsShrink
    BY <1>0, <1>q, <2>2 DEF BeginPass, queueVars, Actors
  <2>3. CASE RepeatPass(a)
    BY <1>0, <1>q, <2>3 DEF RepeatPass, LoopDone, queueVars, Actors
  <2>4. ASSUME NEW t \in pass[a].doomed, Cascade(a, t) PROVE ListShrinks /\ HandsShrink
    BY <1>0, <1>q, <2>4 DEF Cascade, queueVars, Actors
  <2> QED BY <1>7, <2>1, <2>2, <2>3, <2>4 DEF PassStep, MovesJob
<1>8. ASSUME NEW p \in Promoters, PromoterStep(p), ~MovesJob PROVE ListShrinks /\ HandsShrink
  BY <1>q, <1>h, <1>8 DEF PromoterStep, QueueStep, PromoteScan, MovesJob
<1>9. ASSUME NEW t \in Tasks, Elapse(t) PROVE ListShrinks /\ HandsShrink
  BY <1>q, <1>h, <1>9 DEF Elapse, QueueStep, BecomeDue, LeaseExpires, queueVars, promoterVars
<1> QED BY <1>1, <1>2, <1>3, <1>4, <1>5, <1>6, <1>7, <1>8, <1>9
        DEF Next, WorkerStep, ReaperStep, MovesJob, Actors
LEMMA GoDelivers ==
  ASSUME Typed, DeliveryInv, RowsKept, Next, ~MovesJob, ~ \E w \in Workers : Claim(w)
  PROVE  DeliveryInv'
<1>1. ListShrinks /\ HandsShrink /\ NoneStarts
  BY OtherJobs, OtherStart
<1> QED BY <1>1, PlacesShrink, PlacesGo DEF JobsGo, NoneStarts

LEMMA ClaimDelivers ==
  ASSUME Typed, DeliveryInv, RowsKept, Next, NEW w \in Workers, Claim(w), ~MovesJob
  PROVE  DeliveryInv'
<1>1. PICK u \in Tasks : job[w] = TaskJob(u) /\ job[w].id = u /\ pc[w] = "claim" /\ w \in Actors
  BY JobShapes DEF Claim, Typed, PointsMatch, Jobs, TaskJobs, Actors
<1>2. \A t \in Tasks : Places(t)' \subseteq Places(t)
  BY OtherJobs, PlacesShrink
<1>3. \A t \in Tasks \ {u} : status'[t] = "RUNNING" => status[t] = "RUNNING"
  BY <1>1 DEF Claim, Typed, TablesTyped
<1>4. Places(u)' = {}
  <2>1. <<"claim", w>> \in Places(u)
    BY <1>1, PlaceCases
  <2>2. \A x \in Places(u) : x = <<"claim", w>>
    BY <1>1, <2>1 DEF DeliveryInv, OnePlace
  <2>3. pc'[w] # "claim"
    BY <1>1 DEF Claim, Drop, Typed, ActorsTyped
  <2>4. <<"claim", w>> \notin Places(u)'
    BY <2>3 DEF Places
  <2> QED BY <1>1, <1>2, <2>2, <2>4
<1> QED BY <1>1, <1>2, <1>3, <1>4, PlacesGo DEF JobsGo
\* A job that is in one place is in no other.
LEMMA NowhereElse ==
  ASSUME DeliveryInv, NEW t \in Tasks, NEW k, NEW n, <<k, n>> \in Places(t)
  PROVE  /\ \A i \in DOMAIN queue : queue[i] = TaskJob(t) => k = "list" /\ i = n
         /\ \A p \in Promoters : moving[p] = t => k = "moving" /\ p = n
         /\ \A w \in Workers : job[w] = TaskJob(t) /\ pc[w] = "claim" => k = "claim" /\ w = n
         /\ \A a \in Actors :
              pc[a] \in {"push", "zadd"} /\ pass[a].task = t => k = "send" /\ a = n
         /\ t \in delayed => k = "delayed"
         /\ enqueued[t] /\ status[t] # "RUNNING"
<1>1. \A y \in Places(t) : y = <<k, n>>
  BY DEF DeliveryInv, OnePlace
<1>2. enqueued[t] /\ status[t] # "RUNNING"
  BY DEF DeliveryInv, OnePlace
<1>3. \A l, m : <<l, m>> = <<k, n>> => l = k /\ m = n
  OBVIOUS
<1> QED BY <1>1, <1>2, <1>3, InPlace

LEMMA DequeueDelivers ==
  ASSUME Typed, DeliveryInv, RowsKept, NoneStarts, NEW w \in Workers, Dequeue(w)
  PROVE  DeliveryInv'
<1>0. /\ queue \in Seq(Jobs) /\ queue # <<>> /\ queue' = Tail(queue) /\ Head(queue) = queue[1]
      /\ 1 \in DOMAIN queue /\ UNCHANGED <<delayed, moving, pass>> /\ w \in Actors
      /\ job' = [job EXCEPT ![w] = Head(queue)]
      /\ pc' = [pc EXCEPT ![w] = IF Head(queue).type = "plan" THEN "guard" ELSE "claim"]
  BY DEF Dequeue, Pop, Typed, QueueTypeOK, promoterVars, Actors
<1>1. \A i \in DOMAIN queue' : /\ i + 1 \in DOMAIN queue /\ queue'[i] = queue[i + 1]
                               /\ i \in Nat /\ i + 1 # 1
  BY <1>0, TailElements
<1>2. /\ \A v \in Workers \ {w} : pc'[v] = pc[v] /\ job'[v] = job[v]
      /\ job'[w] = queue[1]
      /\ \A a \in Actors : pc'[a] \in {"push", "zadd"} => pc[a] \in {"push", "zadd"}
  BY <1>0 DEF Typed, ActorsTyped, Actors
<1>3. ASSUME NEW t \in Tasks, TaskJob(t) = queue[1] PROVE Places(t)' \subseteq {<<"claim", w>>}
  <2>1. <<"list", 1>> \in Places(t)
    BY <1>0, <1>3, InPlace
  <2>2. /\ \A i \in DOMAIN queue : queue[i] = TaskJob(t) => i = 1
        /\ \A p \in Promoters : moving[p] # t
        /\ \A v \in Workers : ~(job[v] = TaskJob(t) /\ pc[v] = "claim")
        /\ \A a \in Actors : pc[a] \in {"push", "zadd"} => pass[a].task # t
        /\ t \notin delayed
    BY <2>1, NowhereElse
  <2>3. \A v \in Workers : job'[v] = TaskJob(t) /\ pc'[v] = "claim" => v = w
    BY <1>2, <2>2
  <2>4. \A i \in DOMAIN queue' : queue'[i] # TaskJob(t)
    BY <1>1, <2>2
  <2>5. \A p \in Promoters : moving'[p] # t
    BY <1>0, <2>2
  <2>6. \A a \in Actors : pc'[a] \in {"push", "zadd"} => pass'[a].task # t
    BY <1>0, <1>2, <2>2
  <2>7. t \notin delayed'
    BY <1>0, <2>2
  <2> QED BY <2>3, <2>4, <2>5, <2>6, <2>7, PlacesAfter
<1>4. ASSUME NEW t \in Tasks, TaskJob(t) # queue[1]
      PROVE  (\E y : Places(t)' \subseteq {y}) /\ (Places(t) = {} => Places(t)' = {})
  <2>1. \A v \in Workers : job'[v] = TaskJob(t) /\ pc'[v] = "claim" => job[v] = TaskJob(t) /\ pc[v] = "claim"
    BY <1>2, <1>4
  <2>2. \A i \in DOMAIN queue' : queue'[i] = TaskJob(t) => <<"list", i + 1>> \in Places(t)
    BY <1>1, InPlace
  <2>3. CASE \E k \in DOMAIN queue' : queue'[k] = TaskJob(t)
    <3>1. PICK k \in DOMAIN queue' : queue'[k] = TaskJob(t)
      BY <2>3
    <3>2. <<"list", k + 1>> \in Places(t) /\ k \in Nat
      BY <1>1, <2>2, <3>1
    <3>3. /\ \A i \in DOMAIN queue : queue[i] = TaskJob(t) => i = k + 1
          /\ \A p \in Promoters : moving[p] # t
          /\ \A v \in Workers : ~(job[v] = TaskJob(t) /\ pc[v] = "claim")
          /\ \A a \in Actors : pc[a] \in {"push", "zadd"} => pass[a].task # t
          /\ t \notin delayed
      BY <3>2, NowhereElse
    <3>4. \A i \in DOMAIN queue' : queue'[i] = TaskJob(t) => i = k
      BY <1>1, <3>2, <3>3
    <3>5. /\ \A p \in Promoters : moving'[p] # t
          /\ \A v \in Workers : ~(job'[v] = TaskJob(t) /\ pc'[v] = "claim")
          /\ \A a \in Actors : pc'[a] \in {"push", "zadd"} => pass'[a].task # t
          /\ t \notin delayed'
      BY <1>0, <1>2, <2>1, <3>3
    <3>6. Places(t)' \subseteq {<<"list", k>>}
      BY <3>4, <3>5, PlacesAfter
    <3> QED BY <3>2, <3>6
  <2>4. CASE ~ \E k \in DOMAIN queue' : queue'[k] = TaskJob(t)
    <3>1. Places(t)' \subseteq Places(t)
      <4>1. /\ \A p \in Promoters : moving'[p] = t => <<"moving", p>> \in Places(t)
            /\ t \in delayed' => <<"delayed", t>> \in Places(t)
        BY <1>0, InPlace
      <4>2. \A v \in Workers : job'[v] = TaskJob(t) /\ pc'[v] = "claim" => <<"claim", v>> \in Places(t)
        BY <2>1, InPlace
      <4>3. \A a \in Actors :
              pc'[a] \in {"push", "zadd"} /\ pass'[a].task = t => <<"send", a>> \in Places(t)
        BY <1>0, <1>2, InPlace
      <4> QED BY <2>4, <4>1, <4>2, <4>3, PlacesAfter
    <3>2. \E y : Places(t) \subseteq {y}
      BY DEF DeliveryInv, OnePlace
    <3> QED BY <3>1, <3>2
  <2> QED BY <2>3, <2>4
<1>5. ASSUME NEW t \in Tasks PROVE OnePlace(t)'
  <2>1. \A x, y \in Places(t)' : x = y
    BY <1>3, <1>4
  <2>2. status'[t] = "RUNNING" \/ ~enqueued'[t] => Places(t)' = {}
    <3>1. status'[t] = "RUNNING" \/ ~enqueued'[t] => Places(t) = {}
      BY DEF NoneStarts, RowsKept, DeliveryInv, OnePlace
    <3>2. TaskJob(t) = queue[1] => Places(t) # {}
      BY <1>0, InPlace
    <3> QED BY <1>4, <3>1, <3>2
  <2> QED BY <2>1, <2>2 DEF OnePlace
<1> QED BY <1>5 DEF DeliveryInv
\* The places of other tasks, when the job of u moves.
LEMMA OthersInPlace ==
  ASSUME NEW u \in Tasks,
         \A i \in DOMAIN queue' :
           queue'[i] \in TaskJobs => queue'[i] = TaskJob(u) \/ (i \in DOMAIN queue /\ queue'[i] = queue[i]),
         \A p \in Promoters : moving'[p] \in {moving[p], None, u},
         \A w \in Workers : pc'[w] = "claim" => pc[w] = "claim" /\ job'[w] = job[w],
         \A a \in Actors :
           pc'[a] \in {"push", "zadd"} =>
             \/ pass'[a].task = u
             \/ pc[a] \in {"push", "zadd"} /\ pass'[a].task = pass[a].task,
         delayed' \subseteq delayed \cup {u}
  PROVE  \A t \in Tasks \ {u} : Places(t)' \subseteq Places(t)
<1> SUFFICES ASSUME NEW t \in Tasks \ {u} PROVE Places(t)' \subseteq Places(t)
  OBVIOUS
<1>1. TaskJob(t) \in TaskJobs /\ TaskJob(t) # TaskJob(u)
  BY DEF TaskJobs, TaskJob
<1>2. \A i \in DOMAIN queue' : queue'[i] = TaskJob(t) => <<"list", i>> \in Places(t)
  BY <1>1, InPlace
<1>3. \A p \in Promoters : moving'[p] = t => <<"moving", p>> \in Places(t)
  BY NoneAssumption, InPlace
<1>4. \A w \in Workers : job'[w] = TaskJob(t) /\ pc'[w] = "claim" => <<"claim", w>> \in Places(t)
  BY InPlace
<1>5. \A a \in Actors : pc'[a] \in {"push", "zadd"} /\ pass'[a].task = t => <<"send", a>> \in Places(t)
  BY InPlace
<1>6. t \in delayed' => <<"delayed", t>> \in Places(t)
  BY InPlace
<1> QED BY <1>2, <1>3, <1>4, <1>5, <1>6, PlacesAfter

LEMMA AppendTask ==
  ASSUME Typed, NEW u \in Tasks, queue' = Append(queue, TaskJob(u))
  PROVE  \A i \in DOMAIN queue' :
           \/ i = Len(queue) + 1 /\ queue'[i] = TaskJob(u)
           \/ i \in DOMAIN queue /\ queue'[i] = queue[i]
  BY JobShapes DEF Typed, QueueTypeOK

\* An actor pushes the task it has marked as enqueued.
LEMMA PushDelivers ==
  ASSUME Typed, DeliveryInv, RowsKept, NoneStarts, NEW a \in Actors, PushTask(a)
  PROVE  DeliveryInv'
<1>0. /\ pc \in [Actors -> ControlPoints] /\ pass \in [Actors -> Passes]
      /\ job \in [Actors -> Jobs \cup {None}]
  BY DEF Typed, ActorsTyped
<1>1. PICK u \in Tasks : u = pass[a].task /\ pc[a] = "push"
  BY DEF PushTask, Typed, PointsMatch
<1>2. /\ queue' = Append(queue, TaskJob(u)) /\ UNCHANGED <<delayed, moving, job>>
      /\ pc' = [pc EXCEPT ![a] = "pass"]
      /\ \A b \in Actors \ {a} : pass'[b] = pass[b]
  BY <1>0, <1>1 DEF PushTask, Enqueue, promoterVars
<1>3. \A i \in DOMAIN queue' :
        \/ i = Len(queue) + 1 /\ queue'[i] = TaskJob(u)
        \/ i \in DOMAIN queue /\ queue'[i] = queue[i]
  BY <1>2, AppendTask
<1>4. /\ \A w \in Workers : pc'[w] = "claim" => pc[w] = "claim"
      /\ \A b \in Actors : pc'[b] \in {"push", "zadd"} => b # a /\ pc[b] \in {"push", "zadd"}
  BY <1>0, <1>2 DEF Actors
<1>5. \A t \in Tasks \ {u} : Places(t)' \subseteq Places(t)
  BY <1>2, <1>3, <1>4, OthersInPlace
<1>6. <<"send", a>> \in Places(u)
  BY <1>1, InPlace
<1>7. /\ \A i \in DOMAIN queue : queue[i] # TaskJob(u)
      /\ \A p \in Promoters : moving[p] # u
      /\ \A w \in Workers : ~(job[w] = TaskJob(u) /\ pc[w] = "claim")
      /\ \A b \in Actors : pc[b] \in {"push", "zadd"} /\ pass[b].task = u => b = a
      /\ u \notin delayed /\ enqueued[u] /\ status[u] # "RUNNING"
  BY <1>6, NowhereElse
<1>8. Places(u)' \subseteq {<<"list", Len(queue) + 1>>}
  <2>1. \A i \in DOMAIN queue' : queue'[i] = TaskJob(u) => i = Len(queue) + 1
    BY <1>3, <1>7
  <2>2. \A w \in Workers : ~(job'[w] = TaskJob(u) /\ pc'[w] = "claim")
    BY <1>2, <1>4, <1>7
  <2>3. \A b \in Actors : pc'[b] \in {"push", "zadd"} => pass'[b].task # u
    BY <1>2, <1>4, <1>7
  <2>4. u \notin delayed' /\ \A p \in Promoters : moving'[p] # u
    BY <1>2, <1>7
  <2> QED BY <2>1, <2>2, <2>3, <2>4, PlacesAfter
<1>9. enqueued'[u] /\ status'[u] # "RUNNING"
  BY <1>7 DEF RowsKept, NoneStarts
<1> QED BY <1>5, <1>8, <1>9, PlacesMove DEF NoneStarts

\* An actor delays the retry it has recorded.
LEMMA DelayDelivers ==
  ASSUME Typed, DeliveryInv, RowsKept, NoneStarts, NEW a \in Actors, ScheduleRetry(a)
  PROVE  DeliveryInv'
<1>0. /\ pc \in [Actors -> ControlPoints] /\ pass \in [Actors -> Passes]
      /\ job \in [Actors -> Jobs \cup {None}]
  BY DEF Typed, ActorsTyped
<1>1. PICK u \in Tasks : u = pass[a].task /\ pc[a] = "zadd"
  BY DEF ScheduleRetry, Typed, PointsMatch
<1>2. /\ delayed' = delayed \cup {u} /\ UNCHANGED <<queue, moving, job>>
      /\ pc' = [pc EXCEPT ![a] = AfterRecovery(stale[a])] /\ pc'[a] \notin {"claim", "push", "zadd"}
      /\ \A b \in Actors \ {a} : pass'[b] = pass[b]
  BY <1>0, <1>1 DEF ScheduleRetry, ScheduleTask, AfterRecovery, promoterVars
<1>4. /\ \A w \in Workers : pc'[w] = "claim" => pc[w] = "claim"
      /\ \A b \in Actors : pc'[b] \in {"push", "zadd"} => b # a /\ pc[b] \in {"push", "zadd"}
  BY <1>0, <1>2 DEF Actors
<1>5. \A t \in Tasks \ {u} : Places(t)' \subseteq Places(t)
  BY <1>2, <1>4, OthersInPlace
<1>6. <<"send", a>> \in Places(u)
  BY <1>1, InPlace
<1>7. /\ \A i \in DOMAIN queue : queue[i] # TaskJob(u)
      /\ \A p \in Promoters : moving[p] # u
      /\ \A w \in Workers : ~(job[w] = TaskJob(u) /\ pc[w] = "claim")
      /\ \A b \in Actors : pc[b] \in {"push", "zadd"} /\ pass[b].task = u => b = a
      /\ enqueued[u] /\ status[u] # "RUNNING"
  BY <1>6, NowhereElse
<1>8. Places(u)' \subseteq {<<"delayed", u>>}
  <2>1. \A i \in DOMAIN queue' : queue'[i] # TaskJob(u)
    BY <1>2, <1>7
  <2>2. \A w \in Workers : ~(job'[w] = TaskJob(u) /\ pc'[w] = "claim")
    BY <1>2, <1>4, <1>7
  <2>3. \A b \in Actors : pc'[b] \in {"push", "zadd"} => pass'[b].task # u
    BY <1>2, <1>4, <1>7
  <2>4. \A p \in Promoters : moving'[p] # u
    BY <1>2, <1>7
  <2> QED BY <2>1, <2>2, <2>3, <2>4, PlacesAfter
<1>9. enqueued'[u] /\ status'[u] # "RUNNING"
  BY <1>7 DEF RowsKept, NoneStarts
<1> QED BY <1>5, <1>8, <1>9, PlacesMove DEF NoneStarts

\* A task that is in no place comes to be in an actor's hands: one that is to be
\* retried, or that a pass has found ready.
LEMMA TakenInHand ==
  ASSUME Typed, DeliveryInv, RowsKept, NoneStarts, NEW a \in Actors, NEW u \in Tasks,
         Places(u) = {}, enqueued'[u], status'[u] # "RUNNING",
         UNCHANGED <<queue, delayed, moving, job>>,
         pc' = [pc EXCEPT ![a] = "push"] \/ pc' = [pc EXCEPT ![a] = "zadd"],
         pass'[a].task = u, \A b \in Actors \ {a} : pass'[b] = pass[b]
  PROVE  DeliveryInv'
<1>0. pc \in [Actors -> ControlPoints]
  BY DEF Typed, ActorsTyped
<1>1. /\ \A w \in Workers : pc'[w] = "claim" => pc[w] = "claim"
      /\ \A b \in Actors \ {a} : pc'[b] = pc[b]
  BY <1>0 DEF Actors
<1>2. \A t \in Tasks \ {u} : Places(t)' \subseteq Places(t)
  BY <1>1, OthersInPlace
<1>3. /\ \A i \in DOMAIN queue : queue[i] # TaskJob(u)
      /\ \A p \in Promoters : moving[p] # u
      /\ \A w \in Workers : ~(job[w] = TaskJob(u) /\ pc[w] = "claim")
      /\ \A b \in Actors : pc[b] \in {"push", "zadd"} => pass[b].task # u
      /\ u \notin delayed
  BY InPlace
<1>4. Places(u)' \subseteq {<<"send", a>>}
  <2>1. /\ \A i \in DOMAIN queue' : queue'[i] # TaskJob(u)
        /\ \A p \in Promoters : moving'[p] # u
        /\ u \notin delayed'
    BY <1>3
  <2>2. \A w \in Workers : ~(job'[w] = TaskJob(u) /\ pc'[w] = "claim")
    BY <1>1, <1>3
  <2>3. \A b \in Actors :
          pc'[b] \in {"push", "zadd"} /\ pass'[b].task = u => <<"send", b>> \in {<<"send", a>>}
    BY <1>1, <1>3
  <2> QED BY <2>1, <2>2, <2>3, PlacesAfter
<1> QED BY <1>2, <1>4, PlacesMove DEF NoneStarts
LEMMA RetryDelivers ==
  ASSUME SafeInv, DeliveryInv, RowsKept, NoneStarts, NEW a \in Actors, NEW x \in stale[a], Retry(a, x)
  PROVE  DeliveryInv'
<1>0. /\ Typed /\ pass \in [Actors -> Passes] /\ status \in [Tasks -> TaskStatuses]
  BY DEF SafeInv, Typed, ActorsTyped, TablesTyped
<1>1. PICK u \in Tasks : u = x.task
  BY <1>0 DEF Typed, ActorsTyped, StaleReads
<1>2. status[u] = "RUNNING" /\ status'[u] = "RETRYING" /\ enqueued[u]
  BY <1>0, <1>1 DEF Retry, StillRunning, SafeInv, Started, Queued
<1>3. Places(u) = {} /\ enqueued'[u]
  BY <1>2 DEF DeliveryInv, OnePlace, RowsKept
<1>4. /\ UNCHANGED <<queue, delayed, moving, job>>
      /\ pc' = [pc EXCEPT ![a] = "zadd"]
      /\ pass'[a].task = u /\ \A b \in Actors \ {a} : pass'[b] = pass[b]
  BY <1>0, <1>1 DEF Retry, queueVars, Passes
<1> QED BY <1>0, <1>2, <1>3, <1>4, TakenInHand

LEMMA MarkDelivers ==
  ASSUME SafeInv, DeliveryInv, RowsKept, NoneStarts, NEW a \in Actors, NEW u \in pass[a].ready,
         MarkEnqueued(a, u)
  PROVE  DeliveryInv'
<1>0. /\ Typed /\ u \in Tasks /\ pc \in [Actors -> ControlPoints] /\ pass \in [Actors -> Passes]
      /\ job \in [Actors -> Jobs \cup {None}] /\ enqueued \in [Tasks -> BOOLEAN]
      /\ status \in [Tasks -> TaskStatuses]
  BY DEF SafeInv, Typed, ActorsTyped, TablesTyped, Passes
<1>1. /\ UNCHANGED <<queue, delayed, moving, job, status>> /\ enqueued'[u]
      /\ pass'[a].task = IF NotEnqueued(u) THEN u ELSE None
      /\ \A b \in Actors \ {a} : pass'[b] = pass[b]
      /\ pc' = [pc EXCEPT ![a] = IF NotEnqueued(u) THEN "push" ELSE "pass"]
  BY <1>0 DEF MarkEnqueued, queueVars, Passes
<1>2. CASE NotEnqueued(u)
  <2>1. Places(u) = {}
    BY <1>0, <1>2 DEF NotEnqueued, DeliveryInv, OnePlace
  <2>2. status'[u] # "RUNNING"
    BY <1>0, <1>1, <1>2 DEF NotEnqueued, SafeInv, Started, Queued
  <2> QED BY <1>0, <1>1, <1>2, <2>1, <2>2, TakenInHand
<1>3. CASE ~NotEnqueued(u)
  <2>1. ListShrinks /\ HandsShrink
    BY <1>0, <1>1, <1>3 DEF ListShrinks, HandsShrink, Actors
  <2> QED BY <2>1, PlacesShrink, PlacesGo DEF JobsGo, NoneStarts
<1> QED BY <1>2, <1>3

\* A promoter takes a delayed retry and pushes it.
LEMMA RemoveDelivers ==
  ASSUME Typed, DeliveryInv, RowsKept, NoneStarts, NEW p \in Promoters, NEW u \in scan[p],
         QueueStep(PromoteRemove(p, u))
  PROVE  DeliveryInv'
<1>0. u \in Tasks /\ moving \in [Promoters -> Tasks \cup {None}]
  BY DEF Typed, QueueTypeOK
<1>1. /\ moving' = [moving EXCEPT ![p] = IF u \in delayed THEN u ELSE None]
      /\ delayed' = delayed \ {u} /\ UNCHANGED <<queue, pc, job, pass>>
  BY DEF QueueStep, PromoteRemove, actorVars
<1>2. CASE u \in delayed
  <2>1. \A t \in Tasks \ {u} : Places(t)' \subseteq Places(t)
    BY <1>0, <1>1, OthersInPlace
  <2>2. <<"delayed", u>> \in Places(u)
    BY <1>2, InPlace
  <2>3. /\ \A i \in DOMAIN queue : queue[i] # TaskJob(u)
        /\ \A q \in Promoters : moving[q] # u
        /\ \A w \in Workers : ~(job[w] = TaskJob(u) /\ pc[w] = "claim")
        /\ \A b \in Actors : pc[b] \in {"push", "zadd"} => pass[b].task # u
        /\ enqueued[u] /\ status[u] # "RUNNING"
    BY <1>0, <2>2, NowhereElse
  <2>4. Places(u)' \subseteq {<<"moving", p>>}
    <3>1. \A q \in Promoters : moving'[q] = u => <<"moving", q>> \in {<<"moving", p>>}
      BY <1>0, <1>1, <2>3
    <3> QED BY <1>1, <2>3, <3>1, PlacesAfter
  <2>5. enqueued'[u] /\ status'[u] # "RUNNING"
    BY <1>0, <2>3 DEF RowsKept, NoneStarts
  <2> QED BY <1>0, <2>1, <2>4, <2>5, PlacesMove DEF NoneStarts
<1>3. CASE u \notin delayed
  <2>1. ListShrinks /\ HandsShrink
    BY <1>0, <1>1, <1>3 DEF ListShrinks, HandsShrink
  <2> QED BY <2>1, PlacesShrink, PlacesGo DEF JobsGo, NoneStarts
<1> QED BY <1>2, <1>3

LEMMA PromotionDelivers ==
  ASSUME Typed, DeliveryInv, RowsKept, NoneStarts, NEW p \in Promoters, QueueStep(PromotePush(p))
  PROVE  DeliveryInv'
<1>0. moving \in [Promoters -> Tasks \cup {None}]
  BY DEF Typed, QueueTypeOK
<1>1. PICK u \in Tasks : u = moving[p]
  BY <1>0 DEF QueueStep, PromotePush
<1>2. /\ queue' = Append(queue, TaskJob(u)) /\ moving' = [moving EXCEPT ![p] = None]
      /\ UNCHANGED <<delayed, pc, job, pass>>
  BY <1>1 DEF QueueStep, PromotePush, actorVars
<1>3. \A i \in DOMAIN queue' :
        \/ i = Len(queue) + 1 /\ queue'[i] = TaskJob(u)
        \/ i \in DOMAIN queue /\ queue'[i] = queue[i]
  BY <1>2, AppendTask
<1>4. \A t \in Tasks \ {u} : Places(t)' \subseteq Places(t)
  <2>1. \A q \in Promoters : moving'[q] \in {moving[q], None, u}
    BY <1>0, <1>2
  <2> QED BY <1>2, <1>3, <2>1, OthersInPlace
<1>5. <<"moving", p>> \in Places(u)
  BY <1>1, InPlace
<1>6. /\ \A i \in DOMAIN queue : queue[i] # TaskJob(u)
      /\ \A q \in Promoters : moving[q] = u => q = p
      /\ \A w \in Workers : ~(job[w] = TaskJob(u) /\ pc[w] = "claim")
      /\ \A b \in Actors : pc[b] \in {"push", "zadd"} => pass[b].task # u
      /\ u \notin delayed /\ enqueued[u] /\ status[u] # "RUNNING"
  BY <1>5, NowhereElse
<1>7. Places(u)' \subseteq {<<"list", Len(queue) + 1>>}
  <2>1. \A i \in DOMAIN queue' : queue'[i] = TaskJob(u) => i = Len(queue) + 1
    BY <1>3, <1>6
  <2>2. \A q \in Promoters : moving'[q] # u
    BY <1>0, <1>2, <1>6, NoneAssumption
  <2> QED BY <1>2, <1>6, <2>1, <2>2, PlacesAfter
<1>8. enqueued'[u] /\ status'[u] # "RUNNING"
  BY <1>6 DEF RowsKept, NoneStarts
<1> QED BY <1>4, <1>7, <1>8, PlacesMove DEF NoneStarts
LEMMA MovingStarts ==
  ASSUME Typed, MovesJob
  PROVE  NoneStarts
<1> USE DEF NoneStarts, Typed, TablesTyped
<1>1. ASSUME NEW a \in Actors, NEW x \in stale[a], Retry(a, x) PROVE NoneStarts
  BY <1>1 DEF Retry
<1>2. ASSUME NEW a \in Actors, NEW t \in pass[a].ready, MarkEnqueued(a, t) PROVE NoneStarts
  BY <1>2 DEF MarkEnqueued
<1>3. ASSUME NEW a \in Actors, PushTask(a) \/ ScheduleRetry(a) PROVE NoneStarts
  BY <1>3 DEF PushTask, ScheduleRetry, taskVars
<1>4. ASSUME NEW w \in Workers, Dequeue(w) PROVE NoneStarts
  BY <1>4 DEF Dequeue, taskVars
<1>5. ASSUME NEW p \in Promoters, NEW t,
             QueueStep(PromotePush(p)) \/ QueueStep(PromoteRemove(p, t))
      PROVE  NoneStarts
  BY <1>5 DEF QueueStep, taskVars
<1>6. ASSUME NEW i \in DOMAIN queue, DuplicateDelivery(i) PROVE NoneStarts
  BY <1>6 DEF DuplicateDelivery, taskVars
<1> QED BY <1>1, <1>2, <1>3, <1>4, <1>5, <1>6 DEF MovesJob

LEMMA DeliveryStep == ~Redelivery => (SafeInv /\ DeliveryInv /\ [Next]_vars => DeliveryInv')
<1> SUFFICES ASSUME ~Redelivery, SafeInv, DeliveryInv, [Next]_vars PROVE DeliveryInv'
  OBVIOUS
<1>1. CASE Next
  <2>0. Typed /\ RowsKept
    BY <1>1, RowsStep DEF SafeInv
  <2>1. CASE MovesJob
    <3>1. NoneStarts
      BY <2>0, <2>1, MovingStarts
    <3>2. ~ \E i \in DOMAIN queue : DuplicateDelivery(i)
      BY DEF DuplicateDelivery
    <3> QED BY <2>0, <2>1, <3>1, <3>2, DequeueDelivers, PushDelivers, DelayDelivers, RetryDelivers,
            MarkDelivers, RemoveDelivers, PromotionDelivers DEF MovesJob
  <2>2. CASE ~MovesJob
    BY <1>1, <2>0, <2>2, GoDelivers, ClaimDelivers
  <2> QED BY <2>1, <2>2
<1>2. CASE UNCHANGED vars
  <2>1. DeliveryInv' <=> DeliveryInv
    BY <1>2 DEF vars, taskVars, actorVars, queueVars, DeliveryInv, OnePlace, Places
  <2> QED BY <2>1
<1> QED BY <1>1, <1>2

LEMMA DeliveryInvariant == ASSUME ~Redelivery PROVE Spec => [](SafeInv /\ DeliveryInv)
<1>1. SafeInv /\ [Next]_vars => SafeInv'
  BY SafeStep
<1>2. SafeInv /\ DeliveryInv /\ [Next]_vars => DeliveryInv'
  BY DeliveryStep
<1> QED BY <1>1, <1>2, InitSafe, InitDelivery, PTL DEF Spec

\* A set of places counts for one at most.
LEMMA AtMostOne ==
  ASSUME NEW S, \A x, y \in S : x = y
  PROVE  /\ Cardinality(S) \in {0, 1}
         /\ S = {} => Cardinality(S) = 0
<1>1. CASE S = {}
  BY <1>1, FS_EmptySet
<1>2. ASSUME NEW x \in S PROVE Cardinality(S) = 1
  <2>1. S = {x}
    BY <1>2
  <2> QED BY <2>1, FS_Singleton
<1> QED BY <1>1, <1>2

\* A task has at most one job on its way, and none while it runs.
THEOREM DeliveredOnce == ASSUME ~Redelivery PROVE Spec => []SingleDelivery
<1>1. ASSUME SafeInv, DeliveryInv PROVE SingleDelivery
  <2> SUFFICES ASSUME NEW t \in Tasks
               PROVE  Tokens(t) <= 1 /\ (status[t] = "RUNNING" => Tokens(t) = 0)
    BY DEF SingleDelivery
  <2> DEFINE L == {i \in DOMAIN queue : queue[i] = TaskJob(t)}
             M == {p \in Promoters : moving[p] = t}
             C == {w \in Workers : job[w] = TaskJob(t) /\ pc[w] = "claim"}
             S == {a \in Actors : pc[a] \in {"push", "zadd"} /\ pass[a].task = t}
             D == {t} \cap delayed
  <2>1. Tokens(t) = Cardinality(L) + Cardinality(M) + Cardinality(C) + Cardinality(S) + Cardinality(D)
    BY DEF Tokens
  <2>2. /\ \A x \in L : <<"list", x>> \in Places(t)
        /\ \A x \in M : <<"moving", x>> \in Places(t)
        /\ \A x \in C : <<"claim", x>> \in Places(t)
        /\ \A x \in S : <<"send", x>> \in Places(t)
        /\ \A x \in D : <<"delayed", x>> \in Places(t)
    BY InPlace
  <2>3. \A k, n, l, m : <<k, n>> \in Places(t) /\ <<l, m>> \in Places(t) => k = l /\ n = m
    <3>1. \A x, y \in Places(t) : x = y
      BY <1>1 DEF DeliveryInv, OnePlace
    <3> QED BY <3>1
  <2>4. status[t] = "RUNNING" => Places(t) = {}
    BY <1>1 DEF DeliveryInv, OnePlace
  <2> HIDE DEF L, M, C, S, D
  <2>5. /\ Cardinality(L) \in {0, 1} /\ (L = {} => Cardinality(L) = 0)
        /\ Cardinality(M) \in {0, 1} /\ (M = {} => Cardinality(M) = 0)
        /\ Cardinality(C) \in {0, 1} /\ (C = {} => Cardinality(C) = 0)
        /\ Cardinality(S) \in {0, 1} /\ (S = {} => Cardinality(S) = 0)
        /\ Cardinality(D) \in {0, 1} /\ (D = {} => Cardinality(D) = 0)
    <3>1. /\ \A x, y \in L : x = y
          /\ \A x, y \in M : x = y
          /\ \A x, y \in C : x = y
          /\ \A x, y \in S : x = y
          /\ \A x, y \in D : x = y
      BY <2>2, <2>3
    <3>2. \A X : (\A x, y \in X : x = y) => Cardinality(X) \in {0, 1} /\ (X = {} => Cardinality(X) = 0)
      BY AtMostOne
    <3> QED BY <3>1, <3>2
  <2>6. /\ L # {} => M = {} /\ C = {} /\ S = {} /\ D = {}
        /\ M # {} => C = {} /\ S = {} /\ D = {}
        /\ C # {} => S = {} /\ D = {}
        /\ S # {} => D = {}
    BY <2>2, <2>3
  <2>7. status[t] = "RUNNING" => L = {} /\ M = {} /\ C = {} /\ S = {} /\ D = {}
    BY <2>2, <2>4
  <2> QED BY <2>1, <2>5, <2>6, <2>7
<1> QED BY <1>1, DeliveryInvariant, PTL
-----------------------------------------------------------------------------
(* The backoff.  With one promoter, what it has read of the delayed set is *)
(* still due when it comes to it: a retry can only be delayed again after  *)
(* its job has been delivered, that is after it has left the set.          *)

OnePromoter == \A p, q \in Promoters : p = q
ScanDue == \A p \in Promoters : scan[p] \subseteq due

ScanQuiet == due \subseteq due' /\ UNCHANGED promoterVars

LEMMA OtherScan ==
  ASSUME Next, ~ \E a \in Actors : ScheduleRetry(a),
         ~ \E p \in Promoters : PromoterStep(p) \/ PromoterCrash(p)
  PROVE  ScanQuiet
<1> USE DEF ScanQuiet, queueVars, promoterVars
<1>1. CASE ApiStep
  BY <1>1 DEF ApiStep, CreateExecution, EnqueuePlan, ApiStops, Enqueue
<1>2. CASE FaultStep
  BY <1>2 DEF FaultStep, PlanError, Crash, DuplicateDelivery, Redeliver
<1>3. ASSUME NEW w \in Workers, Dequeue(w) \/ PlanStep(w) \/ ExecuteStep(w) PROVE ScanQuiet
  BY <1>3 DEF Dequeue, Pop, PlanStep, GuardPlan, InsertTasks, StartExecution, ExecuteStep, Claim,
     CheckResult, PersistSuccess, FailAttempt
<1>4. ASSUME NEW a \in Actors, RecoverStep(a) PROVE ScanQuiet
  BY <1>4 DEF RecoverStep, Retry, Exhaust, Superseded, DeadLetter, PushDeadLetter
<1>5. ASSUME NEW a \in Actors, PassStep(a) PROVE ScanQuiet
  BY <1>5 DEF PassStep, BeginPass, RepeatPass, Cascade, MarkEnqueued, PushTask, Enqueue, FinalizeRead,
     FinalizeWrite
<1>6. ASSUME NEW r \in Reapers, ReaperScan(r) PROVE ScanQuiet
  BY <1>6 DEF ReaperScan
<1>7. ASSUME NEW t \in Tasks, Elapse(t) PROVE ScanQuiet
  BY <1>7 DEF Elapse, QueueStep, BecomeDue, LeaseExpires
<1> QED BY <1>1, <1>2, <1>3, <1>4, <1>5, <1>6, <1>7 DEF Next, WorkerStep, ReaperStep, Actors

LEMMA ScanStep ==
  ASSUME OnePromoter, SafeInv, DeliveryInv, ScanDue, [Next]_vars
  PROVE  ScanDue'
<1>0. Typed /\ scan \in [Promoters -> SUBSET Tasks] /\ due \subseteq delayed
  BY DEF SafeInv, Typed, QueueTypeOK
<1>1. ASSUME NEW a \in Actors, ScheduleRetry(a) PROVE ScanDue'
  <2>1. PICK u \in Tasks : u = pass[a].task /\ pc[a] = "zadd"
    BY <1>0, <1>1 DEF ScheduleRetry, Typed, PointsMatch
  <2>2. <<"send", a>> \in Places(u)
    BY <2>1, InPlace
  <2>3. u \notin due
    BY <1>0, <2>2, NowhereElse
  <2> QED BY <1>1, <2>1, <2>3 DEF ScheduleRetry, ScheduleTask, promoterVars, ScanDue
<1>2. ASSUME NEW p \in Promoters, PromoterStep(p) PROVE ScanDue'
  <2>1. ASSUME NEW t \in scan[p], PromoteRemove(p, t) PROVE ScanDue'
    BY <1>0, <2>1 DEF PromoteRemove, OnePromoter, ScanDue
  <2>2. CASE PromoteScan(p) \/ PromotePush(p)
    BY <1>0, <2>2 DEF PromoteScan, PromotePush, ScanDue
  <2> QED BY <1>2, <2>1, <2>2 DEF PromoterStep, QueueStep
<1>3. ASSUME NEW p \in Promoters, PromoterCrash(p) PROVE ScanDue'
  BY <1>0, <1>3 DEF PromoterCrash, PromoterStops, ScanDue
<1>4. CASE UNCHANGED vars
  BY <1>4 DEF vars, queueVars, ScanDue
<1> QED BY <1>1, <1>2, <1>3, <1>4, OtherScan DEF ScanQuiet, promoterVars, ScanDue

\* A promoter moves a retry to the list only when its backoff has elapsed, if
\* it is the only one and the list delivers a job once.
THEOREM RetriesBackOff ==
  ASSUME ~Redelivery, OnePromoter PROVE Spec => BackoffRespected
<1>1. Init => ScanDue
  BY DEF Init, QueueInit, ScanDue
<1>2. SafeInv /\ DeliveryInv /\ ScanDue /\ [Next]_vars => ScanDue'
  BY ScanStep
<1>3. ASSUME SafeInv, ScanDue, [Next]_vars
      PROVE  \A p \in Promoters : moving[p] = None /\ moving'[p] # None => moving'[p] \in due
  <2>0. moving \in [Promoters -> Tasks \cup {None}]
    BY <1>3 DEF SafeInv, Typed, QueueTypeOK
  <2>1. ASSUME NEW p \in Promoters, NEW t \in scan[p], PromoteRemove(p, t)
        PROVE  \A q \in Promoters : moving[q] = None /\ moving'[q] # None => moving'[q] \in due
    BY <1>3, <2>0, <2>1 DEF PromoteRemove, ScanDue
  <2>2. ASSUME NEW p \in Promoters, PromoteScan(p) \/ PromotePush(p) \/ PromoterStops(p)
        PROVE  \A q \in Promoters : moving'[q] \in {moving[q], None}
    BY <2>0, <2>2 DEF PromoteScan, PromotePush, PromoterStops
  <2>3. ASSUME NEW a \in Actors, ScheduleRetry(a) PROVE moving' = moving
    BY <2>3 DEF ScheduleRetry, ScheduleTask, promoterVars
  <2>4. UNCHANGED vars => moving' = moving
    BY DEF vars, queueVars
  <2> QED BY <1>3, <2>1, <2>2, <2>3, <2>4, OtherScan
          DEF PromoterStep, PromoterCrash, QueueStep, ScanQuiet, promoterVars
<1>4. SafeInv /\ ScanDue /\ [Next]_vars =>
        [\A p \in Promoters : moving[p] = None /\ moving'[p] # None => moving'[p] \in due]_vars
  BY <1>3
<1> QED BY <1>1, <1>2, <1>4, DeliveryInvariant, PTL DEF Spec, BackoffRespected
-----------------------------------------------------------------------------
(* Who works on a task, and how its attempts are counted.  What makes both *)
(* work out is that an attempt is reported once: by the worker that holds  *)
(* the task while its lease runs, or by the reaper once it has run out.    *)

OneReaper == \A r, s \in Reapers : r = s

\* A worker that holds a task is the only one, and has its lease.
HeldOnce ==
  \A w \in Workers : \A t \in Tasks :
    Holds(w, t) =>
      status[t] = "RUNNING" /\ ~expired[t] /\ \A v \in Workers : Holds(v, t) => v = w

\* What an actor has read of a task it is about to retry or fail is not stale.
ReadsFresh ==
  \A a \in Actors : \A x \in stale[a] :
    /\ status[x.task] = "RUNNING"
    /\ x.attempts = attempts[x.task]
    /\ IF a \in Workers THEN pc[a] = "recover" /\ Holds(a, x.task) ELSE expired[x.task]

\* The agent of a task that is waiting, or about to run it, has been started
\* only as often as attempts says.
StartsCounted ==
  \A t \in Tasks :
    /\ tries[t] <= attempts[t] + 1
    /\ tries[t] = attempts[t] + 1 => status[t] \in {"RUNNING", "COMPLETED"}
    /\ \A w \in Workers : Holds(w, t) /\ pc[w] = "check" => tries[t] <= attempts[t]
    /\ attempts[t] <= MaxRetries + 1
    /\ attempts[t] = MaxRetries + 1 => status[t] = "FAILED"

WorkInv == HeldOnce /\ ReadsFresh /\ StartsCounted

LEMMA InitWork == Init => WorkInv
  BY MaxRetriesAssumption
  DEF Init, WorkInv, HeldOnce, ReadsFresh, StartsCounted, Holds, HoldingPoints, Actors

LEMMA OneHeld ==
  ASSUME NEW w, NEW t, NEW u, Holds(w, t), Holds(w, u)
  PROVE  t = u
  BY DEF Holds, TaskJob

\* An attempt that has been read has one reader, and nobody else works on it.
LEMMA ReadOnce ==
  ASSUME Typed, HeldOnce, ReadsFresh, OneReaper, NEW a \in Actors, NEW x \in stale[a]
  PROVE  /\ x.task \in Tasks /\ x.attempts \in Nat
         /\ \A v \in Workers : Holds(v, x.task) => v = a
         /\ \A b \in Actors : \A y \in stale[b] : y.task = x.task => b = a /\ y = x
         /\ a \in Workers => stale[a] = {x}
<1>0. \A b \in Actors : \A y \in stale[b] : y \in StaleReads /\ y.task \in Tasks /\ y.attempts \in Nat
  BY DEF Typed, ActorsTyped, StaleReads
<1>1. \A v \in Workers : Holds(v, x.task) => v = a
  BY <1>0 DEF HeldOnce, ReadsFresh
<1>2. \A y, z \in StaleReads : y.task = z.task /\ y.attempts = z.attempts => y = z
  BY DEF StaleReads
<1>3. \A b \in Actors : \A y \in stale[b] : y.task = x.task => b = a /\ y = x
  <2> SUFFICES ASSUME NEW b \in Actors, NEW y \in stale[b], y.task = x.task PROVE b = a /\ y = x
    OBVIOUS
  <2>1. y = x
    BY <1>0, <1>2 DEF ReadsFresh
  <2>2. CASE a \in Workers
    BY <1>0, <2>1, <2>2 DEF HeldOnce, ReadsFresh
  <2>3. CASE b \in Workers
    BY <1>0, <2>1, <2>3 DEF HeldOnce, ReadsFresh
  <2>4. CASE a \notin Workers /\ b \notin Workers
    BY <2>1, <2>4 DEF OneReaper, Actors
  <2> QED BY <2>1, <2>2, <2>3, <2>4
<1>4. a \in Workers => stale[a] = {x}
  BY <1>3, OneHeld DEF ReadsFresh
<1> QED BY <1>0, <1>1, <1>3, <1>4

\* What most steps leave alone.
WorkQuiet ==
  /\ UNCHANGED <<attempts, tries, expired>>
  /\ \A t \in Tasks : status'[t] = "RUNNING" <=> status[t] = "RUNNING"
  /\ \A w \in Workers : pc'[w] \in HoldingPoints => pc'[w] = pc[w] /\ job'[w] = job[w]
  /\ \A a \in Actors : stale'[a] \subseteq stale[a]
  /\ \A w \in Workers : stale'[w] # {} => pc'[w] = pc[w] /\ job'[w] = job[w]

LEMMA WorkStays ==
  ASSUME Typed, RowsKept, WorkInv, WorkQuiet
  PROVE  WorkInv'
<1>1. \A w \in Workers : \A t \in Tasks : Holds(w, t)' => Holds(w, t) /\ pc'[w] = pc[w]
  BY DEF WorkQuiet, Holds
<1>2. HeldOnce'
  BY <1>1 DEF WorkInv, HeldOnce, WorkQuiet
<1>3. ReadsFresh'
  <2> SUFFICES ASSUME NEW a \in Actors, NEW x \in stale'[a]
               PROVE  /\ status'[x.task] = "RUNNING"
                      /\ x.attempts = attempts'[x.task]
                      /\ IF a \in Workers THEN pc'[a] = "recover" /\ Holds(a, x.task)'
                                          ELSE expired'[x.task]
    BY DEF ReadsFresh
  <2>1. x \in stale[a] /\ x.task \in Tasks
    BY DEF WorkQuiet, Typed, ActorsTyped, StaleReads
  <2> QED BY <2>1 DEF WorkInv, ReadsFresh, WorkQuiet, Holds
<1>4. StartsCounted'
  <2>1. \A t \in Tasks : status[t] \in Terminal => status'[t] = status[t]
    BY DEF RowsKept
  <2> QED BY <1>1, <2>1 DEF WorkInv, StartsCounted, WorkQuiet, Terminal
<1> QED BY <1>2, <1>3, <1>4 DEF WorkInv

\* The steps that start, end or count an attempt, or read one.
Attempting ==
  \/ \E w \in Workers : Claim(w) \/ CheckResult(w) \/ PersistSuccess(w) \/ FailAttempt(w)
  \/ \E r \in Reapers : ReaperScan(r)
  \/ \E a \in Actors : \E x \in stale[a] : Retry(a, x) \/ Exhaust(a, x)
  \/ \E t \in Tasks : LeaseExpires(t)

LEMMA DropWork ==
  ASSUME Typed, NEW a \in Actors, Drop(a), UNCHANGED <<status, attempts, tries, expired>>
  PROVE  WorkQuiet
  BY DEF Typed, ActorsTyped, Drop, WorkQuiet, HoldingPoints, Actors

LEMMA ReturnWork ==
  ASSUME Typed, ReadsFresh, NEW a \in Actors, Return(a), pc[a] \in PassPoints,
         UNCHANGED <<status, attempts, tries, expired>>
  PROVE  WorkQuiet
  BY DEF Typed, ActorsTyped, ReadsFresh, Return, PassPoints, WorkQuiet, HoldingPoints, Actors

LEMMA OtherWork ==
  ASSUME SafeInv, ReadsFresh, Next, RowsKept, ~Attempting
  PROVE  WorkQuiet
<1>0. /\ Typed /\ pc \in [Actors -> ControlPoints] /\ job \in [Actors -> Jobs \cup {None}]
      /\ stale \in [Actors -> SUBSET StaleReads] /\ status \in [Tasks -> TaskStatuses]
      /\ Workers \subseteq Actors
  BY DEF SafeInv, Typed, ActorsTyped, TablesTyped, Actors
<1> USE DEF HoldingPoints
<1>1. CASE ApiStep
  BY <1>1 DEF WorkQuiet, ApiStep, CreateExecution, EnqueuePlan, ApiStops, taskVars, actorVars
<1>2. CASE FaultStep
  <2>1. ASSUME NEW a \in Actors, Crash(a) \/ PlanError(a) PROVE WorkQuiet
    BY <1>0, <2>1, DropWork DEF Crash, PlanError, taskVars
  <2>2. CASE \/ \E p \in Promoters : PromoterCrash(p)
             \/ \E i \in DOMAIN queue : DuplicateDelivery(i)
    BY <2>2 DEF WorkQuiet, PromoterCrash, DuplicateDelivery, taskVars, actorVars
  <2> QED BY <1>2, <2>1, <2>2 DEF FaultStep, Actors
<1>3. ASSUME NEW w \in Workers, Dequeue(w) PROVE WorkQuiet
  BY <1>0, <1>3 DEF WorkQuiet, Dequeue, taskVars, ReadsFresh
<1>4. ASSUME NEW w \in Workers, PlanStep(w) PROVE WorkQuiet
  <2>1. CASE GuardPlan(w)
    <3>1. CASE Unplanned(job[w].id)
      BY <1>0, <2>1, <3>1 DEF WorkQuiet, GuardPlan, taskVars, ReadsFresh
    <3>2. CASE ~Unplanned(job[w].id)
      BY <1>0, <2>1, <3>2, DropWork DEF GuardPlan, taskVars
    <3> QED BY <3>1, <3>2
  <2>2. ASSUME NEW p \in Plans, InsertTasks(w, p) PROVE WorkQuiet
    <3>1. \A t \in Tasks : status'[t] = "RUNNING" <=> status[t] = "RUNNING"
      <4>1. \A t \in {<<job[w].id, i>> : i \in DOMAIN p} : t \in TasksOf(job[w].id)
        BY PlanWithinIndex DEF TasksOf
      <4>2. \A t \in TasksOf(job[w].id) : status[t] = "ABSENT"
        BY <2>2 DEF SafeInv, PlannerAlone, InsertTasks
      <4> QED BY <2>2, <4>1, <4>2 DEF InsertTasks
    <3> QED BY <1>0, <2>2, <3>1 DEF WorkQuiet, InsertTasks, ReadsFresh
  <2>3. CASE StartExecution(w)
    BY <1>0, <2>3 DEF WorkQuiet, StartExecution, taskVars, ReadsFresh
  <2> QED BY <1>4, <2>1, <2>2, <2>3 DEF PlanStep
<1>5. ASSUME NEW a \in Actors, RecoverStep(a) PROVE WorkQuiet
  <2>1. ASSUME NEW x \in stale[a], Superseded(a, x) PROVE FALSE
    BY <2>1 DEF Superseded, StillRunning, ReadsFresh
  <2>2. CASE ScheduleRetry(a) \/ DeadLetter(a)
    BY <1>0, <2>2 DEF WorkQuiet, ScheduleRetry, DeadLetter, AfterRecovery, taskVars, ReadsFresh
  <2> QED BY <1>5, <2>1, <2>2 DEF RecoverStep, Attempting
<1>6. ASSUME NEW a \in Actors, PassStep(a) PROVE WorkQuiet
  <2>1. CASE FinalizeRead(a)
    <3>1. CASE Return(a)
      BY <1>0, <2>1, <3>1, ReturnWork DEF FinalizeRead, LoopDone, PassPoints, taskVars
    <3>2. CASE ~Return(a)
      BY <1>0, <2>1, <3>2 DEF WorkQuiet, FinalizeRead, LoopDone, taskVars, ReadsFresh
    <3> QED BY <3>1, <3>2
  <2>2. CASE FinalizeWrite(a)
    BY <1>0, <2>2, ReturnWork DEF FinalizeWrite, PassPoints, taskVars
  <2>3. ASSUME NEW e \in affected[a], BeginPass(a, e) PROVE WorkQuiet
    BY <1>0, <2>3 DEF WorkQuiet, BeginPass, taskVars, ReadsFresh
  <2>4. CASE RepeatPass(a)
    BY <2>4 DEF WorkQuiet, RepeatPass, taskVars
  <2>5. ASSUME NEW t \in pass[a].doomed, Cascade(a, t) PROVE WorkQuiet
    <3>1. \A u \in Tasks : status'[u] = "RUNNING" <=> status[u] = "RUNNING"
      BY <1>0, <2>5 DEF Cascade
    <3> QED BY <2>5, <3>1 DEF WorkQuiet, Cascade
  <2>6. ASSUME NEW t \in pass[a].ready, MarkEnqueued(a, t) PROVE WorkQuiet
    BY <1>0, <2>6 DEF WorkQuiet, MarkEnqueued, ReadsFresh
  <2>7. CASE PushTask(a)
    BY <1>0, <2>7 DEF WorkQuiet, PushTask, taskVars, ReadsFresh
  <2> QED BY <1>6, <2>1, <2>2, <2>3, <2>4, <2>5, <2>6, <2>7 DEF PassStep
<1>7. ASSUME NEW p \in Promoters, PromoterStep(p) PROVE WorkQuiet
  BY <1>7 DEF WorkQuiet, PromoterStep, QueueStep, taskVars, actorVars
<1>8. ASSUME NEW t \in Tasks, QueueStep(BecomeDue(t)) PROVE WorkQuiet
  BY <1>8 DEF WorkQuiet, QueueStep, taskVars, actorVars
<1> QED BY <1>1, <1>2, <1>3, <1>4, <1>5, <1>6, <1>7, <1>8
        DEF Next, WorkerStep, ReaperStep, ExecuteStep, Elapse, Attempting, Actors
\* Nobody who holds u or has read an attempt of it, once u has left RUNNING.
LEMMA WorkLeaves ==
  ASSUME Typed, RowsKept, WorkInv, NEW a \in Actors, NEW u \in Tasks,
         \A t \in Tasks \ {u} :
           status'[t] = status[t] /\ attempts'[t] = attempts[t] /\ tries'[t] = tries[t],
         expired' = expired, status'[u] # "RUNNING",
         \A v \in Workers : Holds(v, u) => v = a,
         \A b \in Actors : \A y \in stale[b] : y.task = u => b = a,
         \A b \in Actors \ {a} : pc'[b] = pc[b] /\ job'[b] = job[b] /\ stale'[b] = stale[b],
         pc'[a] \notin HoldingPoints \/ a \notin Workers,
         a \in Workers => stale'[a] = {},
         \A y \in stale'[a] : y \in stale[a] /\ y.task # u
  PROVE  HeldOnce' /\ ReadsFresh'
<1>0. \A b \in Actors : \A y \in stale[b] : y.task \in Tasks
  BY DEF Typed, ActorsTyped, StaleReads
<1>1. \A w \in Workers : \A t \in Tasks : Holds(w, t)' => t # u /\ w # a /\ Holds(w, t)
  BY DEF Holds, Actors
<1>2. HeldOnce'
  BY <1>1 DEF WorkInv, HeldOnce
<1>3. ASSUME NEW b \in Actors, NEW y \in stale'[b]
      PROVE  y \in stale[b] /\ y.task \in Tasks \ {u} /\ (b \in Workers => b # a)
  BY <1>0, <1>3
<1>4. ReadsFresh'
  BY <1>3 DEF WorkInv, ReadsFresh, Holds
<1> QED BY <1>2, <1>4

LEMMA ClaimWorks ==
  ASSUME SafeInv, RowsKept, WorkInv, NEW w \in Workers, Claim(w)
  PROVE  WorkInv'
<1>0. /\ Typed /\ pc \in [Actors -> ControlPoints] /\ w \in Actors
      /\ status \in [Tasks -> TaskStatuses] /\ expired \in [Tasks -> BOOLEAN]
      /\ attempts \in [Tasks -> Nat] /\ tries \in [Tasks -> Nat]
  BY DEF SafeInv, Typed, ActorsTyped, TablesTyped, Actors
<1>1. PICK u \in Tasks : job[w] = TaskJob(u) /\ job[w].id = u /\ pc[w] = "claim"
  BY <1>0, JobShapes DEF Claim, Typed, PointsMatch, Jobs, TaskJobs
<1>2. CASE status[u] \in Claimable
  <2>1. /\ status' = [status EXCEPT ![u] = "RUNNING"]
        /\ expired' = [expired EXCEPT ![u] = FALSE]
        /\ pc' = [pc EXCEPT ![w] = "check"]
        /\ UNCHANGED <<job, stale, attempts, tries>>
    BY <1>1, <1>2 DEF Claim
  <2>2. /\ status[u] \notin {"RUNNING", "COMPLETED", "FAILED"}
        /\ \A v \in Workers : ~Holds(v, u)
        /\ \A a \in Actors : \A x \in stale[a] : x.task # u /\ x.task \in Tasks
    BY <1>0, <1>2 DEF Claimable, WorkInv, HeldOnce, ReadsFresh, Typed, ActorsTyped, StaleReads
  <2>3. \A v \in Workers : \A t \in Tasks :
          Holds(v, t)' => (v = w /\ t = u) \/ (t # u /\ Holds(v, t) /\ pc'[v] = pc[v])
    <3>1. \A t \in Tasks : TaskJob(t) = TaskJob(u) => t = u
      BY DEF TaskJob
    <3> QED BY <1>0, <1>1, <2>1, <2>2, <3>1 DEF Holds, Actors
  <2>4. HeldOnce'
    BY <1>0, <2>1, <2>3 DEF WorkInv, HeldOnce
  <2>5. ReadsFresh'
    <3>1. \A a \in Actors : \A x \in stale[a] : a \in Workers => pc'[a] = "recover" /\ Holds(a, x.task)'
      BY <1>0, <1>1, <2>1 DEF WorkInv, ReadsFresh, Holds
    <3> QED BY <1>0, <2>1, <2>2, <3>1 DEF WorkInv, ReadsFresh
  <2>6. StartsCounted'
    <3>1. tries[u] <= attempts[u]
      BY <1>0, <2>2 DEF WorkInv, StartsCounted
    <3> QED BY <1>0, <2>1, <2>2, <2>3, <3>1 DEF WorkInv, StartsCounted
  <2> QED BY <2>4, <2>5, <2>6 DEF WorkInv
<1>3. CASE status[u] \notin Claimable
  BY <1>0, <1>1, <1>3, DropWork, WorkStays DEF Claim
<1> QED BY <1>2, <1>3

\* What a worker does between claiming a task and reporting its outcome.
LEMMA HeldWorks ==
  ASSUME SafeInv, RowsKept, WorkInv, NEW w \in Workers,
         CheckResult(w) \/ PersistSuccess(w) \/ FailAttempt(w)
  PROVE  WorkInv'
<1>0. /\ Typed /\ pc \in [Actors -> ControlPoints] /\ w \in Actors
      /\ stale \in [Actors -> SUBSET StaleReads]
      /\ status \in [Tasks -> TaskStatuses] /\ expired \in [Tasks -> BOOLEAN]
      /\ attempts \in [Tasks -> Nat] /\ tries \in [Tasks -> Nat]
  BY DEF SafeInv, Typed, ActorsTyped, TablesTyped, Actors
<1>1. PICK u \in Tasks : job[w] = TaskJob(u) /\ job[w].id = u /\ pc[w] \in {"check", "run"}
  BY <1>0, JobShapes DEF CheckResult, PersistSuccess, FailAttempt, Typed, PointsMatch, Jobs, TaskJobs
<1>2. /\ Holds(w, u) /\ status[u] = "RUNNING" /\ ~expired[u]
      /\ \A v \in Workers : Holds(v, u) => v = w
  BY <1>1 DEF Holds, HoldingPoints, WorkInv, HeldOnce
<1>3. stale[w] = {} /\ \A a \in Actors : \A x \in stale[a] : x.task # u /\ x.task \in Tasks
  BY <1>0, <1>1, <1>2 DEF WorkInv, ReadsFresh, Typed, ActorsTyped, StaleReads
<1>4. CASE PersistSuccess(w) \/ (CheckResult(w) /\ result[u])
  <2>1. /\ status' = [status EXCEPT ![u] = "COMPLETED"]
        /\ pc' = [pc EXCEPT ![w] = "schedule"]
        /\ UNCHANGED <<job, stale, attempts, tries, expired>>
    BY <1>1, <1>2, <1>4 DEF PersistSuccess, CheckResult, Persistable
  <2>2. HeldOnce' /\ ReadsFresh'
    <3>1. pc'[w] \notin HoldingPoints /\ \A b \in Actors \ {w} : pc'[b] = pc[b]
      BY <1>0, <2>1 DEF HoldingPoints
    <3>2. status'[u] # "RUNNING" /\ \A t \in Tasks \ {u} : status'[t] = status[t]
      BY <1>0, <2>1
    <3> QED BY <1>0, <1>2, <1>3, <2>1, <3>1, <3>2, WorkLeaves
  <2>3. StartsCounted'
    BY <1>0, <1>1, <1>2, <2>1 DEF WorkInv, StartsCounted, Holds, HoldingPoints
  <2> QED BY <2>2, <2>3 DEF WorkInv
<1>5. CASE CheckResult(w) /\ ~result[u]
  <2>1. /\ tries' = [tries EXCEPT ![u] = @ + 1]
        /\ pc[w] = "check" /\ pc' = [pc EXCEPT ![w] = "run"]
        /\ UNCHANGED <<job, stale, status, attempts, expired>>
    BY <1>1, <1>5 DEF CheckResult
  <2>2. /\ \A v \in Workers : \A t \in Tasks : Holds(v, t)' <=> Holds(v, t)
        /\ \A v \in Workers : pc'[v] = "check" => v # w /\ pc[v] = "check"
        /\ \A v \in Workers : pc[v] = "recover" => pc'[v] = "recover"
    BY <1>0, <2>1 DEF Holds, HoldingPoints, Actors
  <2>3. HeldOnce' /\ ReadsFresh'
    BY <1>3, <2>1, <2>2 DEF WorkInv, HeldOnce, ReadsFresh
  <2>4. StartsCounted'
    <3>1. tries[u] <= attempts[u]
      BY <1>2, <2>1 DEF WorkInv, StartsCounted
    <3>2. tries'[u] = tries[u] + 1 /\ \A t \in Tasks \ {u} : tries'[t] = tries[t]
      BY <1>0, <2>1
    <3>3. \A v \in Workers : pc'[v] = "check" => ~Holds(v, u)
      BY <1>2, <2>2
    <3> QED BY <1>0, <1>2, <2>1, <2>2, <3>1, <3>2, <3>3 DEF WorkInv, StartsCounted
  <2> QED BY <2>3, <2>4 DEF WorkInv
<1>6. CASE FailAttempt(w)
  <2>1. /\ stale' = [stale EXCEPT ![w] = {[task |-> u, attempts |-> attempts[u]]}]
        /\ pc' = [pc EXCEPT ![w] = "recover"]
        /\ UNCHANGED <<job, status, attempts, tries, expired>>
    BY <1>1, <1>6 DEF FailAttempt, taskVars
  <2>2. /\ \A v \in Workers : \A t \in Tasks : Holds(v, t)' <=> Holds(v, t)
        /\ \A v \in Workers : pc'[v] = "check" => pc[v] = "check"
    BY <1>0, <1>1, <2>1 DEF Holds, HoldingPoints, Actors
  <2>3. HeldOnce' /\ StartsCounted'
    BY <2>1, <2>2 DEF WorkInv, HeldOnce, StartsCounted
  <2>4. ASSUME NEW a \in Actors, NEW x \in stale'[a]
        PROVE  /\ status'[x.task] = "RUNNING"
               /\ x.attempts = attempts'[x.task]
               /\ IF a \in Workers THEN pc'[a] = "recover" /\ Holds(a, x.task)' ELSE expired'[x.task]
    <3>1. CASE a = w
      <4>1. x.task = u /\ x.attempts = attempts[u]
        BY <1>0, <2>1, <2>4, <3>1
      <4> QED BY <1>0, <1>2, <2>1, <2>2, <3>1, <4>1
    <3>2. CASE a # w
      <4>1. x \in stale[a] /\ pc'[a] = pc[a] /\ x.task \in Tasks
        BY <1>0, <1>3, <2>1, <2>4, <3>2
      <4> QED BY <2>1, <2>2, <4>1 DEF WorkInv, ReadsFresh
    <3> QED BY <3>1, <3>2
  <2> QED BY <2>3, <2>4 DEF WorkInv, ReadsFresh
<1> QED BY <1>1, <1>4, <1>5, <1>6

LEMMA ReportWorks ==
  ASSUME OneReaper, SafeInv, RowsKept, WorkInv, NEW a \in Actors, NEW x \in stale[a],
         Retry(a, x) \/ Exhaust(a, x)
  PROVE  WorkInv'
<1>0. /\ Typed /\ pc \in [Actors -> ControlPoints]
      /\ stale \in [Actors -> SUBSET StaleReads] /\ status \in [Tasks -> TaskStatuses]
      /\ attempts \in [Tasks -> Nat] /\ tries \in [Tasks -> Nat]
  BY DEF SafeInv, Typed, ActorsTyped, TablesTyped
<1>1. PICK u \in Tasks : u = x.task /\ status[u] = "RUNNING" /\ x.attempts = attempts[u]
  BY <1>0, ReadOnce DEF WorkInv, ReadsFresh
<1>2. /\ \A v \in Workers : Holds(v, u) => v = a
      /\ \A b \in Actors : \A y \in stale[b] : y.task = u => b = a /\ y = x
      /\ a \in Workers => stale[a] = {x}
  BY <1>0, <1>1, ReadOnce DEF WorkInv
<1>3. /\ attempts' = [attempts EXCEPT ![u] = attempts[u] + 1]
      /\ \/ attempts[u] + 1 <= MaxRetries /\ status' = [status EXCEPT ![u] = "RETRYING"]
         \/ ~(attempts[u] + 1 <= MaxRetries) /\ status' = [status EXCEPT ![u] = "FAILED"]
      /\ stale' = [stale EXCEPT ![a] = @ \ {x}]
      /\ pc' = [pc EXCEPT ![a] = "zadd"] \/ pc' = [pc EXCEPT ![a] = "dlq"]
      /\ UNCHANGED <<job, tries, expired>>
  BY <1>1 DEF Retry, Exhaust, AttemptsNew, RetriesLeft
<1>4. /\ status'[u] \in {"RETRYING", "FAILED"} /\ attempts'[u] = attempts[u] + 1
      /\ \A t \in Tasks \ {u} : status'[t] = status[t] /\ attempts'[t] = attempts[t]
      /\ attempts[u] + 1 <= MaxRetries \/ status'[u] = "FAILED"
  BY <1>0, <1>3
<1>5. pc'[a] \notin HoldingPoints /\ \A b \in Actors \ {a} : pc'[b] = pc[b]
  BY <1>0, <1>3 DEF HoldingPoints
<1>6. /\ \A y \in stale'[a] : y \in stale[a] /\ y.task # u
      /\ \A b \in Actors \ {a} : stale'[b] = stale[b]
      /\ a \in Workers => stale'[a] = {}
  BY <1>0, <1>2, <1>3
<1>7. HeldOnce' /\ ReadsFresh'
  BY <1>0, <1>2, <1>3, <1>4, <1>5, <1>6, WorkLeaves
<1>8. StartsCounted'
  <2>1. \A w \in Workers : \A t \in Tasks : Holds(w, t)' => t # u /\ Holds(w, t) /\ pc'[w] = pc[w]
    BY <1>2, <1>3, <1>5 DEF Holds, Actors
  <2>2. attempts[u] <= MaxRetries
    BY <1>0, <1>1, MaxRetriesAssumption DEF WorkInv, StartsCounted
  <2>3. tries[u] <= attempts[u] + 1
    BY DEF WorkInv, StartsCounted
  <2>4. \A t \in Tasks \ {u} :
          /\ tries'[t] <= attempts'[t] + 1
          /\ tries'[t] = attempts'[t] + 1 => status'[t] \in {"RUNNING", "COMPLETED"}
          /\ \A w \in Workers : Holds(w, t)' /\ pc'[w] = "check" => tries'[t] <= attempts'[t]
          /\ attempts'[t] <= MaxRetries + 1
          /\ attempts'[t] = MaxRetries + 1 => status'[t] = "FAILED"
    BY <1>3, <1>4, <2>1 DEF WorkInv, StartsCounted
  <2>5. /\ tries'[u] <= attempts'[u] /\ attempts'[u] <= MaxRetries + 1
        /\ attempts'[u] = MaxRetries + 1 => status'[u] = "FAILED"
    BY <1>0, <1>3, <1>4, <2>2, <2>3, MaxRetriesAssumption
  <2> QED BY <1>0, <1>3, <1>4, <2>4, <2>5 DEF StartsCounted
<1> QED BY <1>7, <1>8 DEF WorkInv

LEMMA LeaseWorks ==
  ASSUME ~PrematureExpiry, Typed, WorkInv,
         \/ \E t \in Tasks : LeaseExpires(t)
         \/ \E r \in Reapers : ReaperScan(r)
  PROVE  WorkInv'
<1>0. /\ pc \in [Actors -> ControlPoints] /\ stale \in [Actors -> SUBSET StaleReads]
      /\ expired \in [Tasks -> BOOLEAN]
  BY DEF Typed, ActorsTyped, TablesTyped
<1>1. ASSUME NEW t \in Tasks, LeaseExpires(t) PROVE WorkInv'
  <2>1. /\ \A w \in Workers : ~Holds(w, t)
        /\ expired' = [expired EXCEPT ![t] = TRUE]
        /\ UNCHANGED <<status, attempts, tries, pc, job, stale>>
    BY <1>1 DEF LeaseExpires, Held, actorVars
  <2>2. HeldOnce'
    BY <1>0, <2>1 DEF WorkInv, HeldOnce, Holds
  <2>3. ReadsFresh'
    <3>1. \A a \in Actors : \A x \in stale[a] : x.task \in Tasks
      BY <1>0 DEF StaleReads
    <3> QED BY <1>0, <2>1, <3>1 DEF WorkInv, ReadsFresh, Holds
  <2>4. StartsCounted'
    BY <2>1 DEF WorkInv, StartsCounted, Holds
  <2> QED BY <2>2, <2>3, <2>4 DEF WorkInv
<1>2. ASSUME NEW r \in Reapers, ReaperScan(r) PROVE WorkInv'
  <2>1. /\ stale' = [stale EXCEPT ![r] = {[task |-> t, attempts |-> attempts[t]] : t \in StaleTasks}]
        /\ pc' = [pc EXCEPT ![r] = "recover"]
        /\ UNCHANGED <<status, attempts, tries, expired, job>>
        /\ r \in Actors /\ r \notin Workers
    BY <1>2, ActorsAssumption DEF ReaperScan, taskVars, Actors
  <2>2. \A w \in Workers : pc'[w] = pc[w] /\ stale'[w] = stale[w]
    BY <1>0, <2>1 DEF Actors
  <2>3. HeldOnce' /\ StartsCounted'
    BY <2>1, <2>2 DEF WorkInv, HeldOnce, StartsCounted, Holds
  <2>4. \A x \in stale'[r] : status[x.task] = "RUNNING" /\ x.attempts = attempts[x.task] /\ expired[x.task]
    BY <1>0, <2>1 DEF StaleTasks
  <2>5. \A a \in Actors \ {r} : stale'[a] = stale[a] /\ pc'[a] = pc[a]
    BY <1>0, <2>1
  <2>6. ReadsFresh'
    BY <2>1, <2>4, <2>5 DEF WorkInv, ReadsFresh, Holds
  <2> QED BY <2>3, <2>6 DEF WorkInv
<1> QED BY <1>1, <1>2

LEMMA WorkStep ==
  ASSUME ~PrematureExpiry, OneReaper
  PROVE  SafeInv /\ WorkInv /\ [Next]_vars => WorkInv'
<1> SUFFICES ASSUME SafeInv, WorkInv, [Next]_vars PROVE WorkInv'
  OBVIOUS
<1>1. CASE Next
  <2>1. Typed /\ RowsKept
    BY <1>1, RowsStep DEF SafeInv
  <2>2. CASE ~Attempting
    BY <1>1, <2>1, <2>2, OtherWork, WorkStays DEF WorkInv
  <2>3. CASE Attempting
    BY <2>1, <2>3, ClaimWorks, HeldWorks, ReportWorks, LeaseWorks DEF Attempting
  <2> QED BY <2>2, <2>3
<1>2. CASE UNCHANGED vars
  BY <1>2 DEF vars, taskVars, actorVars, WorkInv, HeldOnce, ReadsFresh, StartsCounted, Holds
<1> QED BY <1>1, <1>2

LEMMA WorkInvariant ==
  ASSUME ~PrematureExpiry, OneReaper PROVE Spec => [](SafeInv /\ WorkInv)
<1>1. SafeInv /\ [Next]_vars => SafeInv'
  BY SafeStep
<1>2. SafeInv /\ WorkInv /\ [Next]_vars => WorkInv'
  BY WorkStep
<1> QED BY <1>1, <1>2, InitSafe, InitWork, PTL DEF Spec

\* If leases outlast the work and one reaper runs, no two workers are at work
\* on the same task, however often its job is delivered.
THEOREM WorkedOnOnce ==
  ASSUME ~PrematureExpiry, OneReaper PROVE Spec => []NoDoubleWork
<1>1. WorkInv => NoDoubleWork
  BY DEF WorkInv, HeldOnce, NoDoubleWork
<1> QED BY <1>1, WorkInvariant, PTL

\* Then the attempts column accounts for every start of an agent.
THEOREM AttemptsAccount ==
  ASSUME ~PrematureExpiry, OneReaper PROVE Spec => []AttemptsAccountForTries
<1>1. SafeInv /\ WorkInv => AttemptsAccountForTries
  BY DEF SafeInv, Typed, TablesTyped, WorkInv, StartsCounted, AttemptsAccountForTries
<1> QED BY <1>1, WorkInvariant, PTL

\* And a task's agent is started at most max_retries + 1 times.
THEOREM WithinBudget ==
  ASSUME ~PrematureExpiry, OneReaper PROVE Spec => []RetryBudget
<1>1. SafeInv /\ WorkInv => RetryBudget
  BY MaxRetriesAssumption DEF SafeInv, Typed, TablesTyped, WorkInv, StartsCounted, RetryBudget
<1> QED BY <1>1, WorkInvariant, PTL
=============================================================================
