--------------------------- MODULE RecoveryProofs ---------------------------
(***************************************************************************)
(* Crash recovery loses nothing: whatever workers die while they work, and *)
(* however often the list delivers a job, every accepted execution has an  *)
(* actor that will plan it, run its next task or reach its verdict.  The   *)
(* invariant follows what is owed to an execution from hand to hand.       *)
(***************************************************************************)
EXTENDS WorkerProcess, RefinementProofs, DeliveryProofs

\* What an actor has in hand where it cannot have anything, or only this.
TidyHands(a) ==
  /\ pc[a] \notin {"recover", "zadd", "dlq"} => stale[a] = {}
  /\ pc[a] \in PlanPoints \cup {"idle", "claim", "check", "run"} => affected[a] = {}
  /\ pc[a] \notin {"pass", "push", "complete", "fail"} => pass[a].exec = None
  /\ \A x \in stale[a] : ExecutionOf(x.task) \in affected[a]
  /\ \A t \in pass[a].doomed : ExecutionOf(t) = pass[a].exec
  /\ a \in Workers => /\ \A x, y \in stale[a] : x = y
                      /\ pc[a] \in {"zadd", "dlq"} => stale[a] = {}

Tidy == \A a \in Actors : TidyHands(a)

\* The tasks a pass has to visit, and the executions it has to finalize.
DueTask(t) ==
  /\ execStatus[ExecutionOf(t)] = "RUNNING"
  /\ Waiting(t)
  /\ DepFailed(t) \/ DepsCompleted(t)

DueVerdict(e) == execStatus[e] = "RUNNING" /\ Settled(e)

\* An actor that will not forget what it is to look at: a worker that reports
\* an attempt may still die, but has changed nothing by then.
Staying(a) == ~(a \in Workers /\ pc[a] = "recover")

SeenTo ==
  /\ \A t \in Tasks : DueTask(t) => \E a \in Actors : Staying(a) /\ WillVisit(a, t)
  /\ \A e \in Executions : DueVerdict(e) => \E a \in Actors : Staying(a) /\ WillFinalize(a, e)

OnItsWay(t) == status[t] = "RETRYING" \/ (status[t] = "PENDING" /\ enqueued[t])

JobsOnTheirWay == \A t \in Tasks : OnItsWay(t) => Places(t) # {}

PlansOnTheirWay ==
  \A e \in Executions :
    /\ execStatus[e] = "PENDING" => PlanComing(e)
    /\ execStatus[e] = "PLANNING" => Planning(e)

RecoveryInv == Tidy /\ SeenTo /\ JobsOnTheirWay /\ PlansOnTheirWay

LEMMA InitRecovery == Init => RecoveryInv
<1> SUFFICES ASSUME Init PROVE RecoveryInv
  OBVIOUS
<1>1. Tidy
  BY DEF Init, NoPass, Tidy, TidyHands, Actors
<1>2. SeenTo /\ JobsOnTheirWay /\ PlansOnTheirWay
  BY TaskOfExecution DEF Init, SeenTo, DueTask, DueVerdict, JobsOnTheirWay, OnItsWay, PlansOnTheirWay
<1> QED BY <1>1, <1>2 DEF RecoveryInv

-----------------------------------------------------------------------------
(* The hands of the actors.                                                *)

OthersSame(a) ==
  \A b \in Actors \ {a} :
    pc'[b] = pc[b] /\ stale'[b] = stale[b] /\ affected'[b] = affected[b] /\ pass'[b] = pass[b]

LEMMA TidyAfter ==
  ASSUME Tidy, NEW a \in Actors, OthersSame(a), TidyHands(a)'
  PROVE  Tidy'
  BY DEF Tidy, TidyHands, OthersSame

LEMMA TidyDrop ==
  ASSUME Typed, Tidy, NEW a \in Actors, Drop(a)
  PROVE  Tidy' /\ OthersSame(a)
<1>1. OthersSame(a) /\ TidyHands(a)'
  BY DEF Typed, ActorsTyped, Drop, NoPass, OthersSame, TidyHands
<1> QED BY <1>1, TidyAfter

LEMMA TidyReturn ==
  ASSUME Typed, Tidy, NEW a \in Actors, Return(a), pc[a] \in {"pass", "complete", "fail"}
  PROVE  Tidy' /\ OthersSame(a)
<1>1. OthersSame(a) /\ TidyHands(a)'
  BY DEF Typed, ActorsTyped, Return, NoPass, OthersSame, Tidy, TidyHands, PlanPoints
<1> QED BY <1>1, TidyAfter

LEMMA ExecuteTidy ==
  ASSUME Typed, Tidy, NEW w \in Workers, Dequeue(w) \/ PlanStep(w) \/ ExecuteStep(w)
  PROVE  Tidy' /\ OthersSame(w)
<1>0. w \in Actors /\ TidyHands(w)
  BY DEF Tidy, Actors
<1> USE DEF Typed, ActorsTyped, OthersSame, TidyHands, PlanPoints
<1>1. CASE Dequeue(w)
  <2>1. OthersSame(w) /\ TidyHands(w)'
    BY <1>0, <1>1 DEF Dequeue
  <2> QED BY <1>0, <2>1, TidyAfter
<1>2. CASE GuardPlan(w) \/ Claim(w)
  <2>1. CASE Drop(w)
    BY <1>0, <2>1, TidyDrop
  <2>2. CASE ~Drop(w)
    <3>1. OthersSame(w) /\ TidyHands(w)'
      BY <1>0, <1>2, <2>2 DEF GuardPlan, Claim
    <3> QED BY <1>0, <3>1, TidyAfter
  <2> QED BY <2>1, <2>2
<1>3. ASSUME NEW p \in Plans, InsertTasks(w, p) \/ StartExecution(w) PROVE Tidy' /\ OthersSame(w)
  <2>1. OthersSame(w) /\ TidyHands(w)'
    BY <1>0, <1>3 DEF InsertTasks, StartExecution
  <2> QED BY <1>0, <2>1, TidyAfter
<1>4. CASE StartExecution(w) \/ CheckResult(w) \/ PersistSuccess(w)
  <2>1. OthersSame(w) /\ TidyHands(w)'
    BY <1>0, <1>4 DEF StartExecution, CheckResult, PersistSuccess
  <2> QED BY <1>0, <2>1, TidyAfter
<1>5. CASE FailAttempt(w)
  <2>1. OthersSame(w) /\ TidyHands(w)'
    BY <1>0, <1>5 DEF FailAttempt
  <2> QED BY <1>0, <2>1, TidyAfter
<1> QED BY <1>1, <1>2, <1>3, <1>4, <1>5 DEF PlanStep, ExecuteStep

LEMMA RecoverTidy ==
  ASSUME Typed, Tidy, NEW a \in Actors,
         RecoverStep(a) \/ (a \in Reapers /\ ReaperScan(a))
  PROVE  Tidy' /\ OthersSame(a)
<1>0. TidyHands(a)
  BY DEF Tidy
<1> USE DEF Typed, ActorsTyped, OthersSame, TidyHands, PlanPoints, AfterRecovery
<1>1. ASSUME NEW x \in stale[a], Retry(a, x) \/ Exhaust(a, x) PROVE OthersSame(a) /\ TidyHands(a)'
  <2>1. /\ stale' = [stale EXCEPT ![a] = @ \ {x}]
        /\ pass' = [pass EXCEPT ![a].task = x.task]
        /\ pc[a] = "recover"
        /\ pc' = [pc EXCEPT ![a] = "zadd"] \/ pc' = [pc EXCEPT ![a] = "dlq"]
        /\ UNCHANGED affected
    BY <1>1 DEF Retry, Exhaust
  <2>2. pass'[a].exec = pass[a].exec /\ pass'[a].doomed = pass[a].doomed
    BY <2>1 DEF Passes
  <2> QED BY <1>0, <2>1, <2>2
<1>2. ASSUME NEW x \in stale[a], Superseded(a, x) PROVE OthersSame(a) /\ TidyHands(a)'
  BY <1>0, <1>2 DEF Superseded
<1>3. CASE ScheduleRetry(a) \/ DeadLetter(a)
  <2>1. /\ pass' = [pass EXCEPT ![a].task = None]
        /\ pc[a] \in {"zadd", "dlq"} /\ pc' = [pc EXCEPT ![a] = AfterRecovery(stale[a])]
        /\ UNCHANGED <<stale, affected>>
    BY <1>3 DEF ScheduleRetry, DeadLetter
  <2>2. pass'[a].exec = pass[a].exec /\ pass'[a].doomed = pass[a].doomed
    BY <2>1 DEF Passes
  <2>3. OthersSame(a) /\ TidyHands(a)'
    BY <1>0, <2>1, <2>2
  <2> QED BY <2>3, TidyAfter
<1>4. CASE a \in Reapers /\ ReaperScan(a)
  <2>1. a \notin Workers
    BY <1>4, ActorsAssumption
  <2>2. OthersSame(a) /\ TidyHands(a)'
    BY <1>0, <1>4, <2>1 DEF ReaperScan, StaleTasks
  <2> QED BY <2>2, TidyAfter
<1> QED BY <1>1, <1>2, <1>3, <1>4, TidyAfter DEF RecoverStep

LEMMA PassTidy ==
  ASSUME Typed, Tidy, NEW a \in Actors, PassStep(a)
  PROVE  Tidy' /\ OthersSame(a)
<1>0. TidyHands(a)
  BY DEF Tidy
<1>s. ASSUME NEW e \in Executions
      PROVE  \A t \in Snapshot(e).doomed : ExecutionOf(t) = e
  BY <1>s, SnapshotType, TaskOfExecution DEF Rows
<1> USE DEF Typed, ActorsTyped, OthersSame, TidyHands, PlanPoints
<1>1. ASSUME NEW e \in affected[a], BeginPass(a, e) PROVE OthersSame(a) /\ TidyHands(a)'
  <2>1. e \in Executions
    OBVIOUS
  <2> QED BY <1>0, <1>1, <1>s, <2>1, SnapshotType DEF BeginPass
<1>2. CASE RepeatPass(a)
  <2>1. pass[a].exec \in Executions
    BY <1>2 DEF RepeatPass, LoopDone, PointsMatch
  <2>2. OthersSame(a) /\ TidyHands(a)'
    BY <1>0, <1>2, <1>s, <2>1, SnapshotType DEF RepeatPass, LoopDone
  <2> QED BY <2>2, TidyAfter
<1>3. ASSUME NEW t \in pass[a].doomed, Cascade(a, t) PROVE OthersSame(a) /\ TidyHands(a)'
  <2>1. pass[a].exec \in Executions /\ pc[a] = "pass"
    BY <1>3 DEF Cascade, PointsMatch
  <2>2. PICK further \in SUBSET {u \in Rows(pass[a].exec) : t \in Deps(u) /\ Waiting(u)} :
          pass' = [pass EXCEPT ![a].doomed = (@ \ {t}) \cup further,
                               ![a].changed = @ \/ status[t] = "PENDING"]
    BY <1>3 DEF Cascade
  <2>3. \A u \in further : ExecutionOf(u) = pass[a].exec
    BY <2>1, TaskOfExecution DEF Rows
  <2>4. pass'[a].exec = pass[a].exec /\ pass'[a].doomed = (pass[a].doomed \ {t}) \cup further
    BY <2>2 DEF Passes
  <2>5. UNCHANGED <<pc, stale, affected>> /\ \A b \in Actors \ {a} : pass'[b] = pass[b]
    BY <1>3, <2>2 DEF Cascade
  <2> QED BY <1>0, <2>1, <2>3, <2>4, <2>5
<1>4. ASSUME NEW t \in pass[a].ready, MarkEnqueued(a, t) PROVE OthersSame(a) /\ TidyHands(a)'
  <2>1. pass'[a].exec = pass[a].exec /\ pass'[a].doomed = pass[a].doomed
    BY <1>4 DEF MarkEnqueued, Passes
  <2> QED BY <1>0, <1>4, <2>1 DEF MarkEnqueued
<1>5. CASE PushTask(a)
  <2>1. pass'[a].exec = pass[a].exec /\ pass'[a].doomed = pass[a].doomed
    BY <1>5 DEF PushTask, Passes
  <2>2. OthersSame(a) /\ TidyHands(a)'
    BY <1>0, <1>5, <2>1 DEF PushTask
  <2> QED BY <2>2, TidyAfter
<1>6. CASE FinalizeRead(a)
  <2>1. CASE Return(a)
    BY <1>6, <2>1, TidyReturn DEF FinalizeRead, LoopDone
  <2>2. CASE ~Return(a)
    <3>1. OthersSame(a) /\ TidyHands(a)'
      BY <1>0, <1>6, <2>2 DEF FinalizeRead, LoopDone
    <3> QED BY <3>1, TidyAfter
  <2> QED BY <2>1, <2>2
<1>7. CASE FinalizeWrite(a)
  BY <1>7, TidyReturn DEF FinalizeWrite
<1> QED BY <1>1, <1>2, <1>3, <1>4, <1>5, <1>6, <1>7, TidyAfter DEF PassStep

\* The steps of nobody's: of the API, the promoters and time.
NobodyActs ==
  \/ ApiStep
  \/ \E p \in Promoters : PromoterStep(p) \/ PromoterCrash(p)
  \/ \E i \in DOMAIN queue : DuplicateDelivery(i)
  \/ \E t \in Tasks : Elapse(t)

LEMMA NobodyTouches ==
  ASSUME NobodyActs
  PROVE  UNCHANGED actorVars
  BY DEF NobodyActs, ApiStep, CreateExecution, EnqueuePlan, ApiStops, PromoterStep, QueueStep,
     PromoterCrash, DuplicateDelivery, Elapse, LeaseExpires

LEMMA TidyStep ==
  ASSUME Typed, Tidy, Next
  PROVE  Tidy'
<1>1. CASE NobodyActs
  BY <1>1, NobodyTouches DEF actorVars, Tidy, TidyHands
<1>2. ASSUME NEW a \in Actors, PlanError(a) \/ Crash(a) PROVE Tidy'
  BY <1>2, TidyDrop DEF PlanError, Crash
<1> QED BY <1>1, <1>2, ExecuteTidy, RecoverTidy, PassTidy
        DEF Next, FaultStep, WorkerStep, ReaperStep, NobodyActs, Actors
-----------------------------------------------------------------------------
(* Visits and verdicts.                                                    *)

\* Outside E, a step ends no task, launches no execution and makes no rows of a
\* running one.
Elsewhere(E) ==
  /\ \A t \in Tasks : ExecutionOf(t) \notin E =>
       /\ status'[t] \in Terminal => status'[t] = status[t]
       /\ status[t] = "ABSENT" => execStatus'[ExecutionOf(t)] # "RUNNING" \/ status'[t] = "ABSENT"
  /\ \A e \in Executions : e \notin E /\ execStatus'[e] = "RUNNING" => execStatus[e] = "RUNNING"

LEMMA NewlyDue ==
  ASSUME Typed, RowsKept, NEW E, Elsewhere(E)
  PROVE  /\ \A t \in Tasks : DueTask(t)' /\ ExecutionOf(t) \notin E => DueTask(t)
         /\ \A e \in Executions : DueVerdict(e)' /\ e \notin E => DueVerdict(e)
<1>0. \A t \in Tasks : ExecutionOf(t)' = ExecutionOf(t)
  BY DEF ExecutionOf
<1>1. ASSUME NEW t \in Tasks, DueTask(t)', ExecutionOf(t) \notin E
      PROVE  DueTask(t)
  <2>1. /\ execStatus'[ExecutionOf(t)] = "RUNNING" /\ execStatus[ExecutionOf(t)] = "RUNNING"
        /\ status'[t] = "PENDING" /\ ~enqueued'[t]
    BY <1>1, TaskOfExecution DEF DueTask, Waiting, Elsewhere
  <2>2. status[t] = "PENDING" /\ ~enqueued[t] /\ deps'[t] = deps[t]
    BY <1>1, <2>1 DEF RowsKept, Elsewhere
  <2>3. Deps(t)' = Deps(t) /\ \A d \in Deps(t) : d \in Tasks /\ ExecutionOf(d) \notin E
    <3>1. deps[t] \subseteq Index
      BY DEF Typed, TablesTyped
    <3> QED BY <1>1, <2>2, <3>1, TaskOfExecution DEF Deps, Tasks, ExecutionOf
  <2>4. \A d \in Deps(t) : status'[d] \in Terminal => status'[d] = status[d]
    BY <2>3 DEF Elsewhere
  <2>5. DepFailed(t) \/ DepsCompleted(t)
    BY <1>1, <2>3, <2>4 DEF DueTask, DepFailed, DepsCompleted, Terminal
  <2> QED BY <2>1, <2>2, <2>5 DEF DueTask, Waiting
<1>2. ASSUME NEW e \in Executions, DueVerdict(e)', e \notin E
      PROVE  DueVerdict(e)
  <2>1. execStatus[e] = "RUNNING"
    BY <1>2 DEF DueVerdict, Elsewhere
  <2>2. ASSUME NEW t \in TasksOf(e), status[t] # "ABSENT" PROVE status[t] \in Terminal
    <3>1. t \in Tasks /\ ExecutionOf(t) = e
      BY TaskOfExecution
    <3>2. status'[t] # "ABSENT"
      BY <2>2, <3>1 DEF RowsKept
    <3>3. status'[t] \in Terminal
      BY <1>2, <3>2 DEF DueVerdict, Settled, Rows
    <3> QED BY <1>2, <3>1, <3>3 DEF Elsewhere
  <2> QED BY <2>1, <2>2 DEF DueVerdict, Settled, Rows
<1> QED BY <1>1, <1>2

\* An actor that steps takes what becomes due upon itself, and forgets nothing.
Remembers(a, E) ==
  /\ E # {} => Staying(a)'
  /\ \A e \in E : e \in affected'[a] \/ (pass'[a].exec = e /\ pass'[a].changed)
  /\ Staying(a) =>
       /\ \A t \in Tasks : DueTask(t) /\ DueTask(t)' /\ WillVisit(a, t) => Staying(a)' /\ WillVisit(a, t)'
       /\ \A e \in Executions :
            DueVerdict(e) /\ DueVerdict(e)' /\ WillFinalize(a, e) => Staying(a)' /\ WillFinalize(a, e)'

LEMMA SeenStep ==
  ASSUME Typed, RowsKept, SeenTo, NEW a \in Actors, NEW E, Elsewhere(E), OthersSame(a), Remembers(a, E)
  PROVE  SeenTo'
<1>1. ASSUME NEW t \in Tasks, DueTask(t)'
      PROVE  \E b \in Actors : Staying(b)' /\ WillVisit(b, t)'
  <2>1. CASE ExecutionOf(t) \in E
    BY <2>1 DEF Remembers, WillVisit
  <2>2. CASE ExecutionOf(t) \notin E
    <3>1. DueTask(t)
      BY <1>1, <2>2, NewlyDue
    <3>2. PICK b \in Actors : Staying(b) /\ WillVisit(b, t)
      BY <3>1 DEF SeenTo
    <3>3. CASE b = a
      BY <1>1, <3>1, <3>2, <3>3 DEF Remembers
    <3>4. CASE b # a
      BY <3>2, <3>4 DEF OthersSame, Staying, WillVisit
    <3> QED BY <3>3, <3>4
  <2> QED BY <2>1, <2>2
<1>2. ASSUME NEW e \in Executions, DueVerdict(e)'
      PROVE  \E b \in Actors : Staying(b)' /\ WillFinalize(b, e)'
  <2>1. CASE e \in E
    BY <2>1 DEF Remembers, WillFinalize
  <2>2. CASE e \notin E
    <3>1. DueVerdict(e)
      BY <1>2, <2>2, NewlyDue
    <3>2. PICK b \in Actors : Staying(b) /\ WillFinalize(b, e)
      BY <3>1 DEF SeenTo
    <3>3. CASE b = a
      BY <1>2, <3>1, <3>2, <3>3 DEF Remembers
    <3>4. CASE b # a
      BY <3>2, <3>4 DEF OthersSame, Staying, WillFinalize
    <3> QED BY <3>3, <3>4
  <2> QED BY <2>1, <2>2
<1> QED BY <1>1, <1>2 DEF SeenTo

\* Where an actor has nothing to remember.
Blank(a) == affected[a] = {} /\ pass[a].exec = None

LEMMA BlankRemembers ==
  ASSUME NEW a \in Actors, Blank(a), NEW E, E # {} => Staying(a)', E \subseteq affected'[a]
  PROVE  Remembers(a, E)
<1>1. /\ \A t \in Tasks : ~WillVisit(a, t)
      /\ \A e \in Executions : ~WillFinalize(a, e)
  BY NoneAssumption, TaskOfExecution DEF Blank, WillVisit, WillFinalize
<1> QED BY <1>1 DEF Remembers

LEMMA ExecuteSeen ==
  ASSUME RefInv, RowsKept, RecoveryInv, NEW w \in Workers, Dequeue(w) \/ PlanStep(w) \/ ExecuteStep(w)
  PROVE  SeenTo'
<1>0. /\ Typed /\ Tidy /\ SeenTo /\ w \in Actors /\ OthersSame(w)
  BY ExecuteTidy DEF RefInv, SafeInv, RecoveryInv, Actors
<1>1. Blank(w)
  BY <1>0 DEF Tidy, TidyHands, Blank, PlanPoints, Dequeue, PlanStep, GuardPlan, InsertTasks,
     StartExecution, ExecuteStep, Claim, CheckResult, PersistSuccess, FailAttempt
<1> USE DEF Typed, TablesTyped, ActorsTyped
<1>2. ASSUME Elsewhere({}) PROVE SeenTo'
  <2>1. Remembers(w, {})
    BY <1>0, <1>1, BlankRemembers
  <2> QED BY <1>0, <1>2, <2>1, SeenStep
<1>3. ASSUME NEW e \in Executions, Elsewhere({e}), affected'[w] = {e}, pc'[w] = "schedule" PROVE SeenTo'
  <2>1. Remembers(w, {e})
    BY <1>0, <1>1, <1>3, BlankRemembers DEF Staying
  <2> QED BY <1>0, <1>3, <2>1, SeenStep
<1>4. CASE Dequeue(w) \/ GuardPlan(w) \/ FailAttempt(w)
  <2>1. Elsewhere({})
    BY <1>0, <1>4 DEF Elsewhere, Dequeue, GuardPlan, FailAttempt, taskVars
  <2> QED BY <1>2, <2>1
<1>5. ASSUME NEW p \in Plans, InsertTasks(w, p) PROVE SeenTo'
  <2>1. \A t \in {<<job[w].id, i>> : i \in DOMAIN p} : ExecutionOf(t) = job[w].id
    BY DEF ExecutionOf
  <2>2. execStatus[job[w].id] = "PLANNING"
    BY <1>5 DEF RefInv, PlannersMatch, PlannerMatch, InsertTasks
  <2>3. Elsewhere({})
    BY <1>0, <1>5, <2>1, <2>2 DEF Elsewhere, InsertTasks, Terminal
  <2> QED BY <1>2, <2>3
<1>6. CASE StartExecution(w)
  <2>1. job[w].id \in Executions
    BY <1>0, <1>6, JobShapes DEF StartExecution, PointsMatch, PlanPoints
  <2>2. Elsewhere({job[w].id}) /\ affected'[w] = {job[w].id} /\ pc'[w] = "schedule"
    BY <1>0, <1>6, <2>1 DEF Elsewhere, StartExecution, taskVars
  <2> QED BY <1>3, <2>1, <2>2
<1>7. CASE Claim(w)
  <2>1. Elsewhere({})
    BY <1>0, <1>7 DEF Elsewhere, Claim, Claimable, Terminal
  <2> QED BY <1>2, <2>1
<1>8. CASE CheckResult(w) \/ PersistSuccess(w)
  <2>1. PICK u \in Tasks : u = job[w].id /\ ExecutionOf(u) \in Executions
    BY <1>0, <1>8, JobShapes, TaskOfExecution DEF CheckResult, PersistSuccess, PointsMatch
  <2>2. CASE CheckResult(w) /\ ~result[u]
    <3>1. Elsewhere({})
      BY <1>0, <2>1, <2>2 DEF Elsewhere, CheckResult
    <3> QED BY <1>2, <3>1
  <2>3. CASE ~(CheckResult(w) /\ ~result[u])
    <3>1. /\ affected'[w] = {ExecutionOf(u)} /\ pc'[w] = "schedule"
          /\ execStatus' = execStatus /\ \A t \in Tasks \ {u} : status'[t] = status[t]
          /\ status[u] = "ABSENT" => status'[u] = "ABSENT"
      BY <1>0, <1>8, <2>1, <2>3 DEF CheckResult, PersistSuccess, Persistable
    <3>2. Elsewhere({ExecutionOf(u)})
      BY <2>1, <3>1 DEF Elsewhere
    <3> QED BY <1>3, <2>1, <3>1, <3>2
  <2> QED BY <2>2, <2>3
<1> QED BY <1>4, <1>5, <1>6, <1>7, <1>8 DEF PlanStep, ExecuteStep
LEMMA RecoverSeen ==
  ASSUME RefInv, RowsKept, RecoveryInv, NEW a \in Actors,
         RecoverStep(a) \/ (a \in Reapers /\ ReaperScan(a))
  PROVE  SeenTo'
<1>0. /\ Typed /\ Tidy /\ TidyHands(a) /\ SeenTo /\ OthersSame(a)
      /\ \A x \in stale[a] : x.task \in Tasks /\ ExecutionOf(x.task) \in Executions
  BY RecoverTidy, TaskOfExecution DEF RefInv, SafeInv, RecoveryInv, Tidy, Typed, ActorsTyped, StaleReads
<1> USE DEF Typed, TablesTyped, ActorsTyped
<1>1. CASE a \in Reapers /\ ReaperScan(a)
  <2>1. Blank(a) /\ Elsewhere({})
    BY <1>0, <1>1 DEF ReaperScan, TidyHands, PlanPoints, Blank, Elsewhere, taskVars
  <2>2. Remembers(a, {})
    BY <2>1, BlankRemembers
  <2> QED BY <1>0, <2>1, <2>2, SeenStep
\* The executions it is to look at are all it has to remember.
<1>2. ASSUME affected'[a] = affected[a], pc[a] \in {"recover", "zadd", "dlq"},
             Staying(a)' \/ (~Staying(a) /\ pc'[a] = "recover"), NEW E \in SUBSET affected[a],
             E # {} => Staying(a)'
      PROVE  Remembers(a, E)
  <2>1. pass[a].exec = None
    BY <1>0, <1>2 DEF TidyHands
  <2>2. /\ \A t \in Tasks : WillVisit(a, t) => WillVisit(a, t)'
        /\ \A e \in Executions : WillFinalize(a, e) => WillFinalize(a, e)'
    <3>1. \A t \in Tasks : ExecutionOf(t) # None /\ ExecutionOf(t)' = ExecutionOf(t)
      BY NoneAssumption, TaskOfExecution DEF ExecutionOf
    <3> QED BY <1>2, <2>1, <3>1, NoneAssumption DEF WillVisit, WillFinalize
  <2> QED BY <1>2, <2>2 DEF Remembers
<1>3. ASSUME NEW x \in stale[a], Retry(a, x) PROVE SeenTo'
  <2>1. Elsewhere({})
    BY <1>0, <1>3 DEF Elsewhere, Retry, StillRunning, Terminal
  <2>2. Remembers(a, {})
    BY <1>0, <1>2, <1>3 DEF Retry, Staying
  <2> QED BY <1>0, <2>1, <2>2, SeenStep
<1>4. ASSUME NEW x \in stale[a], Exhaust(a, x) PROVE SeenTo'
  <2>1. ExecutionOf(x.task) \in affected[a]
    BY <1>0 DEF TidyHands
  <2>2. Elsewhere({ExecutionOf(x.task)})
    BY <1>0, <1>4 DEF Elsewhere, Exhaust, StillRunning
  <2>3. Remembers(a, {ExecutionOf(x.task)})
    BY <1>0, <1>2, <1>4, <2>1 DEF Exhaust, Staying
  <2> QED BY <1>0, <2>2, <2>3, SeenStep
<1>5. CASE ScheduleRetry(a) \/ DeadLetter(a)
  <2>1. Elsewhere({})
    BY <1>0, <1>5 DEF Elsewhere, ScheduleRetry, DeadLetter, taskVars
  <2>2. Staying(a)'
    BY <1>0, <1>5 DEF ScheduleRetry, DeadLetter, TidyHands, AfterRecovery, Staying
  <2>3. Remembers(a, {})
    BY <1>0, <1>2, <1>5, <2>2 DEF ScheduleRetry, DeadLetter
  <2> QED BY <1>0, <2>1, <2>3, SeenStep
<1>6. ASSUME NEW x \in stale[a], Superseded(a, x) PROVE SeenTo'
  <2>1. Elsewhere({})
    BY <1>0, <1>6 DEF Elsewhere, Superseded, taskVars
  <2>2. Staying(a)'
    BY <1>0, <1>6 DEF Superseded, TidyHands, AfterRecovery, Staying
  <2>3. Remembers(a, {})
    BY <1>0, <1>2, <1>6, <2>2 DEF Superseded
  <2> QED BY <1>0, <2>1, <2>3, SeenStep
<1> QED BY <1>1, <1>3, <1>4, <1>5, <1>6 DEF RecoverStep

LEMMA PassVisits ==
  ASSUME RefInv, RowsKept, RecoveryInv, NEW a \in Actors, PassStep(a)
  PROVE  SeenTo'
<1>0. /\ Typed /\ Tidy /\ TidyHands(a) /\ SeenTo /\ OthersSame(a)
  BY PassTidy DEF RefInv, SafeInv, RecoveryInv, Tidy
<1>n. /\ \A t \in Tasks : ExecutionOf(t) # None /\ ExecutionOf(t)' = ExecutionOf(t)
      /\ None \notin Executions
  BY NoneAssumption, TaskOfExecution DEF ExecutionOf
<1> USE DEF Typed, TablesTyped, ActorsTyped
\* What a snapshot shows an actor is due.
<1>s. ASSUME NEW e \in Executions, NEW t \in Tasks, ExecutionOf(t) = e, DueTask(t)
      PROVE  t \in Snapshot(e).ready \cup Snapshot(e).doomed
  BY <1>s, TaskOfExecution DEF Snapshot, Rows, DueTask, Waiting
<1>1. ASSUME NEW e \in affected[a], BeginPass(a, e) PROVE SeenTo'
  <2>0. e \in Executions
    BY <1>0
  <2>1. Elsewhere({})
    BY <1>0, <1>1 DEF Elsewhere, BeginPass, taskVars
  <2>2. /\ affected'[a] = affected[a] \ {e} /\ pass'[a] = Snapshot(e) /\ pass[a].exec = None
        /\ Staying(a)'
    BY <1>0, <1>1 DEF BeginPass, TidyHands, Staying
  <2>3. Remembers(a, {})
    BY <1>n, <1>s, <2>0, <2>2, SnapshotType DEF Remembers, WillVisit, WillFinalize
  <2> QED BY <1>0, <2>1, <2>3, SeenStep
<1>2. CASE RepeatPass(a)
  <2>0. pass[a].exec \in Executions
    BY <1>0, <1>2 DEF RepeatPass, LoopDone, PointsMatch
  <2>1. Elsewhere({})
    BY <1>0, <1>2 DEF Elsewhere, RepeatPass, taskVars
  <2>2. /\ affected'[a] = affected[a] /\ pass'[a] = Snapshot(pass[a].exec)
        /\ pc' = pc /\ pc[a] = "pass"
    BY <1>0, <1>2 DEF RepeatPass, LoopDone
  <2>3. Remembers(a, {})
    BY <1>n, <1>s, <2>0, <2>2, SnapshotType DEF Remembers, WillVisit, WillFinalize, Staying
  <2> QED BY <1>0, <2>1, <2>3, SeenStep
<1>3. ASSUME NEW u \in pass[a].doomed, Cascade(a, u) PROVE SeenTo'
  <2>0. u \in Tasks /\ ExecutionOf(u) = pass[a].exec /\ pass[a].exec \in Executions /\ pc[a] = "pass"
    BY <1>0, <1>3, PassUpdate DEF Cascade, PointsMatch, TidyHands
  <2>1. PICK further \in SUBSET {v \in Rows(pass[a].exec) : u \in Deps(v) /\ Waiting(v)} :
          pass' = [pass EXCEPT ![a].doomed = (@ \ {u}) \cup further,
                               ![a].changed = @ \/ status[u] = "PENDING"]
    BY <1>3 DEF Cascade
  <2>2. /\ pass'[a].exec = pass[a].exec /\ pass'[a].ready = pass[a].ready
        /\ pass'[a].doomed = (pass[a].doomed \ {u}) \cup further
        /\ pass'[a].changed = (pass[a].changed \/ status[u] = "PENDING")
    BY <1>0, <2>1 DEF Passes
  <2>3. affected' = affected /\ pc' = pc /\ execStatus' = execStatus /\ Staying(a)'
    BY <1>3, <2>0 DEF Cascade, Staying
  <2>4. CASE status[u] = "PENDING"
    <3>1. Elsewhere({pass[a].exec})
      BY <1>0, <1>3, <2>0, <2>4 DEF Elsewhere, Cascade
    <3>2. Remembers(a, {pass[a].exec})
      BY <1>n, <2>2, <2>3, <2>4 DEF Remembers, WillVisit, WillFinalize
    <3> QED BY <1>0, <3>1, <3>2, SeenStep
  <2>5. CASE status[u] # "PENDING"
    <3>1. Elsewhere({})
      BY <1>0, <1>3, <2>5 DEF Elsewhere, Cascade
    <3>2. ~DueTask(u)
      BY <2>5 DEF DueTask, Waiting
    <3>3. Remembers(a, {})
      BY <1>n, <2>2, <2>3, <3>2 DEF Remembers, WillVisit, WillFinalize
    <3> QED BY <1>0, <3>1, <3>3, SeenStep
  <2> QED BY <2>4, <2>5
<1>4. ASSUME NEW u \in pass[a].ready, MarkEnqueued(a, u) PROVE SeenTo'
  <2>0. u \in Tasks /\ pc[a] = "pass" /\ enqueued'[u]
    BY <1>0, <1>4, PassUpdate DEF MarkEnqueued
  <2>1. Elsewhere({})
    BY <1>0, <1>4 DEF Elsewhere, MarkEnqueued
  <2>2. /\ pass'[a].exec = pass[a].exec /\ pass'[a].ready = pass[a].ready \ {u}
        /\ pass'[a].doomed = pass[a].doomed /\ pass'[a].changed = pass[a].changed
        /\ affected' = affected
    BY <1>0, <1>4 DEF MarkEnqueued, Passes
  <2>3. Staying(a)'
    BY <1>0, <1>4 DEF MarkEnqueued, Staying
  <2>4. ~DueTask(u)'
    BY <2>0 DEF DueTask, Waiting
  <2>5. Remembers(a, {})
    BY <1>n, <2>0, <2>2, <2>3, <2>4 DEF Remembers, WillVisit, WillFinalize
  <2> QED BY <1>0, <2>1, <2>5, SeenStep
<1>5. CASE PushTask(a)
  <2>1. Elsewhere({})
    BY <1>0, <1>5 DEF Elsewhere, PushTask, taskVars
  <2>2. pass'[a].exec = pass[a].exec /\ pass'[a].changed /\ affected' = affected
    BY <1>0, <1>5 DEF PushTask, Passes
  <2>3. Staying(a)'
    BY <1>0, <1>5 DEF PushTask, Staying
  <2>4. Remembers(a, {})
    BY <1>n, <2>2, <2>3 DEF Remembers, WillVisit, WillFinalize
  <2> QED BY <1>0, <2>1, <2>4, SeenStep
<1>6. CASE FinalizeRead(a)
  <2>0. /\ pass[a].exec \in Executions /\ pc[a] = "pass" /\ pass[a].ready = {}
        /\ pass[a].doomed = {} /\ ~pass[a].changed
    BY <1>0, <1>6 DEF FinalizeRead, LoopDone, PointsMatch
  <2>1. Elsewhere({})
    BY <1>0, <1>6 DEF Elsewhere, FinalizeRead, taskVars
  <2>2. affected'[a] = affected[a] /\ Staying(a)'
    BY <1>0, <1>6 DEF FinalizeRead, Return, Staying
  <2>3. ASSUME NEW e \in Executions, DueVerdict(e), WillFinalize(a, e) PROVE WillFinalize(a, e)'
    <3>1. CASE e \in affected[a]
      BY <2>2, <3>1 DEF WillFinalize
    <3>2. CASE pass[a].exec = e
      <4>1. Rows(e) # {} /\ \A t \in Rows(e) : status[t] \notin NonTerminal
        BY <2>3 DEF DueVerdict, Settled, RefInv, ExecutionsMatch, Terminal, NonTerminal
      <4>2. UNCHANGED pass
        BY <1>6, <3>2, <4>1 DEF FinalizeRead
      <4> QED BY <3>2, <4>2 DEF WillFinalize
    <3> QED BY <2>3, <3>1, <3>2 DEF WillFinalize
  <2>4. Remembers(a, {})
    BY <1>n, <2>0, <2>2, <2>3 DEF Remembers, WillVisit
  <2> QED BY <1>0, <2>1, <2>4, SeenStep
<1>7. CASE FinalizeWrite(a)
  <2>0. pass[a].exec \in Executions /\ pc[a] \in {"complete", "fail"}
    BY <1>0, <1>7 DEF FinalizeWrite, PointsMatch
  <2>1. Elsewhere({})
    BY <1>0, <1>7, <2>0 DEF Elsewhere, FinalizeWrite, taskVars
  <2>2. affected'[a] = affected[a] /\ Staying(a)'
    BY <1>0, <1>7 DEF FinalizeWrite, Return, Staying
  <2>3. execStatus'[pass[a].exec] # "RUNNING"
    BY <1>0, <1>7, <2>0 DEF FinalizeWrite
  <2>4. Remembers(a, {})
    BY <1>n, <2>2, <2>3 DEF Remembers, WillVisit, WillFinalize, DueTask, DueVerdict
  <2> QED BY <1>0, <2>1, <2>4, SeenStep
<1> QED BY <1>1, <1>2, <1>3, <1>4, <1>5, <1>6, <1>7 DEF PassStep

\* Workers die where they have nothing to remember, or have changed nothing.
LEMMA DropSeen ==
  ASSUME RefInv, RowsKept, RecoveryInv, NEW a \in Actors, Drop(a), Elsewhere({}),
         pc[a] \in {"guard", "llm", "start", "check", "run"} \/ ~Staying(a)
  PROVE  SeenTo'
<1>0. /\ Typed /\ Tidy /\ TidyHands(a) /\ SeenTo /\ OthersSame(a)
  BY TidyDrop DEF RefInv, SafeInv, RecoveryInv, Tidy
<1>1. Remembers(a, {})
  <2>1. CASE ~Staying(a)
    BY <2>1 DEF Remembers
  <2>2. CASE pc[a] \in {"guard", "llm", "start", "check", "run"}
    <3>1. Blank(a)
      BY <1>0, <2>2 DEF TidyHands, Blank, PlanPoints
    <3> QED BY <3>1, BlankRemembers
  <2> QED BY <2>1, <2>2
<1> QED BY <1>0, <1>1, SeenStep

LEMMA NobodySeen ==
  ASSUME RefInv, RowsKept, RecoveryInv, NobodyActs
  PROVE  SeenTo'
<1>0. Typed /\ SeenTo /\ UNCHANGED <<pc, affected, pass>>
  BY NobodyTouches DEF RefInv, SafeInv, RecoveryInv, actorVars
<1>1. UNCHANGED status
  BY DEF NobodyActs, ApiStep, CreateExecution, EnqueuePlan, ApiStops, PromoterStep, QueueStep,
     PromoterCrash, DuplicateDelivery, Elapse, LeaseExpires, taskVars
<1>2. \A e \in Executions : execStatus'[e] = "RUNNING" => execStatus[e] = "RUNNING"
  BY <1>0 DEF NobodyActs, ApiStep, CreateExecution, EnqueuePlan, ApiStops, PromoterStep, QueueStep,
     PromoterCrash, DuplicateDelivery, Elapse, LeaseExpires, Typed, TablesTyped
<1>3. Elsewhere({})
  BY <1>1, <1>2 DEF Elsewhere
<1>4. \A a \in Actors : \A t \in Tasks : \A e \in Executions :
        /\ Staying(a) => Staying(a)'
        /\ WillVisit(a, t) => WillVisit(a, t)'
        /\ WillFinalize(a, e) => WillFinalize(a, e)'
  BY <1>0 DEF Staying, WillVisit, WillFinalize, ExecutionOf
<1>5. /\ \A t \in Tasks : DueTask(t)' => DueTask(t)
      /\ \A e \in Executions : DueVerdict(e)' => DueVerdict(e)
  BY <1>0, <1>3, NewlyDue
<1>6. \A t \in Tasks : DueTask(t)' => \E a \in Actors : Staying(a)' /\ WillVisit(a, t)'
  BY <1>0, <1>4, <1>5, TaskOfExecution DEF SeenTo
<1>7. \A e \in Executions : DueVerdict(e)' => \E a \in Actors : Staying(a)' /\ WillFinalize(a, e)'
  BY <1>0, <1>5 DEF SeenTo, Staying, WillFinalize
<1> QED BY <1>6, <1>7 DEF SeenTo
-----------------------------------------------------------------------------
(* The jobs of tasks and of plans.                                         *)

\* The hands in which a job is on its way.
InHand == {"claim", "push", "zadd", "guard", "llm", "start"}

\* A step that keeps every job but those of task u, and one that keeps every
\* plan but that of e.
JobsKept(u) ==
  /\ \A i \in DOMAIN queue :
       queue[i] \in TaskJobs /\ queue[i] # TaskJob(u) => \E j \in DOMAIN queue' : queue'[j] = queue[i]
  /\ \A p \in Promoters : moving[p] \in Tasks \ {u} => moving'[p] = moving[p]
  /\ delayed \ {u} \subseteq delayed'
  /\ \A w \in Workers :
       pc[w] = "claim" /\ job[w] # TaskJob(u) => pc'[w] = "claim" /\ job'[w] = job[w]
  /\ \A a \in Actors :
       pc[a] \in {"push", "zadd"} /\ pass[a].task # u =>
         pc'[a] \in {"push", "zadd"} /\ pass'[a].task = pass[a].task

PlansKept(e) ==
  /\ \A f \in Executions \ {e} :
       execStatus'[f] \in {"PENDING", "PLANNING"} => execStatus'[f] = execStatus[f]
  /\ apiPending \ {e} \subseteq apiPending'
  /\ \A i \in DOMAIN queue :
       queue[i] \in PlanJobs /\ queue[i] # PlanJob(e) => \E j \in DOMAIN queue' : queue'[j] = queue[i]
  /\ \A w \in Workers :
       pc[w] \in {"guard", "llm", "start"} /\ job[w] # PlanJob(e) => pc'[w] = pc[w] /\ job'[w] = job[w]

\* A step that keeps them all.
HandsKept ==
  \A a \in Actors :
    pc[a] \in InHand => pc'[a] = pc[a] /\ job'[a] = job[a] /\ pass'[a].task = pass[a].task

AllKept ==
  /\ \A i \in DOMAIN queue : \E j \in DOMAIN queue' : queue'[j] = queue[i]
  /\ \A p \in Promoters : moving'[p] = moving[p]
  /\ delayed \subseteq delayed'
  /\ apiPending \subseteq apiPending'
  /\ HandsKept

RowsOnWay(u) == \A t \in Tasks \ {u} : OnItsWay(t)' => OnItsWay(t)

LEMMA JobsRemain ==
  ASSUME JobsOnTheirWay, NEW u, JobsKept(u), RowsOnWay(u),
         u \in Tasks => (OnItsWay(u)' => Places(u)' # {})
  PROVE  JobsOnTheirWay'
<1> SUFFICES ASSUME NEW t \in Tasks \ {u}, OnItsWay(t)' PROVE Places(t)' # {}
  BY DEF JobsOnTheirWay
<1>1. PICK y : y \in Places(t)
  BY DEF RowsOnWay, JobsOnTheirWay
<1>2. TaskJob(t) \in TaskJobs /\ TaskJob(t) # TaskJob(u)
  BY DEF TaskJobs, TaskJob
<1>3. CASE \E i \in DOMAIN queue : queue[i] = TaskJob(t)
  <2>1. \E j \in DOMAIN queue' : queue'[j] = TaskJob(t)
    BY <1>2, <1>3 DEF JobsKept
  <2>2. PICK j \in DOMAIN queue' : queue'[j] = TaskJob(t)
    BY <2>1
  <2>3. <<"list", j>> \in Places(t)'
    BY <2>2 DEF Places
  <2> QED BY <2>3
<1>4. ASSUME NEW p \in Promoters, moving[p] = t PROVE Places(t)' # {}
  <2>1. <<"moving", p>> \in Places(t)'
    BY <1>4 DEF Places, JobsKept
  <2> QED BY <2>1
<1>5. ASSUME NEW w \in Workers, job[w] = TaskJob(t), pc[w] = "claim" PROVE Places(t)' # {}
  <2>1. <<"claim", w>> \in Places(t)'
    BY <1>2, <1>5 DEF Places, JobsKept
  <2> QED BY <2>1
<1>6. ASSUME NEW a \in Actors, pc[a] \in {"push", "zadd"}, pass[a].task = t PROVE Places(t)' # {}
  <2>1. <<"send", a>> \in Places(t)'
    BY <1>6 DEF Places, JobsKept
  <2> QED BY <2>1
<1>7. CASE t \in delayed
  <2>1. <<"delayed", t>> \in Places(t)'
    BY <1>7 DEF Places, JobsKept
  <2> QED BY <2>1
<1>8. \/ \E i \in DOMAIN queue : queue[i] = TaskJob(t)
      \/ \E p \in Promoters : moving[p] = t
      \/ \E w \in Workers : job[w] = TaskJob(t) /\ pc[w] = "claim"
      \/ \E a \in Actors : pc[a] \in {"push", "zadd"} /\ pass[a].task = t
      \/ t \in delayed
  BY <1>1, PlaceCases
<1> QED BY <1>3, <1>4, <1>5, <1>6, <1>7, <1>8

LEMMA PlansRemain ==
  ASSUME PlansOnTheirWay, NEW e, PlansKept(e),
         e \in Executions => /\ execStatus'[e] = "PENDING" => PlanComing(e)'
                             /\ execStatus'[e] = "PLANNING" => Planning(e)'
  PROVE  PlansOnTheirWay'
<1> SUFFICES ASSUME NEW f \in Executions \ {e}
             PROVE  /\ execStatus'[f] = "PENDING" => PlanComing(f)'
                    /\ execStatus'[f] = "PLANNING" => Planning(f)'
  BY DEF PlansOnTheirWay
<1>1. PlanJob(f) \in PlanJobs /\ PlanJob(f) # PlanJob(e)
  BY DEF PlanJobs, PlanJob
<1>2. execStatus'[f] = "PENDING" => PlanComing(f)'
  <2> SUFFICES ASSUME execStatus'[f] = "PENDING" PROVE PlanComing(f)'
    OBVIOUS
  <2>1. PlanComing(f)
    BY DEF PlansOnTheirWay, PlansKept
  <2> QED BY <1>1, <2>1 DEF PlanComing, PlansKept
<1>3. execStatus'[f] = "PLANNING" => Planning(f)'
  <2> SUFFICES ASSUME execStatus'[f] = "PLANNING" PROVE Planning(f)'
    OBVIOUS
  <2>1. Planning(f)
    BY DEF PlansOnTheirWay, PlansKept
  <2> QED BY <1>1, <2>1 DEF Planning, PlansKept
<1> QED BY <1>2, <1>3

LEMMA AllKeptKeeps ==
  ASSUME AllKept
  PROVE  /\ \A u : JobsKept(u)
         /\ (\A e \in Executions :
               execStatus'[e] \in {"PENDING", "PLANNING"} => execStatus'[e] = execStatus[e]) =>
            \A e : PlansKept(e)
  BY DEF AllKept, HandsKept, InHand, JobsKept, PlansKept, Actors

LEMMA NothingMoves ==
  ASSUME RecoveryInv, AllKept, RowsOnWay(None),
         \A e \in Executions :
           execStatus'[e] \in {"PENDING", "PLANNING"} => execStatus'[e] = execStatus[e]
  PROVE  JobsOnTheirWay' /\ PlansOnTheirWay'
<1>1. JobsKept(None) /\ PlansKept(None)
  BY AllKeptKeeps
<1>2. JobsOnTheirWay'
  BY <1>1, NoneAssumption, JobsRemain DEF RecoveryInv
<1>3. PlansOnTheirWay'
  BY <1>1, NoneAssumption, PlansRemain DEF RecoveryInv
<1> QED BY <1>2, <1>3

LEMMA ListGrows ==
  ASSUME Typed, NEW j \in Jobs, queue' = Append(queue, j)
  PROVE  /\ \A i \in DOMAIN queue : i \in DOMAIN queue' /\ queue'[i] = queue[i]
         /\ Len(queue) + 1 \in DOMAIN queue' /\ queue'[Len(queue) + 1] = j
  BY DEF Typed, QueueTypeOK
\* Workers die, if at all, between claiming a task and reporting its outcome,
\* or reapers with a stale task in hand: nowhere with a job on its way.
CrashesWhileWorking == CrashPoints \subseteq HoldingPoints

\* The steps that move a job or a plan, or make a task wait for one.
Moving ==
  \/ \E e \in Executions : CreateExecution(e) \/ EnqueuePlan(e)
  \/ \E w \in Workers : \/ Dequeue(w) \/ PlanStep(w) \/ Claim(w) \/ PlanError(w)
  \/ \E a \in Actors : \/ ScheduleRetry(a) \/ PushTask(a)
                       \/ \E x \in stale[a] : Retry(a, x)
                       \/ \E t \in pass[a].ready : MarkEnqueued(a, t)
  \/ \E p \in Promoters : \/ QueueStep(PromotePush(p))
                          \/ \E t \in scan[p] : QueueStep(PromoteRemove(p, t))

Still ==
  /\ AllKept
  /\ RowsOnWay(None)
  /\ \A e \in Executions :
       execStatus'[e] \in {"PENDING", "PLANNING"} => execStatus'[e] = execStatus[e]

LEMMA OtherStill ==
  ASSUME Typed, CrashesWhileWorking, Next, ~Moving
  PROVE  Still
<1>0. /\ pc \in [Actors -> ControlPoints] /\ pass \in [Actors -> Passes]
      /\ job \in [Actors -> Jobs \cup {None}] /\ queue \in Seq(Jobs)
      /\ status \in [Tasks -> TaskStatuses] /\ execStatus \in [Executions -> ExecutionStatuses]
      /\ enqueued \in [Tasks -> BOOLEAN] /\ Workers \subseteq Actors
  BY DEF Typed, TablesTyped, ActorsTyped, QueueTypeOK, Actors
<1> USE DEF Still
\* A step that leaves the queue and the rows alone, but for one actor's hands.
<1>q. UNCHANGED <<queue, moving, delayed, apiPending>> /\ HandsKept => AllKept
  BY DEF AllKept
<1>r. UNCHANGED <<status, enqueued>> => RowsOnWay(None)
  BY DEF RowsOnWay, OnItsWay
<1>h. UNCHANGED actorVars => HandsKept
  BY DEF HandsKept, actorVars
<1>1. CASE ApiStep
  <2>1. "api" \notin CrashPoints
    BY DEF CrashesWhileWorking, HoldingPoints
  <2> QED BY <1>1, <2>1 DEF ApiStep, ApiStops, Moving
<1>2. CASE FaultStep
  <2>1. ASSUME NEW a \in Actors, Crash(a) PROVE Still
    <3>1. pc[a] \notin InHand
      BY <2>1 DEF Crash, CrashesWhileWorking, HoldingPoints, InHand
    <3>2. HandsKept
      BY <1>0, <2>1, <3>1 DEF Crash, Drop, HandsKept
    <3> QED BY <1>q, <1>r, <2>1, <3>2 DEF Crash, queueVars, taskVars
  <2>2. ~ \E p \in Promoters : PromoterCrash(p)
    BY DEF PromoterCrash, CrashesWhileWorking, HoldingPoints
  <2>3. ASSUME NEW i \in DOMAIN queue, DuplicateDelivery(i) PROVE Still
    <3>1. queue[i] \in Jobs
      BY <1>0
    <3>2. \A k \in DOMAIN queue : \E j \in DOMAIN queue' : queue'[j] = queue[k]
      BY <2>3, <3>1, ListGrows DEF DuplicateDelivery, Redeliver
    <3> QED BY <1>h, <1>r, <2>3, <3>2 DEF DuplicateDelivery, Redeliver, taskVars, promoterVars, AllKept
  <2> QED BY <1>2, <2>1, <2>2, <2>3 DEF FaultStep, Moving
<1>3. ASSUME NEW w \in Workers, ExecuteStep(w), ~Claim(w) PROVE Still
  <2>1. HandsKept
    BY <1>0, <1>3 DEF ExecuteStep, CheckResult, PersistSuccess, FailAttempt, HandsKept, InHand
  <2>2. RowsOnWay(None)
    BY <1>0, <1>3 DEF ExecuteStep, CheckResult, PersistSuccess, FailAttempt, RowsOnWay, OnItsWay, taskVars
  <2> QED BY <1>0, <1>3, <1>q, <2>1, <2>2
          DEF ExecuteStep, CheckResult, PersistSuccess, FailAttempt, queueVars
<1>4. ASSUME NEW r \in Reapers, ReaperScan(r) PROVE Still
  <2>1. HandsKept
    BY <1>0, <1>4 DEF ReaperScan, HandsKept, InHand
  <2> QED BY <1>4, <1>q, <1>r, <2>1 DEF ReaperScan, queueVars, taskVars
<1>5. ASSUME NEW a \in Actors, RecoverStep(a), ~Moving PROVE Still
  <2>1. ASSUME NEW x \in stale[a], Exhaust(a, x) PROVE Still
    <3>1. HandsKept
      BY <1>0, <2>1 DEF Exhaust, HandsKept, InHand
    <3>2. RowsOnWay(None)
      BY <1>0, <2>1 DEF Exhaust, RowsOnWay, OnItsWay
    <3> QED BY <1>q, <2>1, <3>1, <3>2 DEF Exhaust, queueVars
  <2>2. ASSUME NEW x \in stale[a], Superseded(a, x) PROVE Still
    <3>1. HandsKept
      BY <1>0, <2>2 DEF Superseded, HandsKept, InHand
    <3> QED BY <1>q, <1>r, <2>2, <3>1 DEF Superseded, queueVars, taskVars
  <2>3. CASE DeadLetter(a)
    <3>1. HandsKept
      BY <1>0, <2>3 DEF DeadLetter, HandsKept, InHand
    <3> QED BY <1>q, <1>r, <2>3, <3>1 DEF DeadLetter, PushDeadLetter, promoterVars, taskVars
  <2> QED BY <1>5, <2>1, <2>2, <2>3 DEF RecoverStep, Moving
<1>6. ASSUME NEW a \in Actors, PassStep(a), ~Moving PROVE Still
  <2>1. ASSUME NEW e \in affected[a], BeginPass(a, e) PROVE Still
    <3>1. HandsKept
      BY <1>0, <2>1 DEF BeginPass, HandsKept, InHand
    <3> QED BY <1>q, <1>r, <2>1, <3>1 DEF BeginPass, queueVars, taskVars
  <2>2. CASE RepeatPass(a)
    <3>1. HandsKept
      BY <1>0, <2>2 DEF RepeatPass, LoopDone, HandsKept, InHand
    <3> QED BY <1>q, <1>r, <2>2, <3>1 DEF RepeatPass, queueVars, taskVars
  <2>3. ASSUME NEW t \in pass[a].doomed, Cascade(a, t) PROVE Still
    <3>1. HandsKept
      BY <1>0, <2>3 DEF Cascade, HandsKept, InHand
    <3>2. RowsOnWay(None)
      BY <1>0, <2>3 DEF Cascade, RowsOnWay, OnItsWay
    <3> QED BY <1>q, <2>3, <3>1, <3>2 DEF Cascade, queueVars
  <2>4. CASE FinalizeRead(a)
    <3>1. HandsKept
      BY <1>0, <2>4 DEF FinalizeRead, LoopDone, Return, HandsKept, InHand
    <3> QED BY <1>q, <1>r, <2>4, <3>1 DEF FinalizeRead, queueVars, taskVars
  <2>5. CASE FinalizeWrite(a)
    <3>1. HandsKept
      BY <1>0, <2>5 DEF FinalizeWrite, Return, HandsKept, InHand
    <3>2. \A e \in Executions :
            execStatus'[e] \in {"PENDING", "PLANNING"} => execStatus'[e] = execStatus[e]
      BY <1>0, <2>5 DEF FinalizeWrite
    <3> QED BY <1>q, <1>r, <2>5, <3>1, <3>2 DEF FinalizeWrite, queueVars, taskVars
  <2> QED BY <1>6, <2>1, <2>2, <2>3, <2>4, <2>5 DEF PassStep, Moving
<1>7. ASSUME NEW p \in Promoters, PromoterStep(p), ~Moving PROVE Still
  BY <1>7, <1>q, <1>r, <1>h DEF PromoterStep, QueueStep, PromoteScan, taskVars, Moving
<1>8. ASSUME NEW t \in Tasks, Elapse(t) PROVE Still
  BY <1>8, <1>q, <1>r, <1>h DEF Elapse, QueueStep, BecomeDue, LeaseExpires, taskVars, queueVars, promoterVars
<1> QED BY <1>1, <1>2, <1>3, <1>4, <1>5, <1>6, <1>7, <1>8
        DEF Next, WorkerStep, ReaperStep, ExecuteStep, Moving, Actors
\* The plans.
LEMMA ApiMoves ==
  ASSUME Typed, RecoveryInv, NEW e \in Executions, CreateExecution(e) \/ EnqueuePlan(e)
  PROVE  JobsOnTheirWay' /\ PlansOnTheirWay'
<1>1. /\ UNCHANGED <<status, enqueued, pc, job, pass, moving, delayed>>
      /\ \A i \in DOMAIN queue : \E j \in DOMAIN queue' : queue'[j] = queue[i]
  BY JobShapes, ListGrows
     DEF CreateExecution, EnqueuePlan, Enqueue, taskVars, actorVars, queueVars, promoterVars
<1>2. JobsKept(None) /\ RowsOnWay(None)
  BY <1>1 DEF JobsKept, RowsOnWay, OnItsWay
<1>3. PlansKept(e)
  BY <1>1 DEF PlansKept, CreateExecution, EnqueuePlan, Typed, TablesTyped
<1>4. /\ execStatus'[e] = "PENDING" => PlanComing(e)'
      /\ execStatus'[e] = "PLANNING" => Planning(e)'
  <2>1. CASE CreateExecution(e)
    BY <2>1 DEF CreateExecution, Typed, TablesTyped, PlanComing
  <2>2. CASE EnqueuePlan(e)
    <3>1. \E i \in DOMAIN queue' : queue'[i] = PlanJob(e)
      BY <2>2, JobShapes, ListGrows DEF EnqueuePlan, Enqueue
    <3>2. execStatus[e] = "PLANNING" => Planning(e)
      BY DEF RecoveryInv, PlansOnTheirWay
    <3> QED BY <1>1, <2>2, <3>1, <3>2 DEF EnqueuePlan, PlanComing, Planning
  <2> QED BY <2>1, <2>2
<1> QED BY <1>2, <1>3, <1>4, NoneAssumption, JobsRemain, PlansRemain DEF RecoveryInv

LEMMA PlanMoves ==
  ASSUME RefInv, RecoveryInv, ErrorsWhilePlanning, NEW w \in Workers, PlanStep(w) \/ PlanError(w)
  PROVE  JobsOnTheirWay' /\ PlansOnTheirWay'
<1>0. /\ Typed /\ pc \in [Actors -> ControlPoints] /\ pass \in [Actors -> Passes]
      /\ job \in [Actors -> Jobs \cup {None}] /\ w \in Actors
      /\ execStatus \in [Executions -> ExecutionStatuses]
  BY DEF RefInv, SafeInv, Typed, TablesTyped, ActorsTyped, Actors
<1>1. PICK e \in Executions : job[w] = PlanJob(e) /\ job[w].id = e /\ pc[w] \in {"guard", "llm", "start"}
  <2>1. job[w] \in PlanJobs /\ pc[w] \in {"guard", "llm", "start"}
    BY <1>0 DEF PlanStep, GuardPlan, InsertTasks, StartExecution, PlanError, ErrorsWhilePlanning,
       Typed, PointsMatch, PlanPoints
  <2> QED BY <2>1, JobShapes DEF PlanJobs
<1>2. /\ UNCHANGED <<queue, moving, delayed, apiPending, enqueued>>
      /\ \A a \in Actors \ {w} : pc'[a] = pc[a] /\ job'[a] = job[a] /\ pass'[a] = pass[a]
      /\ \A f \in Executions \ {e} : execStatus'[f] = execStatus[f]
  BY <1>0, <1>1 DEF PlanStep, GuardPlan, InsertTasks, StartExecution, PlanError, Drop, queueVars, taskVars
<1>3. RowsOnWay(None)
  <2>1. ASSUME NEW p \in Plans, InsertTasks(w, p), NEW t \in Tasks, OnItsWay(t)' PROVE OnItsWay(t)
    <3>1. \A u \in {<<job[w].id, i>> : i \in DOMAIN p} : u \in TasksOf(job[w].id)
      BY PlanWithinIndex DEF TasksOf
    <3>2. \A u \in TasksOf(job[w].id) : status[u] = "ABSENT"
      BY <2>1 DEF RefInv, SafeInv, PlannerAlone, InsertTasks
    <3> QED BY <2>1, <3>1, <3>2 DEF InsertTasks, OnItsWay, RefInv, EnqueuedLaunched
  <2> QED BY <2>1 DEF PlanStep, GuardPlan, StartExecution, PlanError, RowsOnWay, OnItsWay, taskVars
<1>4. JobsKept(None)
  BY <1>1, <1>2 DEF JobsKept, Actors
<1>5. PlansKept(e)
  BY <1>1, <1>2 DEF PlansKept, Actors
<1>6. /\ execStatus'[e] = "PENDING" => PlanComing(e)'
      /\ execStatus'[e] = "PLANNING" => Planning(e)'
  <2>1. CASE GuardPlan(w) /\ Unplanned(e)
    <3>1. execStatus'[e] = "PLANNING" /\ pc'[w] = "llm" /\ job'[w] = PlanJob(e)
      BY <1>0, <1>1, <2>1 DEF GuardPlan
    <3> QED BY <3>1 DEF Planning
  <2>2. CASE GuardPlan(w) /\ ~Unplanned(e)
    <3>1. execStatus'[e] = execStatus[e] /\ execStatus[e] # "PENDING" /\ pc[w] = "guard"
      BY <1>1, <2>2 DEF GuardPlan, Unplanned
    <3>2. execStatus[e] = "PLANNING" => Planning(e)
      BY DEF RecoveryInv, PlansOnTheirWay
    <3> QED BY <1>2, <3>1, <3>2 DEF Planning, Actors
  <2>3. ASSUME NEW p \in Plans, InsertTasks(w, p)
        PROVE  execStatus'[e] = "PLANNING" /\ Planning(e)'
    <3>1. execStatus[e] = "PLANNING"
      BY <1>1, <2>3 DEF RefInv, PlannersMatch, PlannerMatch, InsertTasks
    <3>2. execStatus' = execStatus /\ pc'[w] = "start" /\ job'[w] = PlanJob(e)
      BY <1>0, <1>1, <2>3 DEF InsertTasks
    <3> QED BY <3>1, <3>2 DEF Planning
  <2>4. ASSUME StartExecution(w) \/ PlanError(w) PROVE execStatus'[e] \in {"RUNNING", "FAILED"}
    <3>1. StartExecution(w) => execStatus[e] = "PLANNING"
      BY <1>1 DEF RefInv, PlannersMatch, PlannerMatch, StartExecution
    <3> QED BY <1>0, <1>1, <2>4, <3>1 DEF StartExecution, PlanError
  <2> QED BY <2>1, <2>2, <2>3, <2>4 DEF PlanStep
<1>7. JobsOnTheirWay'
  BY <1>3, <1>4, NoneAssumption, JobsRemain DEF RecoveryInv
<1>8. PlansOnTheirWay'
  BY <1>5, <1>6, PlansRemain DEF RecoveryInv
<1> QED BY <1>7, <1>8

LEMMA DequeueMoves ==
  ASSUME Typed, RecoveryInv, NEW w \in Workers, Dequeue(w)
  PROVE  JobsOnTheirWay' /\ PlansOnTheirWay'
<1>0. /\ queue \in Seq(Jobs) /\ queue # <<>> /\ queue' = Tail(queue) /\ Head(queue) = queue[1]
      /\ 1 \in DOMAIN queue /\ UNCHANGED <<delayed, moving, pass, apiPending, execStatus, status, enqueued>>
      /\ pc[w] = "idle" /\ w \in Actors
      /\ job' = [job EXCEPT ![w] = Head(queue)]
      /\ pc' = [pc EXCEPT ![w] = IF Head(queue).type = "plan" THEN "guard" ELSE "claim"]
      /\ pc \in [Actors -> ControlPoints] /\ job \in [Actors -> Jobs \cup {None}]
  BY DEF Dequeue, Pop, Typed, ActorsTyped, QueueTypeOK, promoterVars, taskVars, Actors
<1>1. \A i \in DOMAIN queue : i = 1 \/ \E j \in DOMAIN queue' : queue'[j] = queue[i]
  <2> SUFFICES ASSUME NEW i \in DOMAIN queue, i # 1 PROVE i - 1 \in DOMAIN queue' /\ queue'[i - 1] = queue[i]
    OBVIOUS
  <2> QED BY <1>0
<1>2. \A a \in Actors \ {w} : pc'[a] = pc[a] /\ job'[a] = job[a]
  BY <1>0
<1>3. RowsOnWay(None) /\ \A u : RowsOnWay(u)
  BY <1>0 DEF RowsOnWay, OnItsWay
<1>4. CASE \E e \in Executions : queue[1] = PlanJob(e)
  <2>1. PICK e \in Executions : queue[1] = PlanJob(e)
    BY <1>4
  <2>2. PlanJob(e) \notin TaskJobs /\ PlanJob(e).type = "plan"
    BY DEF PlanJob, TaskJobs, TaskJob
  <2>3. JobsKept(None)
    BY <1>0, <1>1, <1>2, <2>1, <2>2 DEF JobsKept, Actors
  <2>4. PlansKept(e)
    BY <1>0, <1>1, <1>2, <2>1 DEF PlansKept, Actors
  <2>5. pc'[w] = "guard" /\ job'[w] = PlanJob(e)
    BY <1>0, <2>1, <2>2
  <2>6. PlanComing(e)'
    BY <2>5 DEF PlanComing
  <2>7. execStatus'[e] = "PLANNING" => Planning(e)'
    <3>1. execStatus[e] = "PLANNING" => Planning(e)
      BY DEF RecoveryInv, PlansOnTheirWay
    <3> QED BY <1>0, <1>2, <3>1 DEF Planning, Actors
  <2>8. JobsOnTheirWay'
    BY <1>3, <2>3, NoneAssumption, JobsRemain DEF RecoveryInv
  <2>9. PlansOnTheirWay'
    BY <2>4, <2>6, <2>7, PlansRemain DEF RecoveryInv
  <2> QED BY <2>8, <2>9
<1>5. CASE \E u \in Tasks : queue[1] = TaskJob(u)
  <2>1. PICK u \in Tasks : queue[1] = TaskJob(u)
    BY <1>5
  <2>2. TaskJob(u) \notin PlanJobs /\ TaskJob(u).type # "plan"
    BY DEF TaskJob, PlanJobs, PlanJob
  <2>3. JobsKept(u)
    BY <1>0, <1>1, <1>2, <2>1 DEF JobsKept, Actors
  <2>4. PlansKept(None)
    BY <1>0, <1>1, <1>2, <2>1, <2>2 DEF PlansKept, Actors
  <2>5. <<"claim", w>> \in Places(u)'
    BY <1>0, <2>1, <2>2 DEF Places
  <2>6. JobsOnTheirWay'
    BY <1>3, <2>3, <2>5, JobsRemain DEF RecoveryInv
  <2>7. PlansOnTheirWay'
    BY <2>4, NoneAssumption, PlansRemain DEF RecoveryInv
  <2> QED BY <2>6, <2>7
<1>6. queue[1] \in Jobs
  BY <1>0
<1> QED BY <1>4, <1>5, <1>6, JobShapes
\* The jobs of tasks.
LEMMA ClaimMoves ==
  ASSUME Typed, RecoveryInv, NEW w \in Workers, Claim(w)
  PROVE  JobsOnTheirWay' /\ PlansOnTheirWay'
<1>0. /\ pc \in [Actors -> ControlPoints] /\ pass \in [Actors -> Passes]
      /\ job \in [Actors -> Jobs \cup {None}] /\ w \in Actors
      /\ status \in [Tasks -> TaskStatuses]
  BY DEF Typed, TablesTyped, ActorsTyped, Actors
<1>1. PICK u \in Tasks : job[w] = TaskJob(u) /\ job[w].id = u /\ pc[w] = "claim"
  BY <1>0, JobShapes DEF Claim, Typed, PointsMatch, TaskJobs
<1>2. /\ UNCHANGED <<queue, moving, delayed, apiPending, enqueued, execStatus>>
      /\ \A a \in Actors \ {w} : pc'[a] = pc[a] /\ job'[a] = job[a] /\ pass'[a] = pass[a]
      /\ \A t \in Tasks \ {u} : status'[t] = status[t]
  BY <1>0, <1>1 DEF Claim, Drop, queueVars
<1>3. JobsKept(u) /\ RowsOnWay(u)
  BY <1>1, <1>2 DEF JobsKept, RowsOnWay, OnItsWay, Actors
<1>4. PlansKept(None)
  BY <1>1, <1>2 DEF PlansKept, Actors
<1>5. ~OnItsWay(u)'
  BY <1>0, <1>1 DEF Claim, OnItsWay, Claimable
<1>6. JobsOnTheirWay'
  BY <1>3, <1>5, JobsRemain DEF RecoveryInv
<1>7. PlansOnTheirWay'
  BY <1>4, NoneAssumption, PlansRemain DEF RecoveryInv
<1> QED BY <1>6, <1>7

LEMMA SendMoves ==
  ASSUME Typed, RecoveryInv, NEW a \in Actors, ScheduleRetry(a) \/ PushTask(a)
  PROVE  JobsOnTheirWay' /\ PlansOnTheirWay'
<1>0. /\ pc \in [Actors -> ControlPoints] /\ pass \in [Actors -> Passes]
      /\ job \in [Actors -> Jobs \cup {None}] /\ pc[a] \in {"zadd", "push"}
  BY DEF Typed, ActorsTyped, ScheduleRetry, PushTask
<1>1. PICK u \in Tasks : pass[a].task = u
  BY <1>0 DEF Typed, PointsMatch
<1>2. /\ UNCHANGED <<moving, apiPending, execStatus, status, enqueued, job>>
      /\ delayed \subseteq delayed'
      /\ \A b \in Actors \ {a} : pc'[b] = pc[b] /\ pass'[b] = pass[b]
      /\ \A i \in DOMAIN queue : \E j \in DOMAIN queue' : queue'[j] = queue[i]
  BY <1>0, <1>1, JobShapes, ListGrows
     DEF ScheduleRetry, ScheduleTask, PushTask, Enqueue, promoterVars, taskVars
<1>3. JobsKept(u) /\ RowsOnWay(u)
  BY <1>0, <1>1, <1>2 DEF JobsKept, RowsOnWay, OnItsWay, Actors
<1>4. PlansKept(None)
  BY <1>0, <1>2 DEF PlansKept, Actors
<1>5. Places(u)' # {}
  <2>1. CASE ScheduleRetry(a)
    <3>1. <<"delayed", u>> \in Places(u)'
      BY <1>1, <2>1 DEF ScheduleRetry, ScheduleTask, Places
    <3> QED BY <3>1
  <2>2. CASE PushTask(a)
    <3>1. \E j \in DOMAIN queue' : queue'[j] = TaskJob(u)
      BY <1>1, <2>2, JobShapes, ListGrows DEF PushTask, Enqueue
    <3>2. PICK j \in DOMAIN queue' : queue'[j] = TaskJob(u)
      BY <3>1
    <3>3. <<"list", j>> \in Places(u)'
      BY <3>2 DEF Places
    <3> QED BY <3>3
  <2> QED BY <2>1, <2>2
<1>6. JobsOnTheirWay'
  BY <1>3, <1>5, JobsRemain DEF RecoveryInv
<1>7. PlansOnTheirWay'
  BY <1>4, NoneAssumption, PlansRemain DEF RecoveryInv
<1> QED BY <1>6, <1>7

\* A task that an actor decides to retry, or wins to push, is in its hands.
LEMMA TakeMoves ==
  ASSUME Typed, RecoveryInv, NEW a \in Actors,
         \/ \E x \in stale[a] : Retry(a, x)
         \/ \E t \in pass[a].ready : MarkEnqueued(a, t)
  PROVE  JobsOnTheirWay' /\ PlansOnTheirWay'
<1>0. /\ pc \in [Actors -> ControlPoints] /\ pass \in [Actors -> Passes]
      /\ job \in [Actors -> Jobs \cup {None}] /\ pc[a] \in {"recover", "pass"}
      /\ stale \in [Actors -> SUBSET StaleReads]
      /\ status \in [Tasks -> TaskStatuses] /\ enqueued \in [Tasks -> BOOLEAN]
  BY DEF Typed, TablesTyped, ActorsTyped, Retry, MarkEnqueued
<1>1. /\ UNCHANGED <<queue, moving, delayed, apiPending, execStatus, job>>
      /\ \A b \in Actors \ {a} : pc'[b] = pc[b] /\ pass'[b] = pass[b]
  BY <1>0 DEF Retry, MarkEnqueued, queueVars
<1>2. \A v : JobsKept(v)
  BY <1>0, <1>1 DEF JobsKept, Actors
<1>3. PlansKept(None)
  BY <1>0, <1>1 DEF PlansKept, Actors
<1>4. \/ RowsOnWay(None)
      \/ \E u \in Tasks : RowsOnWay(u) /\ pc'[a] \in {"push", "zadd"} /\ pass'[a].task = u
  <2>1. ASSUME NEW x \in stale[a], Retry(a, x)
        PROVE  \E u \in Tasks : RowsOnWay(u) /\ pc'[a] \in {"push", "zadd"} /\ pass'[a].task = u
    <3>1. x.task \in Tasks
      BY <1>0 DEF StaleReads
    <3>2. pc'[a] = "zadd" /\ pass'[a].task = x.task
      BY <1>0, <2>1, <3>1 DEF Retry, Passes
    <3>3. RowsOnWay(x.task)
      BY <1>0, <2>1, <3>1 DEF Retry, RowsOnWay, OnItsWay
    <3> QED BY <3>1, <3>2, <3>3
  <2>2. ASSUME NEW t \in pass[a].ready, MarkEnqueued(a, t), NotEnqueued(t)
        PROVE  \E u \in Tasks : RowsOnWay(u) /\ pc'[a] \in {"push", "zadd"} /\ pass'[a].task = u
    <3>1. t \in Tasks
      BY <1>0 DEF Passes
    <3>2. pc'[a] = "push"
      BY <1>0, <2>2 DEF MarkEnqueued
    <3>4. pass'[a].task = t
      <4>1. pass' = [pass EXCEPT ![a].ready = @ \ {t}, ![a].task = t]
        BY <2>2 DEF MarkEnqueued
      <4> QED BY <1>0, <4>1 DEF Passes
    <3>3. RowsOnWay(t)
      BY <1>0, <2>2, <3>1 DEF MarkEnqueued, RowsOnWay, OnItsWay
    <3> QED BY <3>1, <3>2, <3>3, <3>4
  <2>3. ASSUME NEW t \in pass[a].ready, MarkEnqueued(a, t), ~NotEnqueued(t) PROVE RowsOnWay(None)
    <3>1. t \in Tasks /\ enqueued[t]
      BY <1>0, <2>3 DEF Passes, NotEnqueued
    <3> QED BY <1>0, <2>3, <3>1 DEF MarkEnqueued, RowsOnWay, OnItsWay
  <2> QED BY <2>1, <2>2, <2>3
<1>5. JobsOnTheirWay'
  <2>1. CASE RowsOnWay(None)
    BY <1>2, <2>1, NoneAssumption, JobsRemain DEF RecoveryInv
  <2>2. ASSUME NEW u \in Tasks, RowsOnWay(u), pc'[a] \in {"push", "zadd"}, pass'[a].task = u
        PROVE  JobsOnTheirWay'
    <3>1. <<"send", a>> \in Places(u)'
      BY <2>2 DEF Places
    <3> QED BY <1>2, <2>2, <3>1, JobsRemain DEF RecoveryInv
  <2> QED BY <1>4, <2>1, <2>2
<1>6. PlansOnTheirWay'
  BY <1>3, NoneAssumption, PlansRemain DEF RecoveryInv
<1> QED BY <1>5, <1>6

LEMMA PromoteMoves ==
  ASSUME Typed, RecoveryInv, NEW p \in Promoters,
         QueueStep(PromotePush(p)) \/ \E t \in scan[p] : QueueStep(PromoteRemove(p, t))
  PROVE  JobsOnTheirWay' /\ PlansOnTheirWay'
<1>0. /\ UNCHANGED <<apiPending, execStatus, status, enqueued, job, pc, pass>>
      /\ \A q \in Promoters \ {p} : moving'[q] = moving[q]
      /\ moving \in [Promoters -> Tasks \cup {None}] /\ scan \in [Promoters -> SUBSET Tasks]
  BY DEF QueueStep, PromotePush, PromoteRemove, actorVars, taskVars, Typed, QueueTypeOK
<1>1. \A v : RowsOnWay(v)
  BY <1>0 DEF RowsOnWay, OnItsWay
<1>2. CASE QueueStep(PromotePush(p))
  <2>1. PICK u \in Tasks : moving[p] = u /\ queue' = Append(queue, TaskJob(u)) /\ delayed' = delayed
    BY <1>0, <1>2 DEF QueueStep, PromotePush
  <2>2. \A i \in DOMAIN queue : \E j \in DOMAIN queue' : queue'[j] = queue[i]
    BY <2>1, JobShapes, ListGrows
  <2>3. JobsKept(u) /\ PlansKept(None)
    BY <1>0, <2>1, <2>2 DEF JobsKept, PlansKept
  <2>4. \E j \in DOMAIN queue' : queue'[j] = TaskJob(u)
    BY <2>1, JobShapes, ListGrows
  <2>5. PICK j \in DOMAIN queue' : queue'[j] = TaskJob(u)
    BY <2>4
  <2>6. <<"list", j>> \in Places(u)'
    BY <2>5 DEF Places
  <2>7. JobsOnTheirWay'
    BY <1>1, <2>3, <2>6, JobsRemain DEF RecoveryInv
  <2>8. PlansOnTheirWay'
    BY <2>3, NoneAssumption, PlansRemain DEF RecoveryInv
  <2> QED BY <2>7, <2>8
<1>3. ASSUME NEW t \in scan[p], QueueStep(PromoteRemove(p, t)) PROVE JobsOnTheirWay' /\ PlansOnTheirWay'
  <2>1. /\ t \in Tasks /\ moving[p] = None /\ queue' = queue /\ delayed' = delayed \ {t}
        /\ t \in delayed => moving'[p] = t
    BY <1>0, <1>3 DEF QueueStep, PromoteRemove
  <2>2. JobsKept(t) /\ PlansKept(None)
    BY <1>0, <2>1, NoneAssumption DEF JobsKept, PlansKept
  <2>3. CASE t \in delayed
    <3>1. <<"moving", p>> \in Places(t)'
      BY <2>1, <2>3 DEF Places
    <3>2. JobsOnTheirWay'
      BY <1>1, <2>1, <2>2, <3>1, JobsRemain DEF RecoveryInv
    <3>3. PlansOnTheirWay'
      BY <2>2, NoneAssumption, PlansRemain DEF RecoveryInv
    <3> QED BY <3>2, <3>3
  <2>4. CASE t \notin delayed
    <3>1. JobsKept(None)
      BY <1>0, <2>1, <2>4, NoneAssumption DEF JobsKept
    <3>2. JobsOnTheirWay'
      BY <1>1, <3>1, NoneAssumption, JobsRemain DEF RecoveryInv
    <3>3. PlansOnTheirWay'
      BY <2>2, NoneAssumption, PlansRemain DEF RecoveryInv
    <3> QED BY <3>2, <3>3
  <2> QED BY <2>3, <2>4
<1> QED BY <1>2, <1>3
LEMMA JobsMove ==
  ASSUME ErrorsWhilePlanning, CrashesWhileWorking, RefInv, RecoveryInv, Next
  PROVE  JobsOnTheirWay' /\ PlansOnTheirWay'
<1>0. Typed
  BY DEF RefInv, SafeInv
<1>1. CASE ~Moving
  BY <1>0, <1>1, OtherStill, NothingMoves DEF Still
<1>2. CASE Moving
  <2>1. ASSUME NEW w \in Workers, Dequeue(w) \/ PlanStep(w) \/ Claim(w) \/ PlanError(w)
        PROVE  JobsOnTheirWay' /\ PlansOnTheirWay'
    BY <1>0, <2>1, DequeueMoves, PlanMoves, ClaimMoves
  <2>2. ASSUME NEW a \in Actors,
               \/ ScheduleRetry(a) \/ PushTask(a)
               \/ \E x \in stale[a] : Retry(a, x)
               \/ \E t \in pass[a].ready : MarkEnqueued(a, t)
        PROVE  JobsOnTheirWay' /\ PlansOnTheirWay'
    BY <1>0, <2>2, SendMoves, TakeMoves
  <2> QED BY <1>0, <1>2, <2>1, <2>2, ApiMoves, PromoteMoves DEF Moving
<1> QED BY <1>1, <1>2

\* A reaper that has loaded the stale tasks lives until it has dealt with them.
ReapersHandle == \A r \in Reapers : pc[r] = "recover" => ~Crash(r)

LEMMA SeenAfter ==
  ASSUME ErrorsWhilePlanning, CrashesWhileWorking, RefInv, RecoveryInv, Next, ReapersHandle
  PROVE  SeenTo'
<1>0. Typed /\ RowsKept /\ TablesTyped /\ Workers \subseteq Actors
  BY RowsStep DEF RefInv, SafeInv, Typed, Actors
<1>1. ASSUME NEW a \in Actors, Crash(a) PROVE SeenTo'
  <2>1. Drop(a) /\ Elsewhere({})
    BY <1>1 DEF Crash, Elsewhere, taskVars
  <2>2. pc[a] \in {"check", "run"} \/ ~Staying(a)
    BY <1>1 DEF Crash, CrashesWhileWorking, HoldingPoints, ReapersHandle, Staying, Actors
  <2> QED BY <1>0, <2>1, <2>2, DropSeen
<1>2. ASSUME NEW w \in Workers, PlanError(w) PROVE SeenTo'
  <2>1. Drop(w) /\ pc[w] \in {"guard", "llm", "start"}
    BY <1>2 DEF PlanError, ErrorsWhilePlanning, PlanPoints
  <2>2. \A e \in Executions : execStatus'[e] = "RUNNING" => execStatus[e] = "RUNNING"
    BY <1>0, <1>2 DEF PlanError, TablesTyped
  <2>3. Elsewhere({})
    BY <1>2, <2>2 DEF PlanError, Elsewhere, taskVars
  <2> QED BY <1>0, <2>1, <2>3, DropSeen
<1>3. ASSUME NEW w \in Workers, WorkerStep(w) PROVE SeenTo'
  BY <1>0, <1>3, ExecuteSeen, RecoverSeen, PassVisits DEF WorkerStep
<1>4. ASSUME NEW r \in Reapers, ReaperStep(r) PROVE SeenTo'
  BY <1>0, <1>4, RecoverSeen, PassVisits DEF ReaperStep, Actors
<1>5. CASE NobodyActs
  BY <1>0, <1>5, NobodySeen
<1> QED BY <1>1, <1>2, <1>3, <1>4, <1>5 DEF Next, FaultStep, NobodyActs

LEMMA RecoveryStep ==
  ASSUME ErrorsWhilePlanning, CrashesWhileWorking
  PROVE  RefInv /\ RecoveryInv /\ [Next]_vars /\ [ReapersHandle]_vars => RecoveryInv'
<1> SUFFICES ASSUME RefInv, RecoveryInv, [Next]_vars, [ReapersHandle]_vars PROVE RecoveryInv'
  OBVIOUS
<1>1. CASE UNCHANGED vars
  <2>1. Tidy' /\ SeenTo'
    BY <1>1 DEF vars, taskVars, actorVars, RecoveryInv, Tidy, TidyHands, SeenTo, DueTask, DueVerdict,
       Settled, Rows, Waiting, DepFailed, DepsCompleted, Deps, Staying, WillVisit, WillFinalize
  <2>2. JobsOnTheirWay' /\ PlansOnTheirWay'
    BY <1>1 DEF vars, taskVars, actorVars, queueVars, RecoveryInv, JobsOnTheirWay, OnItsWay, Places,
       PlansOnTheirWay, PlanComing, Planning
  <2> QED BY <2>1, <2>2 DEF RecoveryInv
<1>2. CASE Next /\ ReapersHandle
  <2>1. Tidy'
    BY <1>2, TidyStep DEF RefInv, SafeInv, RecoveryInv
  <2> QED BY <1>2, <2>1, JobsMove, SeenAfter DEF RecoveryInv
<1> QED BY <1>1, <1>2

-----------------------------------------------------------------------------
(* What the invariant says of an execution.                                *)

\* There are as many threads as an operator has started.
FiniteThreads == IsFiniteSet(Actors) /\ IsFiniteSet(Promoters)

LEMMA SomeCounted ==
  ASSUME NEW S, IsFiniteSet(S)
  PROVE  Cardinality(S) \in Nat /\ (S # {} => Cardinality(S) > 0)
  BY FS_CardinalityType, FS_EmptySet

LEMMA PlacesCounted ==
  ASSUME Typed, FiniteThreads, NEW t \in Tasks, Places(t) # {}
  PROVE  Tokens(t) > 0
<1> DEFINE L == {i \in DOMAIN queue : queue[i] = TaskJob(t)}
           M == {p \in Promoters : moving[p] = t}
           C == {w \in Workers : job[w] = TaskJob(t) /\ pc[w] = "claim"}
           S == {a \in Actors : pc[a] \in {"push", "zadd"} /\ pass[a].task = t}
           D == {t} \cap delayed
<1>1. IsFiniteSet(L)
  <2>1. DOMAIN queue = 1 .. Len(queue) /\ Len(queue) \in Nat
    BY DEF Typed, QueueTypeOK
  <2>2. IsFiniteSet(1 .. Len(queue))
    BY <2>1, FS_Interval
  <2> QED BY <2>1, <2>2, FS_Subset
<1>2. IsFiniteSet(M) /\ IsFiniteSet(C) /\ IsFiniteSet(S)
  BY FS_Subset DEF FiniteThreads, Actors
<1>3. IsFiniteSet(D)
  <2>1. IsFiniteSet({t})
    BY FS_Singleton
  <2> QED BY <2>1, FS_Subset
<1>4. L # {} \/ M # {} \/ C # {} \/ S # {} \/ D # {}
  <2>1. PICK y : y \in Places(t)
    OBVIOUS
  <2> QED BY <2>1, PlaceCases
<1>5. Tokens(t) = Cardinality(L) + Cardinality(M) + Cardinality(C) + Cardinality(S) + Cardinality(D)
  BY DEF Tokens
<1> HIDE DEF L, M, C, S, D
<1>6. /\ Cardinality(L) \in Nat /\ (L # {} => Cardinality(L) > 0)
      /\ Cardinality(M) \in Nat /\ (M # {} => Cardinality(M) > 0)
      /\ Cardinality(C) \in Nat /\ (C # {} => Cardinality(C) > 0)
      /\ Cardinality(S) \in Nat /\ (S # {} => Cardinality(S) > 0)
      /\ Cardinality(D) \in Nat /\ (D # {} => Cardinality(D) > 0)
  BY <1>1, <1>2, <1>3, SomeCounted
<1> QED BY <1>4, <1>5, <1>6

LEMMA NothingForgotten ==
  ASSUME FiniteThreads, Typed, RecoveryInv PROVE NoOrphans /\ AtLeastOnceDelivery
<1>1. \A t \in Tasks : OnItsWay(t) => Tokens(t) > 0
  BY PlacesCounted DEF RecoveryInv, JobsOnTheirWay
<1>2. AtLeastOnceDelivery
  BY <1>1 DEF AtLeastOnceDelivery, OnItsWay
<1>3. ASSUME NEW e \in Executions, execStatus[e] = "RUNNING", NEW t \in Rows(e)
      PROVE  /\ OnItsWay(t) => Tokens(t) > 0
             /\ Waiting(t) /\ (DepFailed(t) \/ DepsCompleted(t)) => \E a \in Actors : WillVisit(a, t)
  <2>1. t \in Tasks /\ ExecutionOf(t) = e
    BY TaskOfExecution DEF Rows
  <2> QED BY <1>1, <1>3, <2>1 DEF RecoveryInv, SeenTo, DueTask
<1>4. \A e \in Executions :
        execStatus[e] = "RUNNING" /\ Settled(e) => \E a \in Actors : WillFinalize(a, e)
  BY DEF RecoveryInv, SeenTo, DueVerdict
<1>5. NoOrphans
  BY <1>3, <1>4 DEF NoOrphans, RecoveryInv, PlansOnTheirWay, OnItsWay, Settled
<1> QED BY <1>2, <1>5

ReapersSurvive == [][ReapersHandle]_vars

LEMMA RecoveryInvariant ==
  ASSUME ErrorsWhilePlanning, CrashesWhileWorking
  PROVE  Spec /\ ReapersSurvive => [](RefInv /\ RecoveryInv)
<1>1. Init => RecoveryInv
  BY InitRecovery
<1>2. RefInv /\ RecoveryInv /\ [Next]_vars /\ [ReapersHandle]_vars => RecoveryInv'
  BY RecoveryStep
<1> QED BY <1>1, <1>2, RefInvariant, PTL DEF Spec, ReapersSurvive

\* README "Crash recovery": whenever workers die at work, however late, slow or
\* repeated everything else is, what the platform has accepted has an actor that
\* will plan it, a job on its way, or an actor that will look at its tasks.
\* Reapers may not die half way through the stale tasks they have read: that
\* loses the executions of those they have dealt with.
THEOREM NothingOrphaned ==
  ASSUME FiniteThreads, ErrorsWhilePlanning, CrashesWhileWorking
  PROVE  Spec /\ ReapersSurvive => []NoOrphans
<1>1. RefInv /\ RecoveryInv => NoOrphans
  BY NothingForgotten DEF RefInv, SafeInv
<1> QED BY <1>1, RecoveryInvariant, PTL

\* jobqueue.py:9: under the same conditions a job that was pushed is delivered
\* at least once.
THEOREM DeliveredAtLeastOnce ==
  ASSUME FiniteThreads, ErrorsWhilePlanning, CrashesWhileWorking
  PROVE  Spec /\ ReapersSurvive => []AtLeastOnceDelivery
<1>1. RefInv /\ RecoveryInv => AtLeastOnceDelivery
  BY NothingForgotten DEF RefInv, SafeInv
<1> QED BY <1>1, RecoveryInvariant, PTL

\* When no process dies while it recovers, nothing needs to be said of reapers.
THEOREM NothingOrphanedByWorkers ==
  ASSUME FiniteThreads, ErrorsWhilePlanning, CrashPoints \subseteq {"check", "run"}
  PROVE  Spec => []NoOrphans
<1>1. CrashesWhileWorking
  BY DEF CrashesWhileWorking, HoldingPoints
<1>2. ReapersHandle
  BY DEF ReapersHandle, Crash
<1>3. Spec => ReapersSurvive
  BY <1>2, PTL DEF Spec, ReapersSurvive
<1> QED BY <1>1, <1>3, NothingOrphaned, PTL

-----------------------------------------------------------------------------
(***************************************************************************)
(* A graceful stop does nothing to the tables and the queue that Scheduler *)
(* does not already do: a thread that is told to stop completes its step,  *)
(* and one that is ended on the way is one whose process crashed there.    *)
(* What is shown of Scheduler therefore holds of stopping processes too.   *)
(***************************************************************************)

LEMMA ThreadIsNext ==
  ASSUME NEW a \in Actors \cup Promoters, ThreadStep(a)
  PROVE  Next
BY DEF ThreadStep, Next

LEMMA AbandonIsNext ==
  ASSUME NEW a \in Actors \cup Promoters, Abandon(a)
  PROVE  Next
BY DEF Abandon, FaultStep, Next

LEMMA ProcessStep == [ProcessNext]_allVars => [Next]_vars
<1> SUFFICES ASSUME [ProcessNext]_allVars PROVE [Next]_vars
  OBVIOUS
<1>1. CASE Others
  <2>1. CASE ApiStep
    BY <2>1 DEF Next
  <2>2. ASSUME NEW a \in (Actors \cup Promoters) \ Leaving, ThreadStep(a) PROVE [Next]_vars
    BY <2>2, ThreadIsNext
  <2>3. ASSUME NEW t \in Tasks, Elapse(t) PROVE [Next]_vars
    BY <2>3 DEF Next
  <2>4. ASSUME NEW a \in Actors \ Leaving, Crash(a) PROVE [Next]_vars
    BY <2>4 DEF FaultStep, Next
  <2> QED
    BY <1>1, <2>1, <2>2, <2>3, <2>4 DEF Others
<1>2. CASE Sigterm
  BY <1>2 DEF Sigterm
<1>3. ASSUME NEW a \in Leaving, Thread(a) PROVE [Next]_vars
  <2>1. a \in Actors \cup Promoters
    BY LeavingAssumption
  <2>2. CASE TestStop(a)
    BY <2>2 DEF TestStop
  <2>3. CASE Work(a)
    BY <2>1, <2>3, ThreadIsNext DEF Work
  <2>4. CASE IdleRound(a)
    BY <2>4 DEF IdleRound
  <2> QED
    BY <1>3, <2>2, <2>3, <2>4 DEF Thread
<1>4. ASSUME NEW a \in Leaving, Killed(a) PROVE [Next]_vars
  <2>1. a \in Actors \cup Promoters
    BY LeavingAssumption
  <2>2. CASE AtRest(a)
    BY <1>4, <2>2 DEF Killed
  <2>3. CASE ~AtRest(a)
    BY <1>4, <2>1, <2>3, AbandonIsNext DEF Killed
  <2> QED
    BY <2>2, <2>3
<1>5. CASE UNCHANGED allVars
  BY <1>5 DEF allVars
<1> QED
  BY <1>1, <1>2, <1>3, <1>4, <1>5 DEF ProcessNext

\* README:469-470: a process that stops on a signal, in time or not, is a
\* behaviour of the scheduler.
THEOREM StoppingIsScheduling == ProcessSpec => Spec
<1>1. ProcessInit => Init
  BY DEF ProcessInit
<1> QED
  BY <1>1, ProcessStep, PTL DEF ProcessSpec, Spec

\* In particular no task of any process starts before its dependencies, outputs
\* and statuses agree, nothing is planned twice, and dead letters are exhausted
\* tasks, while processes stop.
THEOREM StoppingIsSafe ==
  ProcessSpec => /\ []TypeOK /\ []DependenciesFirst /\ []ResultsMatchStatus
                 /\ PlannedOnce /\ []DeadLettersAreExhausted
BY StoppingIsScheduling, TypeCorrect, DependenciesComeFirst, ResultsStored, PlansInsertedOnce,
   DeadLettersExhausted

\* worker.py:182: what the threads of a stopping process held at their work when
\* they were cut off is found again, under the conditions of NothingOrphaned.
THEOREM StoppingOrphansNothing ==
  ASSUME FiniteThreads, ErrorsWhilePlanning, CrashesWhileWorking
  PROVE  ProcessSpec /\ ReapersSurvive => []NoOrphans
BY StoppingIsScheduling, NothingOrphaned

-----------------------------------------------------------------------------
(* The loops of the process that stops.                                    *)

LEMMA LoopStep ==
  ASSUME ProcessTypeOK, [ProcessNext]_allVars
  PROVE  ProcessTypeOK'
<1>1. CASE Others
  BY <1>1 DEF Others, processVars, ProcessTypeOK
<1>2. CASE Sigterm
  BY <1>2 DEF Sigterm, ProcessTypeOK
<1>3. ASSUME NEW a \in Leaving, TestStop(a) PROVE ProcessTypeOK'
  BY <1>3 DEF TestStop, ProcessTypeOK
<1>4. ASSUME NEW a \in Leaving, Work(a) PROVE ProcessTypeOK'
  BY <1>4 DEF Work, ProcessTypeOK
<1>5. ASSUME NEW a \in Leaving, IdleRound(a) PROVE ProcessTypeOK'
  BY <1>5 DEF IdleRound, ProcessTypeOK
<1>6. ASSUME NEW a \in Leaving, Killed(a) PROVE ProcessTypeOK'
  BY <1>6 DEF Killed, ProcessTypeOK
<1>7. CASE UNCHANGED allVars
  BY <1>7 DEF allVars, processVars, ProcessTypeOK
<1> QED
  BY <1>1, <1>2, <1>3, <1>4, <1>5, <1>6, <1>7 DEF ProcessNext, Thread

\* worker.py:52, 71, 85: no thread ends before the process was told to stop.
THEOREM LoopsTyped == ProcessSpec => []ProcessTypeOK
<1>1. ProcessInit => ProcessTypeOK
  BY DEF ProcessInit, ProcessTypeOK
<1> QED
  BY <1>1, LoopStep, PTL DEF ProcessSpec
=============================================================================
