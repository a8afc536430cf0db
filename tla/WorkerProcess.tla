--------------------------- MODULE WorkerProcess ---------------------------
(***************************************************************************)
(* One worker process is told to stop (worker.py): its consumer, promoter  *)
(* and reaper threads are loops that test _stop between two rounds, main   *)
(* joins them for a while and then leaves, which ends the ones still at    *)
(* work.  The threads of the other processes go on.                        *)
(***************************************************************************)
EXTENDS SchedulerProperties

CONSTANT Leaving   \* the threads of the process that stops

ASSUME LeavingAssumption == Leaving \subseteq Actors \cup Promoters

VARIABLES
  stop,  \* is _stop set?
  at     \* where each thread's loop is: at its test, in its body, or ended

processVars == <<stop, at>>
allVars == <<vars, processVars>>

ProcessTypeOK ==
  /\ stop \in BOOLEAN
  /\ at \in [Leaving -> {"test", "body", "ended"}]
  /\ \A a \in Leaving : at[a] = "ended" => stop

ProcessInit ==
  /\ Init
  /\ stop = FALSE
  /\ at = [a \in Leaving |-> "test"]

\* Nothing is in the hands of the thread.
AtRest(a) == IF a \in Promoters THEN scan[a] = {} /\ moving[a] = None ELSE pc[a] = "idle"

\* There is nothing for the thread to take up.
NothingToDo(a) ==
  CASE a \in Workers -> queue = <<>>
    [] a \in Reapers -> StaleTasks = {}
    [] OTHER -> due = {}

ThreadStep(a) ==
  \/ a \in Workers /\ WorkerStep(a)
  \/ a \in Reapers /\ ReaperStep(a)
  \/ a \in Promoters /\ PromoterStep(a)

-----------------------------------------------------------------------------
\* The handler of SIGTERM and SIGINT.
Sigterm ==
  /\ ~stop
  /\ stop' = TRUE
  /\ UNCHANGED <<vars, at>>

SlipStopAnywhere(a) ==
  /\ at[a] = "test" \/ (stop /\ at[a] = "body" /\ pc[a] # "idle")
  /\ at' = [at EXCEPT ![a] = IF stop THEN "ended" ELSE "body"]
  /\ IF at[a] = "test" THEN UNCHANGED vars
     ELSE Drop(a) /\ UNCHANGED <<execStatus, taskVars, apiPending, tries, faults, queueVars>>
  /\ UNCHANGED stop

\* while not _stop.is_set()
TestStop(a) ==
  /\ at[a] = "test"
  /\ at' = [at EXCEPT ![a] = IF stop THEN "ended" ELSE "body"]
  /\ UNCHANGED <<vars, stop>>

\* A step of the body: a job, a recovery or a promotion is not interrupted.
Work(a) ==
  /\ at[a] = "body"
  /\ ThreadStep(a)
  /\ at' = [at EXCEPT ![a] = IF AtRest(a)' THEN "test" ELSE @]
  /\ UNCHANGED stop

SlipNoPollTimeout(a) ==
  /\ at[a] = "body"
  /\ a \notin Workers
  /\ AtRest(a) /\ NothingToDo(a)
  /\ at' = [at EXCEPT ![a] = "test"]
  /\ UNCHANGED <<vars, stop>>

\* BLPOP times out, or there is nothing to recover or to promote.
IdleRound(a) ==
  /\ at[a] = "body"
  /\ AtRest(a) /\ NothingToDo(a)
  /\ at' = [at EXCEPT ![a] = "test"]
  /\ UNCHANGED <<vars, stop>>

\* What the thread had in hand is lost.
Abandon(a) == IF a \in Promoters THEN PromoterCrash(a) ELSE Crash(a)

SlipDaemon(a) ==
  /\ at[a] # "ended"
  /\ at' = [at EXCEPT ![a] = "ended"]
  /\ IF AtRest(a) THEN UNCHANGED vars ELSE Abandon(a)
  /\ UNCHANGED stop

\* main has joined the threads for worker_poll_timeout + 10 seconds and returns;
\* the interpreter ends its daemon threads wherever they are.
Killed(a) ==
  /\ stop
  /\ at[a] # "ended"
  /\ at' = [at EXCEPT ![a] = "ended"]
  /\ IF AtRest(a) THEN UNCHANGED vars ELSE Abandon(a)
  /\ UNCHANGED stop

-----------------------------------------------------------------------------
\* The API, the other processes, whose threads may die, and time.
Others ==
  /\ \/ ApiStep
     \/ \E a \in (Actors \cup Promoters) \ Leaving : ThreadStep(a)
     \/ \E t \in Tasks : Elapse(t)
     \/ \E a \in Actors \ Leaving : Crash(a)
  /\ UNCHANGED processVars

Thread(a) == TestStop(a) \/ Work(a) \/ IdleRound(a)

ProcessNext ==
  \/ Others
  \/ Sigterm
  \/ \E a \in Leaving : Thread(a) \/ Killed(a)

ProcessSpec == ProcessInit /\ [][ProcessNext]_allVars

\* Scheduler!Fairness, with the loops of the stopping process.  No signal is
\* owed, and a thread that could be killed may also get to its end.
ProcessFairness ==
  /\ \A e \in Executions : WF_allVars(EnqueuePlan(e) /\ UNCHANGED processVars)
  /\ \A a \in (Actors \cup Promoters) \ Leaving : WF_allVars(ThreadStep(a) /\ UNCHANGED processVars)
  /\ \A a \in Leaving : WF_allVars(Thread(a))
  /\ \A t \in Tasks : WF_allVars(Elapse(t) /\ UNCHANGED processVars)

FairProcessSpec == ProcessSpec /\ ProcessFairness

-----------------------------------------------------------------------------
\* README:469-470, worker.py:175-179: a process that is told to stop does stop,
\* whatever its threads are at: none waits for a job for ever, or goes on with
\* the next one.
ThreadsEnd == stop ~> \A a \in Leaving : at[a] = "ended"
=============================================================================
