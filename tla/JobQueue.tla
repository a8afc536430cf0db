------------------------------ MODULE JobQueue ------------------------------
(***************************************************************************)
(* The Redis side of queue mode (jobqueue.py): the FIFO list of jobs, the  *)
(* sorted set of delayed retries, the dead-letter list, and the promoter   *)
(* threads of worker.py that move due retries back to the list.  Every     *)
(* action here is one Redis command: what one Python function does in two  *)
(* commands is two actions, with whatever other clients do in between.     *)
(***************************************************************************)
EXTENDS Models

CONSTANT Promoters   \* one promoter thread per worker process

ASSUME NoneAssumption == None \notin Executions \cup Tasks

VARIABLES
  queue,     \* LIST aep:jobs
  delayed,   \* members of the ZSET aep:delayed
  due,       \* those whose run-at score has passed
  dlq,       \* LIST aep:dlq, as the tasks recorded in it
  scan,      \* scan[p]: what p read with ZRANGEBYSCORE and has not visited yet
  moving     \* moving[p]: the task p has ZREMoved and not RPUSHed yet

queueVars == <<queue, delayed, due, dlq, scan, moving>>
promoterVars == <<scan, moving>>

QueueTypeOK ==
  /\ queue \in Seq(Jobs)
  /\ delayed \in SUBSET Tasks
  /\ due \in SUBSET delayed
  /\ dlq \in Seq(Tasks)
  /\ scan \in [Promoters -> SUBSET Tasks]
  /\ moving \in [Promoters -> Tasks \cup {None}]

QueueInit ==
  /\ queue = <<>>
  /\ delayed = {}
  /\ due = {}
  /\ dlq = <<>>
  /\ scan = [p \in Promoters |-> {}]
  /\ moving = [p \in Promoters |-> None]

-----------------------------------------------------------------------------
(* Commands the API and the scheduler issue.                               *)

\* _enqueue: RPUSH.
Enqueue(j) ==
  /\ queue' = Append(queue, j)
  /\ UNCHANGED <<delayed, due, dlq, promoterVars>>

\* dequeue: BLPOP removes the job before the worker has done anything for it.
Pop ==
  /\ queue # <<>>
  /\ queue' = Tail(queue)
  /\ UNCHANGED <<delayed, due, dlq, promoterVars>>

\* schedule_task: ZADD with a score in the future, also when the member exists.
ScheduleTask(t) ==
  /\ delayed' = delayed \cup {t}
  /\ due' = due \ {t}
  /\ UNCHANGED <<queue, dlq, promoterVars>>

SlipOverwriteDeadLetters(t) ==
  /\ dlq' = <<t>>
  /\ UNCHANGED <<queue, delayed, due, promoterVars>>

\* push_dead_letter: RPUSH.
PushDeadLetter(t) ==
  /\ dlq' = Append(dlq, t)
  /\ UNCHANGED <<queue, delayed, due, promoterVars>>

-----------------------------------------------------------------------------
(* The promoter threads.                                                   *)

\* The backoff of a delayed task elapses.
BecomeDue(t) ==
  /\ t \in delayed \ due
  /\ due' = due \cup {t}
  /\ UNCHANGED <<queue, delayed, dlq, promoterVars>>

SlipScanEverything(p) ==
  /\ scan[p] = {}
  /\ moving[p] = None
  /\ delayed # {}
  /\ scan' = [scan EXCEPT ![p] = delayed]
  /\ UNCHANGED <<queue, delayed, due, dlq, moving>>

\* promote_due, its ZRANGEBYSCORE.
PromoteScan(p) ==
  /\ scan[p] = {}
  /\ moving[p] = None
  /\ due # {}
  /\ scan' = [scan EXCEPT ![p] = due]
  /\ UNCHANGED <<queue, delayed, due, dlq, moving>>

SlipKeepScore(p, t) ==
  /\ moving[p] = None
  /\ t \in scan[p]
  /\ scan' = [scan EXCEPT ![p] = @ \ {t}]
  /\ moving' = [moving EXCEPT ![p] = IF t \in delayed THEN t ELSE None]
  /\ delayed' = delayed \ {t}
  /\ UNCHANGED <<queue, due, dlq>>

\* promote_due, the ZREM of one member: it may be gone, or be there again.
PromoteRemove(p, t) ==
  /\ moving[p] = None
  /\ t \in scan[p]
  /\ scan' = [scan EXCEPT ![p] = @ \ {t}]
  /\ moving' = [moving EXCEPT ![p] = IF t \in delayed THEN t ELSE None]
  /\ delayed' = delayed \ {t}
  /\ due' = due \ {t}
  /\ UNCHANGED <<queue, dlq>>

\* promote_due, the RPUSH that follows a ZREM which removed the member.
PromotePush(p) ==
  /\ moving[p] # None
  /\ queue' = Append(queue, TaskJob(moving[p]))
  /\ moving' = [moving EXCEPT ![p] = None]
  /\ UNCHANGED <<delayed, due, dlq, scan>>

\* The delivery jobqueue.py and the README promise the scheduler copes with: a
\* job already in the list arrives a second time.
Redeliver(i) ==
  /\ i \in DOMAIN queue
  /\ queue' = Append(queue, queue[i])
  /\ UNCHANGED <<delayed, due, dlq, promoterVars>>

\* The promoter's process dies, or the RPUSH raises and _promoter_loop logs it.
PromoterStops(p) ==
  /\ moving[p] # None \/ scan[p] # {}
  /\ scan' = [scan EXCEPT ![p] = {}]
  /\ moving' = [moving EXCEPT ![p] = None]
  /\ UNCHANGED <<queue, delayed, due, dlq>>
=============================================================================
