-------------------------- MODULE ApiProcessProofs --------------------------
(***************************************************************************)
(* What one API process promises: the quotas of its rate limiter, whatever *)
(* the requests, the inline run and the metrics do around it; the plans    *)
(* its planner makes of any answer of the LLM, which the scheduler's       *)
(* theorems rest on (PlansAssumption of Models); the contexts the agents   *)
(* of an inline run work with; and metrics that agree with each other      *)
(* although the run commits between the statements that read them.         *)
(***************************************************************************)
EXTENDS ApiProcess, ConversationProofs

-----------------------------------------------------------------------------
(* The rate limiter: for every set of clients, limit, window length,       *)
(* number of entries and bound, the counters keep the quotas of Quota.     *)

\* No entry is of a window still to come: this is why a new window finds every
\* counter at zero.
CountersArePast == \A k \in Clients : counts[k].window <= Window

LimiterInv == LimiterTypeOK /\ CountersArePast

-----------------------------------------------------------------------------
\* Windows follow one another.
LEMMA WindowsGrow ==
  ASSUME NEW s \in Nat, NEW t \in Nat, s <= t
  PROVE  WindowOf(s) \in Nat /\ WindowOf(t) \in Nat /\ WindowOf(s) <= WindowOf(t)
BY WindowAssumption DEF WindowOf

\* middleware.py:89: the time named in a refusal lies in the next window.
LEMMA RetryAfterEndsTheWindow ==
  ASSUME NEW t \in Nat
  PROVE  WindowOf(t + (WindowLength - (t % WindowLength))) = WindowOf(t) + 1
BY WindowAssumption DEF WindowOf

\* What a request does to the counts: its client's grows by one, and the cleanup
\* changes nobody's.
LEMMA CountChangesOne ==
  ASSUME LimiterInv, NEW k \in Clients, Count(k)
  PROVE  /\ counts' \in [Clients -> Entries]
         /\ counts'[k].window = Window
         /\ \A j \in Clients : counts'[j].window <= Window
         /\ \A j \in Clients : CountOf(j)' = IF j = k THEN CountOf(k) + 1 ELSE CountOf(j)
<1> DEFINE c == [counts EXCEPT ![k] = [window |-> Window, count |-> CountOf(k) + 1]]
<1>1. Window \in Nat /\ Window' = Window
  BY WindowsGrow DEF LimiterInv, LimiterTypeOK, Count, Window
<1>2. \A j \in Clients : CountOf(j) \in Nat
  BY DEF LimiterInv, LimiterTypeOK, CountOf, Entries
<1>3. c \in [Clients -> Entries]
  BY <1>1, <1>2 DEF LimiterInv, LimiterTypeOK, Entries
<1>4. counts' = Evict(c)
  BY DEF Count
<1>5. CASE counts' = c
  BY <1>1, <1>2, <1>3, <1>5 DEF LimiterInv, LimiterTypeOK, CountersArePast, CountOf, Entries
<1>6. CASE counts' = [j \in Clients |-> IF c[j].window = Window THEN c[j] ELSE NoEntry]
  <2>1. counts' \in [Clients -> Entries]
    BY <1>3, <1>6 DEF Entries, NoEntry
  <2>2. c[k].window = Window /\ c[k].count = CountOf(k) + 1
    BY DEF LimiterInv, LimiterTypeOK
  <2>3. \A j \in Clients : counts'[j].window <= Window
    BY <1>1, <1>6 DEF NoEntry
  <2>4. \A j \in Clients : j # k => c[j] = counts[j]
    BY DEF LimiterInv, LimiterTypeOK
  <2>5. \A j \in Clients : CountOf(j)' = IF j = k THEN CountOf(k) + 1 ELSE CountOf(j)
    BY <1>1, <1>6, <2>2, <2>4 DEF CountOf, NoEntry
  <2> QED
    BY <1>6, <2>1, <2>2, <2>3, <2>5
<1> QED
  BY <1>4, <1>5, <1>6 DEF Evict

-----------------------------------------------------------------------------
(* The invariant.                                                          *)

LEMMA InvInit == LimiterInit => LimiterInv
BY WindowsGrow DEF LimiterInit, LimiterInv, LimiterTypeOK, CountersArePast, Window, Entries, NoEntry,
   Verdicts, NoVerdict

\* What one second, or a new process, does to the verdicts.
LEMMA RenewedVerdicts ==
  ASSUME LimiterTypeOK
  PROVE  /\ Renewed \in [Clients -> Verdicts]
         /\ \A k \in Clients :
              /\ Renewed[k].passed = 0 /\ Renewed[k].refused = FALSE
              /\ Renewed[k].comeBack = verdicts[k].comeBack
BY DEF LimiterTypeOK, Renewed, Verdicts, NoVerdict

\* What a request does to them.
LEMMA CountTells ==
  ASSUME LimiterInv, NEW k \in Clients, Count(k)
  PROVE  /\ verdicts' \in [Clients -> Verdicts]
         /\ \A j \in Clients : j # k => verdicts'[j] = verdicts[j]
         /\ verdicts'[k] = IF LetThrough(k)
                          THEN [passed |-> verdicts[k].passed + 1, refused |-> verdicts[k].refused, comeBack |-> 0]
                          ELSE [passed |-> verdicts[k].passed, refused |-> TRUE, comeBack |-> now + RetryAfter]
<1>1. now + RetryAfter \in Nat
  BY WindowAssumption DEF LimiterInv, LimiterTypeOK, RetryAfter
<1>2. verdicts \in [Clients -> Verdicts] /\ verdicts[k].passed \in Nat /\ verdicts[k].refused \in BOOLEAN
  BY DEF LimiterInv, LimiterTypeOK, Verdicts
<1> DEFINE told == IF LetThrough(k)
                   THEN [passed |-> verdicts[k].passed + 1, refused |-> verdicts[k].refused, comeBack |-> 0]
                   ELSE [passed |-> verdicts[k].passed, refused |-> TRUE, comeBack |-> now + RetryAfter]
<1>3. told \in Verdicts
  BY <1>1, <1>2 DEF Verdicts
<1>4. verdicts' = [verdicts EXCEPT ![k] = told]
  BY DEF Count
<1> QED
  BY <1>2, <1>3, <1>4

LEMMA InvStep == LimiterInv /\ [LimiterNext]_limiterVars => LimiterInv'
<1> SUFFICES ASSUME LimiterInv, [LimiterNext]_limiterVars PROVE LimiterInv'
  OBVIOUS
<1>0. Window \in Nat
  BY WindowsGrow DEF LimiterInv, LimiterTypeOK, Window
<1>1. ASSUME NEW k \in Clients, Count(k) PROVE LimiterInv'
  <2>1. Window' = Window
    BY <1>1 DEF Count, Window
  <2> QED
    BY <1>1, <2>1, CountChangesOne, CountTells DEF LimiterInv, LimiterTypeOK, CountersArePast, Count
<1>2. CASE Tick
  <2>1. now' \in Nat /\ Window <= Window'
    BY <1>2, WindowsGrow DEF LimiterInv, LimiterTypeOK, Tick, Window
  <2>2. verdicts' \in [Clients -> Verdicts]
    BY <1>2, RenewedVerdicts DEF LimiterInv, LimiterTypeOK, Tick
  <2> QED
    BY <1>0, <1>2, <2>1, <2>2, WindowsGrow DEF LimiterInv, LimiterTypeOK, CountersArePast, Tick, Entries, Window
<1>3. CASE Restart
  <2>1. Window' = Window
    BY <1>3 DEF Restart, Window
  <2>2. verdicts' \in [Clients -> Verdicts]
    BY <1>3, RenewedVerdicts DEF LimiterInv, Restart
  <2> QED
    BY <1>0, <1>3, <2>1, <2>2 DEF LimiterInv, LimiterTypeOK, CountersArePast, Restart, Entries, NoEntry
<1>4. CASE UNCHANGED limiterVars
  BY <1>4 DEF LimiterInv, LimiterTypeOK, CountersArePast, limiterVars, Window
<1> QED
  BY <1>1, <1>2, <1>3, <1>4 DEF LimiterNext

\* The middleware's variables keep their types, and no entry is of a later window.
THEOREM LimiterInvariant == LimiterSpec => []LimiterInv
<1>1. LimiterInit => LimiterInv
  BY InvInit
<1>2. LimiterInv /\ [LimiterNext]_limiterVars => LimiterInv'
  BY InvStep
<1> QED
  BY <1>1, <1>2, PTL DEF LimiterSpec

-----------------------------------------------------------------------------
(* Coming back after a refusal.                                            *)

\* The counter of a client that was refused is of a window before the one it was
\* told of, until it is let through.
RefusalEnds ==
  \A k \in Clients :
    verdicts[k].comeBack # 0 => counts[k].window < WindowOf(verdicts[k].comeBack)

\* A cleanup drops entries of clients that were refused; it makes none.
LEMMA CountKeepsOthers ==
  ASSUME LimiterInv, NEW k \in Clients, Count(k), NEW j \in Clients, j # k
  PROVE  counts'[j] \in {counts[j], NoEntry}
BY DEF LimiterInv, LimiterTypeOK, Count, Evict

LEMMA RefusalStep == LimiterInv /\ RefusalEnds /\ [LimiterNext]_limiterVars => RefusalEnds'
<1> SUFFICES ASSUME LimiterInv, RefusalEnds, [LimiterNext]_limiterVars, NEW j \in Clients, verdicts'[j].comeBack # 0
             PROVE  counts'[j].window < WindowOf(verdicts'[j].comeBack)
  BY DEF RefusalEnds, WindowOf
<1>0. Window \in Nat
  BY WindowsGrow DEF LimiterInv, LimiterTypeOK, Window
<1>1. verdicts[j].comeBack # 0 =>
        /\ counts[j].window < WindowOf(verdicts[j].comeBack)
        /\ NoEntry.window < WindowOf(verdicts[j].comeBack)
  BY WindowsGrow DEF RefusalEnds, LimiterInv, LimiterTypeOK, Verdicts, NoEntry
<1>2. ASSUME NEW k \in Clients, Count(k) PROVE counts'[j].window < WindowOf(verdicts'[j].comeBack)
  <2>1. CASE j # k
    BY <1>1, <1>2, <2>1, CountTells, CountKeepsOthers
  <2>2. CASE j = k
    <3>0. /\ LetThrough(k) => verdicts'[k] = [passed |-> verdicts[k].passed + 1, refused |-> verdicts[k].refused,
                                              comeBack |-> 0]
          /\ ~LetThrough(k) => verdicts'[k] = [passed |-> verdicts[k].passed, refused |-> TRUE,
                                               comeBack |-> now + RetryAfter]
      BY <1>2, CountTells
    <3>1. verdicts'[j].comeBack = now + RetryAfter
      BY <2>2, <3>0
    <3>2. WindowOf(now + RetryAfter) = Window + 1
      BY RetryAfterEndsTheWindow DEF LimiterInv, LimiterTypeOK, RetryAfter, Window
    <3>3. counts'[j].window = Window
      BY <1>2, <2>2, CountChangesOne
    <3> QED
      BY <1>0, <3>1, <3>2, <3>3
  <2> QED
    BY <2>1, <2>2
<1>3. CASE Tick
  <2>1. verdicts'[j].comeBack = verdicts[j].comeBack
    BY <1>3, RenewedVerdicts DEF LimiterInv, Tick
  <2> QED
    BY <1>1, <1>3, <2>1 DEF Tick
<1>4. CASE Restart
  <2>1. verdicts'[j].comeBack = verdicts[j].comeBack
    BY <1>4, RenewedVerdicts DEF LimiterInv, Restart
  <2> QED
    BY <1>1, <1>4, <2>1 DEF Restart
<1>5. CASE UNCHANGED limiterVars
  BY <1>1, <1>5 DEF limiterVars
<1> QED
  BY <1>2, <1>3, <1>4, <1>5 DEF LimiterNext

\* Every client that comes back when its Retry-After header said is let through
\* (middleware.py:88-98), whatever other clients ask, whatever is evicted, and
\* whether the process is the same or a new one.
THEOREM RetryAfterIsEnough == LimiterSpec => []RetryAfterSuffices
<1>1. LimiterInit => RefusalEnds
  BY DEF LimiterInit, RefusalEnds, NoVerdict
<1>2. LimiterInv /\ RefusalEnds => RetryAfterSuffices
  <2> SUFFICES ASSUME LimiterInv, RefusalEnds, NEW k \in Clients, verdicts[k].comeBack \in 1 .. now
               PROVE  LetThrough(k)
    BY DEF RetryAfterSuffices
  <2>1. verdicts[k].comeBack \in Nat /\ now \in Nat /\ verdicts[k].comeBack # 0 /\ verdicts[k].comeBack <= now
    BY DEF LimiterInv, LimiterTypeOK, Verdicts
  <2>2. WindowOf(verdicts[k].comeBack) <= Window
    BY <2>1, WindowsGrow DEF Window
  <2>3. Window \in Nat /\ WindowOf(verdicts[k].comeBack) \in Nat
    BY <2>1, WindowsGrow DEF Window
  <2>4. counts[k].window \in Int /\ counts[k].window # Window
    BY <2>1, <2>2, <2>3 DEF RefusalEnds, LimiterInv, LimiterTypeOK, Entries
  <2> QED
    BY <2>4, LimitAssumption DEF CountOf, LetThrough
<1> QED
  BY <1>1, <1>2, LimiterInvariant, RefusalStep, PTL DEF LimiterSpec

-----------------------------------------------------------------------------
(* The refinement.                                                         *)

\* What the counters have to do with what was promised: a client that was let
\* through n times in this window has a count of n, until the limit; it has been
\* refused if its count is beyond it.
CountsTell ==
  \A k \in Clients :
    /\ verdicts[k].passed = IF CountOf(k) < Limit THEN CountOf(k) ELSE Limit
    /\ verdicts[k].refused <=> CountOf(k) > Limit

QuotaInv == LimiterInv /\ CountsTell

\* A new window finds no count of its own.
LEMMA NewWindowCounts ==
  ASSUME LimiterInv, Tick, Window' # Window
  PROVE  /\ Window' = Window + 1
         /\ \A k \in Clients : CountOf(k)' = 0
         /\ verdicts' = Renewed
<1>1. now \in Nat /\ now' = now + 1 /\ Window \in Nat /\ Window' \in Nat /\ Window <= Window'
  BY WindowsGrow DEF LimiterInv, LimiterTypeOK, Tick, Window, WindowOf
<1>2. Window' <= Window + 1
  BY <1>1, WindowAssumption DEF Window, WindowOf
<1>3. \A k \in Clients : CountOf(k)' = 0
  BY <1>1 DEF LimiterInv, LimiterTypeOK, CountersArePast, Entries, Tick, CountOf
<1>4. verdicts' = Renewed
  BY <1>1 DEF Tick, Window, WindowOf
<1> QED
  BY <1>1, <1>2, <1>3, <1>4

LEMMA SameWindow ==
  ASSUME Tick, Window' = Window
  PROVE  verdicts' = verdicts /\ \A k \in Clients : CountOf(k)' = CountOf(k)
BY DEF Tick, Window, WindowOf, CountOf

LEMMA RestartCounts ==
  ASSUME LimiterInv, Restart
  PROVE  Window' = Window /\ \A k \in Clients : CountOf(k)' = 0
BY WindowsGrow DEF LimiterInv, LimiterTypeOK, Restart, Window, CountOf, NoEntry

\* Counts that are gone and verdicts that are renewed agree, and renew the quotas.
LEMMA RenewalAgrees ==
  ASSUME LimiterInv, verdicts' = Renewed, \A k \in Clients : CountOf(k)' = 0
  PROVE  CountsTell' /\ Q!Renew
<1>1. \A k \in Clients : verdicts'[k].passed = 0 /\ verdicts'[k].refused = FALSE
  BY RenewedVerdicts DEF LimiterInv
<1>2. CountsTell'
  BY <1>1, LimitAssumption DEF CountsTell
<1> QED
  BY <1>1, <1>2 DEF Q!Renew

LEMMA QuotaStep ==
  QuotaInv /\ [LimiterNext]_limiterVars => CountsTell' /\ [Q!Next]_Q!quotaVars
<1> SUFFICES ASSUME LimiterInv, CountsTell, [LimiterNext]_limiterVars
             PROVE  CountsTell' /\ [Q!Next]_Q!quotaVars
  BY DEF QuotaInv
<1>0. \A j \in Clients : CountOf(j) \in Nat /\ verdicts[j].passed \in Nat /\ verdicts[j].refused \in BOOLEAN
  BY DEF LimiterInv, LimiterTypeOK, CountOf, Entries, Verdicts
<1>1. ASSUME NEW k \in Clients, Count(k) PROVE CountsTell' /\ Q!Next
  <2>1. \A j \in Clients : CountOf(j)' = IF j = k THEN CountOf(k) + 1 ELSE CountOf(j)
    BY <1>1, CountChangesOne
  <2>2. Window' = Window
    BY <1>1 DEF Count, Window
  <2>3. \A j \in Clients : j # k => verdicts'[j] = verdicts[j]
    BY <1>1, CountTells
  <2>4. CASE LetThrough(k)
    <3>0. verdicts'[k] = [passed |-> verdicts[k].passed + 1, refused |-> verdicts[k].refused, comeBack |-> 0]
      BY <1>1, <2>4, CountTells
    <3>1. verdicts'[k].passed = verdicts[k].passed + 1 /\ verdicts'[k].refused = verdicts[k].refused
      BY <3>0
    <3>2. CountOf(k) < Limit /\ verdicts[k].passed = CountOf(k)
      BY <1>0, <2>4, LimitAssumption DEF LetThrough, CountsTell
    <3>3. CountsTell'
      BY <1>0, <2>1, <2>3, <3>1, <3>2, LimitAssumption DEF CountsTell
    <3>4. Q!Pass(k)
      BY <2>2, <2>3, <3>1, <3>2 DEF Q!Pass
    <3> QED
      BY <3>3, <3>4 DEF Q!Next
  <2>5. CASE ~LetThrough(k)
    <3>0. verdicts'[k] = [passed |-> verdicts[k].passed, refused |-> TRUE, comeBack |-> now + RetryAfter]
      BY <1>1, <2>5, CountTells
    <3>1. verdicts'[k].passed = verdicts[k].passed /\ verdicts'[k].refused = TRUE
      BY <3>0
    <3>2. CountOf(k) >= Limit /\ verdicts[k].passed = Limit
      BY <1>0, <2>5, LimitAssumption DEF LetThrough, CountsTell
    <3>3. CountsTell'
      BY <1>0, <2>1, <2>3, <3>1, <3>2, LimitAssumption DEF CountsTell
    <3>4. Q!Refuse(k)
      BY <2>2, <2>3, <3>1, <3>2 DEF Q!Refuse
    <3> QED
      BY <3>3, <3>4 DEF Q!Next
  <2> QED
    BY <2>4, <2>5
<1>2. CASE Tick
  <2>1. CASE Window' = Window
    BY <1>2, <2>1, SameWindow DEF CountsTell, Q!quotaVars
  <2>2. CASE Window' # Window
    BY <1>2, <2>2, NewWindowCounts, RenewalAgrees DEF Q!Next, Q!NextWindow
  <2> QED
    BY <2>1, <2>2
<1>3. CASE Restart
  BY <1>3, RestartCounts, RenewalAgrees DEF Restart, Q!Next, Q!StartAnew
<1>4. CASE UNCHANGED limiterVars
  BY <1>4 DEF limiterVars, CountOf, Window, CountsTell, Q!quotaVars
<1> QED
  BY <1>1, <1>2, <1>3, <1>4 DEF LimiterNext

\* Lazy resets, evictions and counts beyond the limit keep the quotas: no client
\* is let through more than Limit times in a window of the clock, unless the
\* process is started anew, and none is refused before.
THEOREM QuotaKept == LimiterSpec => ImplementsQuota
<1>1. LimiterInit => CountsTell /\ Q!Init
  <2> SUFFICES ASSUME LimiterInit PROVE CountsTell /\ Q!Init
    OBVIOUS
  <2>1. \A k \in Clients : CountOf(k) = 0
    BY DEF LimiterInit, CountOf, NoEntry
  <2>2. Window = 0
    BY WindowAssumption DEF LimiterInit, Window, WindowOf
  <2> QED
    BY <2>1, <2>2, LimitAssumption DEF LimiterInit, NoVerdict, CountsTell, Q!Init
<1>2. QuotaInv /\ [LimiterNext]_limiterVars => CountsTell' /\ [Q!Next]_Q!quotaVars
  BY QuotaStep
<1> QED
  BY <1>1, <1>2, LimiterInvariant, PTL DEF LimiterSpec, ImplementsQuota, Q!Spec, QuotaInv

-----------------------------------------------------------------------------
(* The limiter inside the API process.                                     *)

LEMMA LimiterStep == [ApiNext]_apiVars => [LimiterNext]_limiterVars
<1> SUFFICES ASSUME [ApiNext]_apiVars PROVE [LimiterNext]_limiterVars
  OBVIOUS
<1>1. ASSUME NEW r \in Requests, Receive(r) PROVE [LimiterNext]_limiterVars
  BY <1>1, RequestsAssumption DEF Receive, LimiterNext
<1>2. ASSUME NEW r \in Requests, ReceiveCreate(r) \/ ReceiveRead(r) PROVE [LimiterNext]_limiterVars
  BY <1>1, <1>2 DEF ReceiveCreate, ReceiveRead
<1>3. CASE HandleCreate
  BY <1>3 DEF HandleCreate
<1>4. CASE HandleMetrics
  BY <1>4 DEF HandleMetrics
<1>5. CASE Background
  BY <1>5 DEF Background, requestVars
<1>6. CASE Recording
  BY <1>6 DEF Recording, requestVars
<1>7. CASE ProcessDies
  BY <1>7 DEF ProcessDies, LimiterNext
<1>8. CASE ClockStep
  BY <1>8 DEF ClockStep, LimiterNext
<1>9. CASE UNCHANGED apiVars
  BY <1>9 DEF apiVars, requestVars
<1> QED
  BY <1>2, <1>3, <1>4, <1>5, <1>6, <1>7, <1>8, <1>9 DEF ApiNext

\* The API process runs the limiter as RateLimiter describes it.
THEOREM ApiRunsLimiter == ApiSpec => LimiterSpec
<1>1. ApiInit => LimiterInit
  BY DEF ApiInit
<1> QED
  BY <1>1, LimiterStep, PTL DEF ApiSpec, LimiterSpec

\* README:466, middleware.py:48-52: per-client rate limiting holds of the whole API
\* process, for any requests and configuration.
THEOREM ApiKeepsQuotas == ApiSpec => ImplementsQuota /\ []RetryAfterSuffices
BY ApiRunsLimiter, QuotaKept, RetryAfterIsEnough

-----------------------------------------------------------------------------
(* The planner.                                                            *)

\* Clamping keeps a nonempty list of subtasks nonempty and within the maximum
\* (planner.py:63-65).
LEMMA ClampBounds ==
  ASSUME NEW s \in Seq(Subtasks), s # <<>>
  PROVE  /\ Clamp(s) \in Seq(Subtasks)
         /\ Len(Clamp(s)) \in 1 .. MaxTasks
<1>1. Len(s) \in Nat \ {0}
  OBVIOUS
<1> DEFINE n == IF Len(s) < MaxTasks THEN Len(s) ELSE MaxTasks
<1>2. n \in 1 .. MaxTasks /\ n <= Len(s)
  BY <1>1, MaxTasksAssumption
<1>3. /\ SubSeq(s, 1, n) \in Seq(Subtasks)
      /\ Len(SubSeq(s, 1, n)) = n
  BY <1>1, <1>2, MaxTasksAssumption
<1> QED
  BY <1>2, <1>3 DEF Clamp

\* Whatever dependencies the LLM gave, and whatever agent it chose, the ones
\* assigned are positions before the subtask (planner.py:79-88).
LEMMA DependenciesAreEarlier ==
  ASSUME NEW s \in Subtasks, NEW i \in Nat
  PROVE  \A d \in Dependencies(s, i) : d \in Int /\ 0 <= d /\ d < i
<1>1. s.dependsOn \subseteq Int
  BY DEF Subtasks
<1> QED
  BY <1>1 DEF Dependencies

\* What the LLM answers never reaches the scheduler unchecked: every nonempty
\* list of subtasks becomes a plan, nonempty, within the maximum, and with
\* dependencies on earlier subtasks only, so without cycles (planner.py:63-88).
THEOREM SubtasksBecomeAPlan ==
  ASSUME NEW s \in Seq(Subtasks), s # <<>>
  PROVE  IsPlan(AssignDependencies(Clamp(s)))
<1> DEFINE c == Clamp(s)
           n == Len(c)
           p == AssignDependencies(c)
<1>1. c \in Seq(Subtasks) /\ n \in 1 .. MaxTasks
  BY ClampBounds
<1>2. ASSUME NEW i \in 0 .. n - 1
      PROVE  /\ Dependencies(c[i + 1], i) \in SUBSET Index
             /\ \A d \in Dependencies(c[i + 1], i) : d < i
  <2>1. c[i + 1] \in Subtasks /\ i \in Nat /\ i < MaxTasks
    BY <1>1, MaxTasksAssumption
  <2>2. \A d \in Dependencies(c[i + 1], i) : d \in Int /\ 0 <= d /\ d < i
    BY <2>1, DependenciesAreEarlier
  <2> QED
    BY <2>1, <2>2, MaxTasksAssumption DEF Index
<1>3. p = [i \in 0 .. n - 1 |-> Dependencies(c[i + 1], i)]
  BY DEF AssignDependencies
<1>4. p \in [0 .. n - 1 -> SUBSET Index] /\ \A i \in 0 .. n - 1 : \A d \in p[i] : d < i
  <2> HIDE DEF p, n, c
  <2> QED
    BY <1>2, <1>3
<1> QED
  BY <1>1, <1>4 DEF IsPlan

\* The fallback plan is such a list too: an answer without a usable subtask
\* still leads to a plan (planner.py:59-61).
THEOREM FallbackBecomesAPlan == IsPlan(AssignDependencies(Clamp(Fallback)))
<1>1. \A a \in AgentTypes : Subtask(a) \in Subtasks
  BY DEF Subtask, Subtasks
<1>2. Fallback \in Seq(Subtasks) /\ Fallback # <<>>
  BY <1>1 DEF Fallback, AgentTypes
<1> QED
  BY <1>2, SubtasksBecomeAPlan
-----------------------------------------------------------------------------
(* The inline run.                                                         *)

RunTyped ==
  /\ llm \in Llms /\ userRequest \in UserRequests
  /\ execStatus \in ExecutionStatuses
  /\ subtasks \in Seq(Subtasks) /\ Len(subtasks) <= MaxTasks
  /\ status \in [Index -> TaskStatuses]
  /\ result \in [Index -> BOOLEAN]
  /\ pc \in {"new", "begin", "planning", "start", "next", "agent", "taskFailed", "finish",
             "failing", "done", "dead"}
  /\ current \in 0 .. Len(subtasks)
  /\ context \in Seq(Index)
  /\ failures \in 0 .. MaxFailures

\* The LLM is asked again only while rounds are left.
RoundsCounted ==
  /\ loop \in {"idle", "chat", "tools", "answered", "raised"}
  /\ rounds \in 0 .. Rounds
  /\ loop = "chat" => rounds < Rounds

\* The tasks before the current one, and no others, have completed, have an
\* output, and it is in the context.
Progress ==
  \A i \in Index :
    /\ status[i] = "COMPLETED" <=> i < current
    /\ result[i] <=> i < current
    /\ i < current => \E j \in DOMAIN context : context[j] = i

RunMatches ==
  /\ pc \in {"new", "begin", "planning", "start"} => current = 0
  /\ pc \in {"start", "next"} => subtasks # <<>>
  /\ pc \in {"agent", "taskFailed"} => current < Len(subtasks)
  /\ execStatus = "COMPLETED" => pc = "done" /\ current = Len(subtasks) /\ subtasks # <<>>

RunInv == RunTyped /\ RoundsCounted /\ Progress /\ RunMatches

LEMMA RoundsPositive == Rounds \in Nat /\ Rounds >= 1
  BY IterationsAssumption DEF Rounds

LEMMA InitRun == Init => RunInv
<1> SUFFICES ASSUME Init PROVE RunInv
  OBVIOUS
<1>1. RunTyped
  <2>1. subtasks = <<>> /\ Len(subtasks) = 0 /\ subtasks \in Seq(Subtasks) /\ context \in Seq(Index)
    BY DEF Init
  <2>2. status \in [Index -> TaskStatuses] /\ result \in [Index -> BOOLEAN]
    BY DEF Init, TaskStatuses
  <2>3. current \in 0 .. Len(subtasks) /\ failures \in 0 .. MaxFailures /\ Len(subtasks) <= MaxTasks
    BY <2>1, MaxTasksAssumption, FailuresAssumption DEF Init
  <2>4. llm \in Llms /\ userRequest \in UserRequests /\ execStatus \in ExecutionStatuses /\ pc = "new"
    BY DEF Init, ExecutionStatuses, UserRequests
  <2> QED BY <2>1, <2>2, <2>3, <2>4 DEF RunTyped
<1>2. RoundsCounted
  BY RoundsPositive DEF Init, LoopInit, RoundsCounted
<1>3. Progress /\ RunMatches
  BY DEF Init, Progress, RunMatches, Index
<1> QED BY <1>1, <1>2, <1>3 DEF RunInv

\* _parse drops what is unusable, and nothing else comes of an answer.
LEMMA AnswerParsed ==
  ASSUME NEW answer \in Seq(Subtasks \cup {Unusable})
  PROVE  Parse(answer) \in Seq(Subtasks)
<1>1. Parse(answer) \in Seq((Subtasks \cup {Unusable}) \cap Subtasks)
  BY KeepTyped DEF Parse
<1>2. (Subtasks \cup {Unusable}) \cap Subtasks = Subtasks
  OBVIOUS
<1> QED BY <1>1, <1>2

\* planner.py:4-12, 59-61: whatever list of items the LLM answers, usable or not,
\* too many or none at all, what _decompose makes of it and plan links is a plan
\* the scheduler can run.
THEOREM AnswersBecomePlans ==
  ASSUME NEW answer \in Seq(Subtasks \cup {Unusable})
  PROVE  IsPlan(AssignDependencies(Decompose(answer)))
<1>1. CASE Parse(answer) = <<>>
  BY <1>1, FallbackBecomesAPlan DEF Decompose
<1>2. CASE Parse(answer) # <<>>
  BY <1>2, AnswerParsed, SubtasksBecomeAPlan DEF Decompose
<1> QED BY <1>1, <1>2

\* The plan the planner hands over: a nonempty list of subtasks, clamped.
LEMMA PlanHandedOver ==
  ASSUME NEW answer \in PlanAnswers
  PROVE  /\ Decompose(answer) \in Seq(Subtasks)
         /\ Len(Decompose(answer)) \in 1 .. MaxTasks
<1> DEFINE kept == IF Parse(answer) = <<>> THEN Fallback ELSE Parse(answer)
<1>0. answer \in Seq(Subtasks \cup {Unusable})
  <2>1. \A agent \in AgentTypes : MockItem(agent) \in Subtasks
    BY DEF MockItem, Subtasks
  <2>2. MockPlan \in Seq(Subtasks \cup {Unusable})
    BY <2>1 DEF MockPlan, AgentTypes
  <2> QED BY <2>2, AnswersAssumption DEF PlanAnswers
<1>1. Parse(answer) \in Seq(Subtasks)
  BY <1>0, AnswerParsed
<1>2. Fallback \in Seq(Subtasks) /\ Fallback # <<>>
  BY DEF Fallback, Subtask, Subtasks, AgentTypes
<1>3. kept \in Seq(Subtasks) /\ kept # <<>>
  BY <1>1, <1>2
<1> HIDE DEF kept
<1>4. Clamp(kept) \in Seq(Subtasks) /\ Len(Clamp(kept)) \in 1 .. MaxTasks
  BY <1>3, ClampBounds
<1> QED BY <1>4 DEF kept, Decompose

\* A step that leaves the rows, the task and the context alone.
LEMMA RowsUntouched ==
  ASSUME RunTyped, Progress, UNCHANGED <<subtasks, status, result, current, context>>,
         execStatus' \in ExecutionStatuses, failures' \in 0 .. MaxFailures,
         llm' \in Llms, userRequest' \in UserRequests,
         pc' \in {"begin", "planning", "start", "next", "agent", "taskFailed", "finish",
                  "failing", "done", "dead"}
  PROVE  RunTyped' /\ Progress'
  BY DEF RunTyped, Progress

LEMMA FailCounts ==
  ASSUME RunTyped, Fail PROVE failures' \in 0 .. MaxFailures
  BY FailuresAssumption DEF RunTyped, Fail

\* The steps of run_execution that leave the rows of tasks alone.
LEMMA MoveKeeps ==
  ASSUME RunInv, UNCHANGED given, BeginPlanning \/ BeginRunning \/ FailRun \/ RecordFailure
  PROVE  RunInv'
<1>0. RunTyped /\ Progress /\ RoundsCounted /\ RunMatches
  BY DEF RunInv
<1>1. RunTyped' /\ Progress'
  BY <1>0, RowsUntouched
     DEF BeginPlanning, BeginRunning, FailRun, RecordFailure, Move, given, RunTyped, ExecutionStatuses
<1>2. RoundsCounted' /\ RunMatches'
  BY <1>0 DEF BeginPlanning, BeginRunning, FailRun, RecordFailure, Move, loopVars, RoundsCounted,
     RunMatches
<1> QED BY <1>1, <1>2 DEF RunInv

LEMMA CreateKeeps ==
  ASSUME RunInv, CreateExecution PROVE RunInv'
<1>0. RunTyped /\ Progress /\ RoundsCounted /\ RunMatches
  BY DEF RunInv
<1>1. RunTyped' /\ Progress'
  <2>1. userRequest' \in UserRequests
    BY DEF CreateExecution, UserRequests
  <2> QED BY <1>0, <2>1, RowsUntouched DEF CreateExecution, Move, RunTyped, ExecutionStatuses
<1>2. RoundsCounted' /\ RunMatches'
  BY <1>0 DEF CreateExecution, Move, loopVars, RoundsCounted, RunMatches
<1> QED BY <1>1, <1>2 DEF RunInv

\* Whatever raises, and wherever, the rows are as they were committed.
LEMMA FailureKeeps ==
  ASSUME RunInv, UNCHANGED given, NoProvider \/ CatchTaskError \/ CatchCommitError \/ CatchRunError
                                 \/ RecordingFails \/ Crash
  PROVE  RunInv'
<1>0. RunTyped /\ Progress /\ RoundsCounted /\ RunMatches
  BY DEF RunInv
<1>1. failures' \in 0 .. MaxFailures
  BY <1>0, FailCounts DEF NoProvider, CatchTaskError, CatchCommitError, CatchRunError, RecordingFails,
     Crash, RunTyped
<1>2. /\ UNCHANGED rowVars /\ UNCHANGED <<current, context>>
      /\ pc' \in {"taskFailed", "failing", "done", "dead"}
      /\ pc' = "taskFailed" => pc = "agent"
      /\ pc \notin {"done", "dead", "new"}
  BY DEF NoProvider, CatchTaskError, CatchCommitError, CatchRunError, RecordingFails, Crash
<1>3. RunTyped' /\ Progress'
  BY <1>0, <1>1, <1>2, RowsUntouched DEF given, rowVars, RunTyped
<1>4. RunMatches'
  BY <1>0, <1>2 DEF rowVars, RunMatches
<1>5. RoundsCounted'
  BY <1>0, RoundsPositive DEF NoProvider, CatchTaskError, CatchCommitError, CatchRunError,
     RecordingFails, Crash, StopAgent, loopVars, RoundsCounted
<1> QED BY <1>3, <1>4, <1>5 DEF RunInv

LEMMA PlanKeeps ==
  ASSUME RunInv, UNCHANGED given, PlanTasks PROVE RunInv'
<1>0. RunTyped /\ Progress /\ RoundsCounted /\ RunMatches
  BY DEF RunInv
<1>1. subtasks' \in Seq(Subtasks) /\ Len(subtasks') \in 1 .. MaxTasks
  BY PlanHandedOver DEF PlanTasks
<1>2. /\ pc = "planning" /\ pc' = "start" /\ current = 0 /\ current' = 0
      /\ status' = [i \in Index |-> IF i < Len(subtasks') THEN "PENDING" ELSE "ABSENT"]
      /\ UNCHANGED <<execStatus, result, context, failures, loopVars>>
  BY <1>0 DEF PlanTasks, RunMatches
<1>3. status' \in [Index -> TaskStatuses] /\ \A i \in Index : status'[i] # "COMPLETED" /\ ~(i < 0)
  BY <1>2 DEF TaskStatuses, Index
<1>4. RunTyped'
  BY <1>0, <1>1, <1>2, <1>3, MaxTasksAssumption DEF RunTyped, given
<1>5. Progress'
  BY <1>0, <1>2, <1>3 DEF Progress
<1>6. RunMatches' /\ RoundsCounted'
  BY <1>0, <1>1, <1>2 DEF RunMatches, RoundsCounted, loopVars
<1> QED BY <1>4, <1>5, <1>6 DEF RunInv

LEMMA StartKeeps ==
  ASSUME RunInv, UNCHANGED given, StartTask \/ FailTask PROVE RunInv'
<1>0. RunTyped /\ Progress /\ RoundsCounted /\ RunMatches
  BY DEF RunInv
<1>1. current \in Index /\ current < Len(subtasks)
  BY <1>0, MaxTasksAssumption DEF RunTyped, RunMatches, StartTask, FailTask, Index
<1>2. /\ \/ status' = [status EXCEPT ![current] = "RUNNING"]
         \/ status' = [status EXCEPT ![current] = "FAILED"]
      /\ UNCHANGED <<execStatus, subtasks, result, current, context, failures>>
      /\ (pc = "next" /\ pc' = "agent") \/ (pc = "taskFailed" /\ pc' = "finish")
  BY DEF StartTask, FailTask
<1>3. RunTyped'
  BY <1>0, <1>1, <1>2 DEF RunTyped, TaskStatuses, given
<1>4. Progress'
  BY <1>0, <1>1, <1>2 DEF RunTyped, Progress
<1>5. RunMatches'
  BY <1>0, <1>1, <1>2 DEF RunMatches
<1>6. RoundsCounted'
  BY <1>0, RoundsPositive DEF StartTask, FailTask, StartAgent, loopVars, RoundsCounted
<1> QED BY <1>3, <1>4, <1>5, <1>6 DEF RunInv

LEMMA AgentKeeps ==
  ASSUME RunInv, UNCHANGED given, RunAgent PROVE RunInv'
<1>0. RunTyped /\ Progress /\ RoundsCounted /\ RunMatches
  BY DEF RunInv
<1>1. RunTyped' /\ Progress'
  BY <1>0, RowsUntouched DEF RunAgent, rowVars, given, RunTyped
<1>2. RunMatches'
  BY <1>0 DEF RunAgent, rowVars, RunMatches
<1>3. ASSUME NEW reply, Chat(reply) PROVE RoundsCounted'
  BY <1>0, <1>3, RoundsPositive DEF Chat, RoundsCounted
<1>4. ASSUME ChatRaises PROVE RoundsCounted'
  BY <1>0, <1>4 DEF ChatRaises, RoundsCounted
<1>5. ASSUME ExecuteTool(Tools) PROVE RoundsCounted'
  BY <1>0, <1>5 DEF ExecuteTool, NextRound, RoundsCounted
<1> QED BY <1>1, <1>2, <1>3, <1>4, <1>5 DEF RunAgent, RunInv

LEMMA CompleteTaskKeeps ==
  ASSUME RunInv, UNCHANGED given, CompleteTask PROVE RunInv'
<1>0. RunTyped /\ Progress /\ RoundsCounted /\ RunMatches
  BY DEF RunInv
<1>1. current \in Index /\ current < Len(subtasks) /\ Len(subtasks) \in Nat
  BY <1>0, MaxTasksAssumption DEF RunTyped, RunMatches, CompleteTask, Index
<1>2. /\ status' = [status EXCEPT ![current] = "COMPLETED"]
      /\ result' = [result EXCEPT ![current] = TRUE]
      /\ context' = Append(context, current) /\ current' = current + 1 /\ pc' = "next"
      /\ UNCHANGED <<execStatus, subtasks, failures>>
      /\ status \in [Index -> TaskStatuses] /\ result \in [Index -> BOOLEAN] /\ context \in Seq(Index)
  BY <1>0 DEF CompleteTask, RunTyped
<1>3. RunTyped'
  BY <1>0, <1>1, <1>2 DEF RunTyped, TaskStatuses, given
<1>4. ASSUME NEW i \in Index
      PROVE  /\ status'[i] = "COMPLETED" <=> i < current'
             /\ result'[i] <=> i < current'
             /\ i < current' => \E j \in DOMAIN context' : context'[j] = i
  <2>1. i \in Nat /\ current \in Nat
    BY <1>1, MaxTasksAssumption DEF Index
  <2>2. (status'[i] = "COMPLETED" <=> i < current') /\ (result'[i] <=> i < current')
    BY <1>0, <1>1, <1>2, <2>1 DEF Progress
  <2>3. CASE i = current
    <3>1. Len(context) + 1 \in DOMAIN context' /\ context'[Len(context) + 1] = i
      BY <1>1, <1>2, <2>3
    <3> QED BY <2>2, <3>1
  <2>4. CASE i < current
    <3>1. PICK j \in DOMAIN context : context[j] = i
      BY <1>0, <2>4 DEF Progress
    <3>2. j \in DOMAIN context' /\ context'[j] = i
      BY <1>1, <1>2, <3>1
    <3> QED BY <2>2, <3>2
  <2> QED BY <1>2, <2>1, <2>2, <2>3, <2>4
<1>5. Progress'
  BY <1>4 DEF Progress
<1>6. RunMatches'
  <2>1. subtasks # <<>> /\ execStatus # "COMPLETED"
    BY <1>0, <1>1, MaxTasksAssumption DEF RunMatches, CompleteTask, Index
  <2> QED BY <1>2, <2>1 DEF RunMatches
<1>7. RoundsCounted'
  BY RoundsPositive DEF CompleteTask, StopAgent, RoundsCounted
<1> QED BY <1>3, <1>5, <1>6, <1>7 DEF RunInv

LEMMA CompleteKeeps ==
  ASSUME RunInv, UNCHANGED given, Complete PROVE RunInv'
<1>0. RunTyped /\ Progress /\ RoundsCounted /\ RunMatches
  BY DEF RunInv
<1>1. RunTyped' /\ Progress'
  BY <1>0, RowsUntouched DEF Complete, given, RunTyped, ExecutionStatuses
<1>2. RunMatches' /\ RoundsCounted'
  BY <1>0 DEF Complete, RunMatches, RoundsCounted, loopVars
<1> QED BY <1>1, <1>2 DEF RunInv

LEMMA RunStaysGood == RunInv /\ [ApiNext]_apiVars => RunInv'
<1> SUFFICES ASSUME RunInv, [ApiNext]_apiVars PROVE RunInv'
  OBVIOUS
<1>1. ASSUME UNCHANGED inlineVars PROVE RunInv'
  BY <1>1 DEF inlineVars, given, rowVars, loopVars, RunInv, RunTyped, RoundsCounted, Progress, RunMatches
<1>2. CASE HandleCreate
  BY <1>2, CreateKeeps DEF HandleCreate
<1>3. CASE Background
  BY <1>3, MoveKeeps, FailureKeeps, PlanKeeps, StartKeeps, AgentKeeps, CompleteTaskKeeps, CompleteKeeps
     DEF Background, Run, RunStep, Catch
<1>4. CASE Recording
  BY <1>4, FailureKeeps DEF Recording, given
<1>5. CASE ProcessDies
  <2>1. CASE Crash
    BY <1>5, <2>1, FailureKeeps DEF ProcessDies
  <2>2. CASE Fail /\ UNCHANGED <<rowVars, pc, current, context, loopVars>>
    <3>1. RunTyped' /\ Progress'
      BY <1>5, <2>2, FailCounts DEF ProcessDies, given, rowVars, RunInv, RunTyped, Progress
    <3>2. RoundsCounted' /\ RunMatches'
      BY <2>2 DEF rowVars, loopVars, RunInv, RoundsCounted, RunMatches
    <3> QED BY <3>1, <3>2 DEF RunInv
  <2> QED BY <1>5, <2>1, <2>2 DEF ProcessDies
<1>6. CASE \/ \E r \in Requests : ReceiveCreate(r) \/ ReceiveRead(r)
           \/ HandleMetrics
           \/ ClockStep
           \/ UNCHANGED apiVars
  BY <1>1, <1>6 DEF ReceiveCreate, ReceiveRead, Receive, HandleMetrics, ClockStep, apiVars
<1> QED BY <1>2, <1>3, <1>4, <1>5, <1>6 DEF ApiNext

LEMMA RunInvariant == ApiSpec => []RunInv
<1>1. ApiInit => RunInv
  BY InitRun DEF ApiInit
<1> QED BY <1>1, RunStaysGood, PTL DEF ApiSpec

\* executor.py:3-5: when an agent works, its context holds the output of every
\* task its own depends on.
THEOREM ContextIsComplete == ApiSpec => []ContextCoversDependencies
<1>1. RunInv => ContextCoversDependencies
  <2> SUFFICES ASSUME RunInv, pc = "agent", NEW d \in AssignDependencies(subtasks)[current]
               PROVE  /\ status[d] = "COMPLETED" /\ result[d]
                      /\ \E i \in DOMAIN context : context[i] = d
    BY DEF ContextCoversDependencies
  <2>1. /\ current \in Nat /\ Len(subtasks) \in Nat /\ current < Len(subtasks) /\ Len(subtasks) <= MaxTasks
        /\ current + 1 \in DOMAIN subtasks /\ subtasks \in Seq(Subtasks)
    BY DEF RunInv, RunTyped, RunMatches
  <2>2. d \in Dependencies(subtasks[current + 1], current) /\ subtasks[current + 1] \in Subtasks
    BY <2>1 DEF AssignDependencies
  <2>3. d \in Int /\ 0 <= d /\ d < current
    BY <2>1, <2>2, DependenciesAreEarlier
  <2>4. d \in Index
    BY <2>1, <2>3, MaxTasksAssumption DEF Index
  <2> QED BY <2>3, <2>4 DEF RunInv, Progress
<1> QED BY <1>1, RunInvariant, PTL

-----------------------------------------------------------------------------
(* The conversations of the agents.                                        *)

TalkInv == ConversationInv /\ (llm = "mock" => MockInv)

LEMMA AgentTalks ==
  ASSUME TalkInv, RunAgent, UNCHANGED given
  PROVE  TalkInv'
<1>0. UNCHANGED llm
  BY DEF given
<1>1. CASE \E reply \in Replies : Chat(reply)
  <2>1. PICK reply \in Replies : Chat(reply)
    BY <1>1
  <2>2. CASE llm = "mock"
    <3>1. reply \in MockReplies(subtasks[current + 1].agent, Tools, messages)
      BY <2>2 DEF Replies
    <3>2. reply \in Seq({Text} \cup Uses)
      BY <3>1, MockReplyCases
    <3>3. ConversationInv' /\ MockInv'
      BY <2>1, <2>2, <3>1, <3>2, ChatConverses, MockChats DEF TalkInv
    <3> QED BY <3>3 DEF TalkInv
  <2>3. CASE llm # "mock"
    <3>1. reply \in Seq({Text} \cup Uses)
      BY <2>3, RemoteAssumption DEF Replies, RemoteReplies
    <3>2. ConversationInv'
      BY <2>1, <3>1, ChatConverses DEF TalkInv
    <3> QED BY <1>0, <2>3, <3>2 DEF TalkInv
  <2> QED BY <2>2, <2>3
<1>2. CASE ChatRaises
  BY <1>0, <1>2, LoopIdles, MockIdles DEF TalkInv
<1>3. CASE ExecuteTool(Tools)
  BY <1>0, <1>3, ExecuteToolConverses, MockExecutes DEF TalkInv
<1> QED BY <1>1, <1>2, <1>3 DEF RunAgent

LEMMA TalkGoesOn == TalkInv /\ [ApiNext]_apiVars => TalkInv'
<1> SUFFICES ASSUME TalkInv, [ApiNext]_apiVars PROVE TalkInv'
  OBVIOUS
<1>1. ASSUME UNCHANGED llm, StopAgent \/ UNCHANGED loopVars PROVE TalkInv'
  BY <1>1, LoopIdles, MockIdles DEF TalkInv
<1>2. CASE HandleCreate
  BY <1>1, <1>2 DEF HandleCreate, CreateExecution, Move
<1>3. CASE Background
  <2>1. UNCHANGED given /\ UNCHANGED llm
    BY <1>3 DEF Background, Run, given
  <2>2. CASE RunAgent
    BY <2>1, <2>2, AgentTalks
  <2>3. CASE StartTask
    <3>1. StartAgent
      BY <2>3 DEF StartTask
    <3> QED BY <2>1, <3>1, StartAgentConverses, MockIdles DEF TalkInv
  <2>4. CASE Catch \/ BeginPlanning \/ PlanTasks \/ BeginRunning \/ CompleteTask \/ FailTask
             \/ Complete \/ FailRun \/ RecordFailure
    BY <1>1, <2>1, <2>4 DEF Catch, NoProvider, CatchTaskError, CatchCommitError, CatchRunError,
       BeginPlanning, PlanTasks, BeginRunning, CompleteTask, FailTask, Complete, FailRun,
       RecordFailure, Move
  <2> QED BY <1>3, <2>2, <2>3, <2>4 DEF Background, Run, RunStep
<1>4. CASE Recording \/ ProcessDies
  BY <1>1, <1>4 DEF Recording, RecordingFails, ProcessDies, Crash, given
<1>5. CASE \/ \E r \in Requests : ReceiveCreate(r) \/ ReceiveRead(r)
           \/ HandleMetrics
           \/ ClockStep
           \/ UNCHANGED apiVars
  BY <1>1, <1>5 DEF ReceiveCreate, ReceiveRead, Receive, HandleMetrics, ClockStep, apiVars, inlineVars, given
<1> QED BY <1>2, <1>3, <1>4, <1>5 DEF ApiNext

LEMMA TalkInvariant == ApiSpec => []TalkInv
<1>1. ApiInit => TalkInv
  BY ConversationStarts DEF ApiInit, Init, LoopInit, TalkInv, MockInv
<1> QED BY <1>1, TalkGoesOn, PTL DEF ApiSpec

\* agents/base.py:76-101, anthropic_provider.py:63-88: every conversation put to
\* Anthropic is one its API accepts, whatever the replies, the tools and the
\* number of rounds.
THEOREM AnthropicAlwaysAccepts == ApiSpec => []AnthropicAccepted
<1>1. TalkInv => AnthropicAccepted
  BY AcceptedWhenAsked DEF TalkInv, AnthropicAccepted
<1> QED BY <1>1, TalkInvariant, PTL

\* The same for OpenAI (openai_provider.py:58-93).
THEOREM OpenAIAlwaysAccepts == ApiSpec => []OpenAIAccepted
<1>1. TalkInv => OpenAIAccepted
  BY AcceptedWhenAsked DEF TalkInv, OpenAIAccepted
<1> QED BY <1>1, TalkInvariant, PTL

\* README:425-426: given two rounds, the mock's last word is an answer.
THEOREM MockAlwaysAnswers == ApiSpec => []MockAnswersInTime
<1>1. TalkInv => MockAnswersInTime
  BY DEF TalkInv, MockInv, MockAnswersInTime
<1> QED BY <1>1, TalkInvariant, PTL

-----------------------------------------------------------------------------
(* The final result of a run.                                              *)

\* What remains of a list of outcomes without its first summary.
LEMMA RemovedAt ==
  ASSUME NEW A, NEW s \in Seq(A), NEW i \in 1 .. Len(s)
  PROVE  /\ RemoveAt(s, i) \in Seq(A)
         /\ Len(RemoveAt(s, i)) = Len(s) - 1
         /\ \A j \in 1 .. Len(s) - 1 : RemoveAt(s, i)[j] = IF j < i THEN s[j] ELSE s[j + 1]
<1> DEFINE n == Len(s)
           b == SubSeq(s, 1, i - 1)
           c == SubSeq(s, i + 1, n)
<1>1. n \in Nat /\ i \in Nat /\ 1 <= i /\ i <= n /\ \A j \in 1 .. n : s[j] \in A
  OBVIOUS
<1>2. b \in Seq(A) /\ Len(b) = i - 1 /\ \A j \in 1 .. i - 1 : b[j] = s[j]
  <2> HIDE DEF n
  <2>1. \A j \in 1 .. i - 1 : s[j] \in A
    BY <1>1
  <2>2. /\ b \in Seq(A) /\ Len(b) = IF 1 <= i - 1 THEN (i - 1) - 1 + 1 ELSE 0
        /\ \A j \in 1 .. (i - 1) - 1 + 1 : b[j] = s[1 + j - 1]
    BY <1>1, <2>1, SubSeqProperties
  <2> HIDE DEF b
  <2>3. \A j \in 1 .. i - 1 : j \in 1 .. (i - 1) - 1 + 1 /\ 1 + j - 1 = j
    BY <1>1
  <2> QED BY <1>1, <2>2, <2>3
<1>3. c \in Seq(A) /\ Len(c) = n - i /\ \A j \in 1 .. n - i : c[j] = s[i + j]
  <2> HIDE DEF n
  <2>1. \A j \in i + 1 .. n : s[j] \in A
    BY <1>1
  <2>2. /\ c \in Seq(A) /\ Len(c) = IF i + 1 <= n THEN n - (i + 1) + 1 ELSE 0
        /\ \A j \in 1 .. n - (i + 1) + 1 : c[j] = s[(i + 1) + j - 1]
    BY <1>1, <2>1, SubSeqProperties
  <2> HIDE DEF c
  <2>3. \A j \in 1 .. n - i : j \in 1 .. n - (i + 1) + 1 /\ (i + 1) + j - 1 = i + j
    BY <1>1
  <2> QED BY <1>1, <2>2, <2>3
<1>4. RemoveAt(s, i) = b \o c
  BY DEF RemoveAt
<1> HIDE DEF n, b, c
<1>5. /\ b \o c \in Seq(A) /\ Len(b \o c) = Len(b) + Len(c)
      /\ \A j \in 1 .. Len(b) + Len(c) : (b \o c)[j] = IF j <= Len(b) THEN b[j] ELSE c[j - Len(b)]
  BY <1>2, <1>3, ConcatProperties
<1>6. ASSUME NEW j \in 1 .. n - 1 PROVE (b \o c)[j] = IF j < i THEN s[j] ELSE s[j + 1]
  <2>1. j \in 1 .. Len(b) + Len(c)
    BY <1>1, <1>2, <1>3
  <2>2. CASE j < i
    BY <1>1, <1>2, <1>5, <2>1, <2>2
  <2>3. CASE ~(j < i)
    <3>1. j - Len(b) \in 1 .. n - i /\ ~(j <= Len(b)) /\ i + (j - Len(b)) = j + 1
      BY <1>1, <1>2, <2>3
    <3> QED BY <1>3, <1>5, <2>1, <2>3, <3>1
  <2> QED BY <2>2, <2>3
<1>7. Len(b) + Len(c) = n - 1
  BY <1>1, <1>2, <1>3
<1> QED BY <1>4, <1>5, <1>6, <1>7 DEF n

\* What the aggregator makes of tasks that have all completed.
LEMMA AllAggregated ==
  ASSUME NEW s \in Seq(Subtasks), Len(s) <= MaxTasks,
         NEW f, f = Aggregate([i \in DOMAIN s |-> [agent |-> s[i].agent, output |-> i - 1]])
  PROVE  LET headline == IF f.headline = None THEN <<>> ELSE <<f.headline>>
             all == headline \o f.supporting
         IN /\ Len(all) = Len(s)
            /\ \A i \in DOMAIN s : \E j \in DOMAIN all : all[j] = i - 1
            /\ (\E i \in DOMAIN s : s[i].agent = "summarization") =>
                 headline # <<>> /\ s[headline[1] + 1].agent = "summarization"
<1> DEFINE n == Len(s)
           out == [i \in DOMAIN s |-> [agent |-> s[i].agent, output |-> i - 1]]
           summaries == {i \in DOMAIN out : out[i].agent = "summarization"}
           first == CHOOSE i \in summaries : \A j \in summaries : i <= j
           headline == IF f.headline = None THEN <<>> ELSE <<f.headline>>
           all == headline \o f.supporting
<1>1. n \in Nat /\ DOMAIN s = 1 .. n /\ MaxTasks \in Nat /\ \A i \in 1 .. n : s[i].agent \in AgentTypes
  <2>1. \A x \in Subtasks : x.agent \in AgentTypes
    BY DEF Subtasks
  <2>2. n \in Nat /\ DOMAIN s = 1 .. n /\ \A i \in 1 .. n : s[i] \in Subtasks
    OBVIOUS
  <2> QED BY <2>1, <2>2, MaxTasksAssumption
<1>2. /\ out \in Seq(Completed) /\ Len(out) = n /\ DOMAIN out = 1 .. n
      /\ \A i \in 1 .. n : out[i].agent = s[i].agent /\ out[i].output = i - 1
  <2>1. \A i \in 1 .. n : [agent |-> s[i].agent, output |-> i - 1] \in Completed
    <3>1. \A i \in 1 .. n : i - 1 \in Index
      BY <1>1 DEF Index
    <3> QED BY <1>1, <3>1 DEF Completed
  <2>2. out \in [1 .. n -> Completed]
    BY <1>1, <2>1
  <2>3. \A i \in 1 .. n : out[i].agent = s[i].agent /\ out[i].output = i - 1
    BY <1>1
  <2> HIDE DEF out, n
  <2> QED BY <1>1, <2>2, <2>3
<1>3. Keep(out, Completed) = out
  <2> HIDE DEF out
  <2> QED BY <1>2, KeepAll
<1>4. f = IF summaries = {}
          THEN [headline |-> None, supporting |-> Outputs(out)]
          ELSE [headline |-> out[first].output, supporting |-> Outputs(RemoveAt(out, first))]
  <2>1. f = Aggregate(out)
    OBVIOUS
  <2> HIDE DEF out
  <2> QED BY <1>3, <2>1 DEF Aggregate, Supporting
<1>5. \A i \in 1 .. n : i \in summaries <=> s[i].agent = "summarization"
  <2> HIDE DEF out
  <2> QED BY <1>2
<1>6. summaries \subseteq 1 .. n
  <2> HIDE DEF out
  <2> QED BY <1>2
<1>7. CASE summaries = {}
  <2> DEFINE v == Outputs(out)
  <2>1. v \in [1 .. n -> Nat] /\ \A i \in 1 .. n : v[i] = i - 1
    <3> HIDE DEF out, n
    <3> QED BY <1>1, <1>2 DEF Outputs
  <2>2. f.headline = None /\ f.supporting = v
    BY <1>4, <1>7
  <2> HIDE DEF v, n, summaries, out
  <2>3. v \in Seq(Nat) /\ Len(v) = n
    BY <1>1, <2>1
  <2>4. all = v
    BY <2>2, <2>3, ConcatEmptySeq
  <2>5. \A i \in 1 .. n : i \in DOMAIN v
    BY <2>1
  <2> HIDE DEF all, headline
  <2>6. Len(all) = n /\ \A i \in DOMAIN s : \E j \in DOMAIN all : all[j] = i - 1
    BY <1>1, <2>1, <2>3, <2>4, <2>5
  <2>7. ~\E i \in DOMAIN s : s[i].agent = "summarization"
    BY <1>1, <1>5, <1>7
  <2> QED BY <2>6, <2>7 DEF all, headline, n
<1>8. CASE summaries # {}
  <2>1. first \in summaries
    <3> HIDE DEF summaries
    <3>1. summaries \subseteq Nat
      BY <1>1, <1>6
    <3>2. \E i \in summaries : \A j \in summaries : i <= j
      BY <1>8, <3>1, LeastNumber
    <3> QED BY <3>2
  <2>2. first \in 1 .. n /\ s[first].agent = "summarization"
    <3> HIDE DEF summaries, first, n
    <3> QED BY <1>5, <1>6, <2>1
  <2> DEFINE v == Outputs(RemoveAt(out, first))
  <2>3. f.headline = out[first].output /\ f.supporting = v
    <3> HIDE DEF first, summaries, out
    <3>1. f = [headline |-> out[first].output, supporting |-> v]
      BY <1>4, <1>8
    <3> HIDE DEF v
    <3> QED BY <3>1
  <2> HIDE DEF first, summaries
  <2>4. f.headline = first - 1 /\ f.headline # None
    <3>1. f.headline = first - 1
      <4> HIDE DEF out, n
      <4> QED BY <1>2, <2>2, <2>3
    <3>2. first - 1 \in Index
      BY <1>1, <2>2 DEF Index
    <3> QED BY <3>1, <3>2, OutputAssumption
  <2>5. headline = <<first - 1>>
    BY <2>4
  <2>6. /\ v \in [1 .. n - 1 -> Nat]
        /\ \A j \in 1 .. n - 1 : v[j] = IF j < first THEN j - 1 ELSE j
    <3> DEFINE r == RemoveAt(out, first)
    <3> HIDE DEF out, n
    <3>1. /\ r \in Seq(Completed) /\ Len(r) = n - 1
          /\ \A j \in 1 .. n - 1 : r[j] = IF j < first THEN out[j] ELSE out[j + 1]
      BY <1>2, <2>2, RemovedAt
    <3> HIDE DEF r
    <3>2. DOMAIN r = 1 .. n - 1
      BY <3>1
    <3>3. v = [j \in 1 .. n - 1 |-> r[j].output]
      BY <3>2 DEF Outputs, r
    <3>4. ASSUME NEW j \in 1 .. n - 1 PROVE r[j].output = IF j < first THEN j - 1 ELSE j
      <4>1. j \in 1 .. n /\ j + 1 \in 1 .. n /\ (j + 1) - 1 = j
        BY <1>1
      <4> QED BY <1>2, <3>1, <4>1
    <3>5. \A j \in 1 .. n - 1 : j - 1 \in Nat /\ j \in Nat
      BY <1>1
    <3> HIDE DEF v
    <3> QED BY <3>3, <3>4, <3>5
  <2> HIDE DEF v, n, out, headline
  <2>7. v \in Seq(Nat) /\ Len(v) = n - 1 /\ <<first - 1>> \in Seq(Nat) /\ Len(<<first - 1>>) = 1
    BY <1>1, <2>2, <2>6
  <2>8. /\ all \in Seq(Nat) /\ Len(all) = n
        /\ \A i \in 1 .. n : all[i] = IF i = 1 THEN first - 1 ELSE v[i - 1]
    <3> DEFINE h == <<first - 1>>
    <3>1. /\ h \o v \in Seq(Nat) /\ Len(h \o v) = Len(h) + Len(v)
          /\ \A i \in 1 .. Len(h) + Len(v) : (h \o v)[i] = IF i <= Len(h) THEN h[i] ELSE v[i - Len(h)]
      <4> HIDE DEF h
      <4>1. h \in Seq(Nat)
        BY <2>7 DEF h
      <4> QED BY <2>7, <4>1, ConcatProperties
    <3>2. all = h \o v /\ h[1] = first - 1 /\ Len(h) = 1
      BY <2>3, <2>5
    <3> HIDE DEF h, all
    <3>3. Len(h) + Len(v) = n /\ \A i \in 1 .. n : i <= 1 <=> i = 1
      BY <1>1, <2>7, <3>2
    <3> QED BY <3>1, <3>2, <3>3
  <2> HIDE DEF all
  <2>9. DOMAIN all = 1 .. n
    BY <2>8
  <2>10. ASSUME NEW i \in 1 .. n PROVE \E j \in DOMAIN all : all[j] = i - 1
    <3>1. CASE i = first
      BY <1>1, <2>2, <2>8, <2>9, <3>1
    <3>2. CASE i < first
      <4>1. i \in 1 .. n - 1 /\ i + 1 \in 1 .. n /\ i + 1 # 1 /\ (i + 1) - 1 = i
        BY <1>1, <2>2, <3>2
      <4>2. all[i + 1] = i - 1
        BY <2>6, <2>8, <3>2, <4>1
      <4> QED BY <2>9, <4>1, <4>2
    <3>3. CASE i > first
      <4>1. i - 1 \in 1 .. n - 1 /\ i # 1 /\ ~(i - 1 < first)
        BY <1>1, <2>2, <3>3
      <4>2. all[i] = i - 1
        BY <2>6, <2>8, <4>1
      <4> QED BY <2>9, <4>2
    <3> QED BY <1>1, <2>2, <3>1, <3>2, <3>3
  <2>11. headline # <<>> /\ headline[1] = first - 1 /\ (first - 1) + 1 = first
    BY <2>2, <2>5
  <2>12. s[headline[1] + 1].agent = "summarization"
    BY <2>2, <2>11
  <2>13. Len(all) = n /\ \A i \in DOMAIN s : \E j \in DOMAIN all : all[j] = i - 1
    BY <1>1, <2>8, <2>10
  <2> QED BY <2>11, <2>12, <2>13 DEF all, headline, n
<1> QED BY <1>7, <1>8

\* The step that completes a run aggregates every task's output, and no later one
\* takes the verdict or the result back.
LEMMA ResultStaysComplete == RunInv /\ FinalResultIsComplete /\ [ApiNext]_apiVars => FinalResultIsComplete'
<1> SUFFICES ASSUME RunInv, FinalResultIsComplete, [ApiNext]_apiVars PROVE FinalResultIsComplete'
  OBVIOUS
<1>1. CASE Complete /\ UNCHANGED given
  <2>1. /\ subtasks \in Seq(Subtasks) /\ Len(subtasks) <= MaxTasks /\ UNCHANGED subtasks
        /\ finalResult' = Aggregate(Outcomes)
    BY <1>1 DEF Complete, RunInv, RunTyped
  <2>2. \A i \in DOMAIN subtasks : result[i - 1]
    <3>1. \A i \in DOMAIN subtasks : i - 1 \in Index /\ i - 1 < current
      BY <1>1, <2>1, MaxTasksAssumption DEF Complete, RunInv, RunTyped, Index
    <3> QED BY <3>1 DEF RunInv, Progress
  <2>3. Outcomes = [i \in DOMAIN subtasks |-> [agent |-> subtasks[i].agent, output |-> i - 1]]
    BY <2>2 DEF Outcomes
  <2> QED BY <2>1, <2>3, AllAggregated DEF FinalResultIsComplete
<1>2. CASE UNCHANGED <<subtasks, finalResult>> /\ (execStatus' = "COMPLETED" => execStatus = "COMPLETED")
  BY <1>2 DEF FinalResultIsComplete
<1>3. CASE PlanTasks
  BY <1>3 DEF PlanTasks, RunInv, RunMatches, FinalResultIsComplete
<1>4. CASE Background
  <2>1. CASE Catch
    BY <1>2, <2>1 DEF Catch, NoProvider, CatchTaskError, CatchCommitError, CatchRunError, rowVars
  <2>2. CASE BeginPlanning \/ BeginRunning \/ StartTask \/ RunAgent \/ CompleteTask \/ FailTask
             \/ FailRun \/ RecordFailure
    BY <1>2, <2>2 DEF BeginPlanning, BeginRunning, StartTask, RunAgent, CompleteTask,
       FailTask, FailRun, RecordFailure, Move, rowVars
  <2> QED BY <1>1, <1>3, <1>4, <2>1, <2>2 DEF Background, Run, RunStep
<1>5. CASE HandleCreate \/ Recording \/ ProcessDies
  BY <1>2, <1>5 DEF HandleCreate, CreateExecution, Move, Recording, RecordingFails, ProcessDies, Crash, rowVars
<1>6. CASE \/ \E r \in Requests : ReceiveCreate(r) \/ ReceiveRead(r)
           \/ HandleMetrics
           \/ ClockStep
           \/ UNCHANGED apiVars
  BY <1>2, <1>6 DEF ReceiveCreate, ReceiveRead, Receive, HandleMetrics, ClockStep, apiVars, inlineVars, rowVars
<1> QED BY <1>4, <1>5, <1>6 DEF ApiNext

\* aggregator.py:1-6: a completed execution shows the output of every task of its
\* plan, each once, and leads with a summary if it has one.
THEOREM FinalResultsAreComplete == ApiSpec => []FinalResultIsComplete
<1>1. ApiInit => FinalResultIsComplete
  BY DEF ApiInit, Init, FinalResultIsComplete
<1> QED BY <1>1, RunInvariant, ResultStaysComplete, PTL DEF ApiSpec

-----------------------------------------------------------------------------
(* A run ends, and with a verdict.                                         *)

VerdictInv ==
  /\ pc = "failing" => failures >= 1
  /\ pc = "done" => execStatus \in Terminal \/ failures >= 2

LEMMA VerdictStep == RunInv /\ VerdictInv /\ [ApiNext]_apiVars => VerdictInv'
<1> SUFFICES ASSUME RunInv, VerdictInv, [ApiNext]_apiVars PROVE VerdictInv'
  OBVIOUS
<1>0. failures \in Nat
  BY FailuresAssumption DEF RunInv, RunTyped
<1>1. ASSUME UNCHANGED <<pc, execStatus>>, failures' >= failures, failures' \in Nat PROVE VerdictInv'
  BY <1>0, <1>1 DEF VerdictInv
<1>2. ASSUME pc' \notin {"failing", "done"} PROVE VerdictInv'
  BY <1>2 DEF VerdictInv
<1>3. CASE Background
  <2>1. CASE Catch
    BY <1>0, <2>1 DEF Catch, NoProvider, CatchTaskError, CatchCommitError, CatchRunError, Fail, VerdictInv
  <2>2. CASE Complete \/ FailRun \/ RecordFailure
    BY <2>2 DEF Complete, FailRun, RecordFailure, Move, Terminal, VerdictInv
  <2>3. CASE BeginPlanning \/ PlanTasks \/ BeginRunning \/ StartTask \/ CompleteTask \/ FailTask
    BY <1>2, <2>3 DEF BeginPlanning, PlanTasks, BeginRunning, StartTask, CompleteTask, FailTask, Move
  <2>4. CASE RunAgent
    BY <1>2, <2>4 DEF RunAgent
  <2> QED BY <1>3, <2>1, <2>2, <2>3, <2>4 DEF Background, Run, RunStep
<1>4. CASE Recording
  BY <1>0, <1>4 DEF Recording, RecordingFails, Fail, VerdictInv
<1>5. CASE ProcessDies
  <2>1. CASE Crash
    BY <1>2, <2>1 DEF Crash
  <2>2. CASE ~Crash
    BY <1>0, <1>1, <1>5, <2>2 DEF ProcessDies, Fail, rowVars
  <2> QED BY <2>1, <2>2
<1>6. CASE HandleCreate
  BY <1>2, <1>6 DEF HandleCreate, CreateExecution, Move
<1>7. CASE \/ \E r \in Requests : ReceiveCreate(r) \/ ReceiveRead(r)
           \/ HandleMetrics
           \/ ClockStep
           \/ UNCHANGED apiVars
  BY <1>0, <1>1, <1>7 DEF ReceiveCreate, ReceiveRead, Receive, HandleMetrics, ClockStep, apiVars, inlineVars,
     rowVars
<1> QED BY <1>3, <1>4, <1>5, <1>6, <1>7 DEF ApiNext

\* orchestrator.py:27 "Never raises": one failure, wherever it is, does not keep a
\* run from its verdict.
THEOREM OneFailureHasAVerdict == ApiSpec => []VerdictOnReturn
<1>1. ApiInit => VerdictInv
  BY DEF ApiInit, Init, VerdictInv
<1>2. RunInv /\ VerdictInv => VerdictOnReturn
  BY FailuresAssumption DEF RunInv, RunTyped, VerdictInv, VerdictOnReturn
<1> QED BY <1>1, <1>2, RunInvariant, VerdictStep, PTL DEF ApiSpec

\* What becomes of a run with the mock in which nothing else goes wrong.
MockVerdict ==
  llm = "mock" /\ pc = "done" /\ failures = 0 =>
    IF userRequest = "forced" THEN execStatus = "FAILED" /\ status[0] = "FAILED" ELSE execStatus = "COMPLETED"

\* A forced failure stops the run at its first task, and there is no other.
MockRunInv ==
  llm = "mock" =>
    /\ pc # "agent" => loop = "idle"
    /\ userRequest = "forced" => current = 0 /\ loop \in {"idle", "chat", "raised"}
    /\ userRequest # "forced" => pc \notin {"taskFailed", "finish"} /\ loop # "raised"
    /\ pc = "finish" => status[0] = "FAILED"
    /\ MockVerdict

LEMMA MockRunStep ==
  RunInv /\ VerdictInv /\ MockRunInv /\ [ApiNext]_apiVars => MockRunInv'
<1> SUFFICES ASSUME RunInv, VerdictInv, MockRunInv, [ApiNext]_apiVars, llm' = "mock" PROVE MockRunInv'
  BY DEF MockRunInv
<1>0. /\ llm = "mock" /\ failures \in Nat
      /\ pc # "agent" => loop = "idle"
      /\ userRequest = "forced" => current = 0 /\ loop \in {"idle", "chat", "raised"}
      /\ userRequest # "forced" => pc \notin {"taskFailed", "finish"} /\ loop # "raised"
      /\ pc = "finish" => status[0] = "FAILED"
      /\ MockVerdict
      /\ pc = "failing" => failures >= 1
  <2>1. llm = "mock"
    BY DEF ApiNext, ReceiveCreate, ReceiveRead, Receive, HandleCreate, CreateExecution, HandleMetrics,
           Background, Run, Recording, ProcessDies, ClockStep, apiVars, inlineVars, given
  <2> QED BY <2>1, FailuresAssumption DEF RunInv, RunTyped, VerdictInv, MockRunInv
<1>1. ASSUME UNCHANGED <<given, rowVars, pc, current, loopVars>>, failures' >= failures, failures' \in Nat
      PROVE  MockRunInv'
  BY <1>0, <1>1 DEF MockRunInv, MockVerdict, given, rowVars, loopVars
<1>2. CASE HandleCreate
  <2>1. pc = "new" /\ pc' = "begin" /\ current' = 0 /\ loop' = "idle"
    BY <1>0, <1>2 DEF HandleCreate, CreateExecution, Move, RunInv, RunMatches, loopVars
  <2> QED BY <2>1 DEF MockRunInv, MockVerdict
<1>3. CASE Background
  <2>0. UNCHANGED userRequest
    BY <1>3 DEF Background, Run, given
  <2>1. CASE Catch
    BY <1>0, <2>0, <2>1 DEF Catch, NoProvider, CatchTaskError, CatchCommitError, CatchRunError, Fail,
       StopAgent, loopVars, rowVars, MockRunInv, MockVerdict
  <2>2. CASE BeginPlanning \/ PlanTasks \/ BeginRunning
    BY <1>0, <2>0, <2>2 DEF BeginPlanning, PlanTasks, BeginRunning, Move, loopVars, MockRunInv, MockVerdict
  <2>3. CASE StartTask
    BY <1>0, <2>0, <2>3 DEF StartTask, StartAgent, MockRunInv, MockVerdict
  <2>4. CASE RunAgent
    <3>0. llm = "mock" /\ userRequest \in UserRequests
      BY <1>0 DEF RunInv, RunTyped
    <3>1. Forced <=> userRequest = "forced"
      BY <3>0 DEF Forced, Clip, UserRequests
    <3> QED BY <1>0, <2>0, <2>4, <3>1 DEF RunAgent, Chat, ChatRaises, ExecuteTool, NextRound, rowVars,
            MockRunInv, MockVerdict
  <2>5. CASE CompleteTask
    BY <1>0, <2>0, <2>5 DEF CompleteTask, StopAgent, MockRunInv, MockVerdict
  <2>6. CASE FailTask
    <3>1. userRequest = "forced" /\ current = 0 /\ 0 \in Index
      BY <1>0, <2>6, MaxTasksAssumption DEF FailTask, RunInv, RunTyped, Index
    <3>2. status' = [status EXCEPT ![0] = "FAILED"] /\ status \in [Index -> TaskStatuses]
      BY <2>6, <3>1 DEF FailTask, RunInv, RunTyped
    <3>3. status'[0] = "FAILED"
      BY <3>1, <3>2
    <3> QED BY <1>0, <2>0, <2>6, <3>1, <3>3 DEF FailTask, loopVars, MockRunInv, MockVerdict
  <2>7. CASE Complete
    <3>1. userRequest # "forced"
      BY <1>0, <2>7 DEF Complete, RunInv, RunTyped, RunMatches
    <3> QED BY <1>0, <2>0, <2>7, <3>1 DEF Complete, loopVars, MockRunInv, MockVerdict
  <2>8. CASE FailRun \/ RecordFailure
    BY <1>0, <2>0, <2>8 DEF FailRun, RecordFailure, Move, loopVars, MockRunInv, MockVerdict
  <2> QED BY <1>3, <2>1, <2>2, <2>3, <2>4, <2>5, <2>6, <2>7, <2>8 DEF Background, Run, RunStep
<1>4. CASE Recording
  BY <1>0, <1>4 DEF Recording, RecordingFails, Fail, given, rowVars, loopVars, MockRunInv, MockVerdict
<1>5. CASE ProcessDies
  <2>1. CASE Crash
    BY <1>0, <1>5, <2>1 DEF ProcessDies, Crash, StopAgent, given, rowVars, MockRunInv, MockVerdict
  <2>2. CASE ~Crash
    BY <1>0, <1>1, <1>5, <2>2 DEF ProcessDies, Fail
  <2> QED BY <2>1, <2>2
<1>6. CASE \/ \E r \in Requests : ReceiveCreate(r) \/ ReceiveRead(r)
           \/ HandleMetrics
           \/ ClockStep
           \/ UNCHANGED apiVars
  BY <1>0, <1>1, <1>6 DEF ReceiveCreate, ReceiveRead, Receive, HandleMetrics, ClockStep, apiVars, inlineVars
<1> QED BY <1>2, <1>3, <1>4, <1>5, <1>6 DEF ApiNext

\* mock.py:3-4, 83, 151: with the mock a run that nothing disturbs completes, and
\* one whose plan repeats a "force_fail" of the request fails, in its first task.
\* MockRunsEndToEnd says so under fairness; that no run goes on for ever is RunsEnd.
THEOREM MockVerdicts == ApiSpec => []MockVerdict
<1>1. ApiInit => VerdictInv /\ MockRunInv
  BY DEF ApiInit, Init, LoopInit, VerdictInv, MockRunInv, MockVerdict
<1>2. RunInv /\ MockRunInv => MockVerdict
  BY DEF MockRunInv, MockVerdict
<1> QED BY <1>1, <1>2, RunInvariant, VerdictStep, MockRunStep, PTL DEF ApiSpec

\* The parts of Position that are not variables.
Stage ==
  CASE pc = "new" -> 0 [] pc = "begin" -> 1 [] pc = "planning" -> 2 [] pc = "start" -> 3
    [] pc \in {"next", "agent", "taskFailed"} -> 4 [] pc = "finish" -> 5 [] pc = "failing" -> 6
    [] OTHER -> 7
Part == CASE pc = "agent" -> 1 [] pc = "taskFailed" -> 2 [] OTHER -> 0
Raised == IF loop = "raised" THEN 1 ELSE 0

LEMMA PrecedesAt ==
  ASSUME NEW a1, NEW a2, NEW a3, NEW a4, NEW a5, NEW a6,
         NEW b1, NEW b2, NEW b3, NEW b4, NEW b5, NEW b6,
         \/ a1 < b1
         \/ a1 = b1 /\ a2 < b2
         \/ a1 = b1 /\ a2 = b2 /\ a3 < b3
         \/ a1 = b1 /\ a2 = b2 /\ a3 = b3 /\ a4 < b4
         \/ a1 = b1 /\ a2 = b2 /\ a3 = b3 /\ a4 = b4 /\ a5 < b5
         \/ a1 = b1 /\ a2 = b2 /\ a3 = b3 /\ a4 = b4 /\ a5 = b5 /\ a6 < b6
  PROVE  Precedes(<<a1, a2, a3, a4, a5, a6>>, <<b1, b2, b3, b4, b5, b6>>)
<1> DEFINE p == <<a1, a2, a3, a4, a5, a6>>
           q == <<b1, b2, b3, b4, b5, b6>>
<1>1. /\ DOMAIN p = 1 .. 6
      /\ p[1] = a1 /\ p[2] = a2 /\ p[3] = a3 /\ p[4] = a4 /\ p[5] = a5 /\ p[6] = a6
      /\ q[1] = b1 /\ q[2] = b2 /\ q[3] = b3 /\ q[4] = b4 /\ q[5] = b5 /\ q[6] = b6
  OBVIOUS
<1> HIDE DEF p, q
<1>2. \E k \in 1 .. 6 : p[k] < q[k] /\ \A j \in 1 .. k - 1 : p[j] = q[j]
  <2>1. CASE a1 < b1
    BY <1>1, <2>1
  <2>2. CASE a1 = b1 /\ a2 < b2
    BY <1>1, <2>2
  <2>3. CASE a1 = b1 /\ a2 = b2 /\ a3 < b3
    BY <1>1, <2>3
  <2>4. CASE a1 = b1 /\ a2 = b2 /\ a3 = b3 /\ a4 < b4
    BY <1>1, <2>4
  <2>5. CASE a1 = b1 /\ a2 = b2 /\ a3 = b3 /\ a4 = b4 /\ a5 < b5
    BY <1>1, <2>5
  <2>6. CASE a1 = b1 /\ a2 = b2 /\ a3 = b3 /\ a4 = b4 /\ a5 = b5 /\ a6 < b6
    BY <1>1, <2>6
  <2> QED BY <2>1, <2>2, <2>3, <2>4, <2>5, <2>6
<1> QED BY <1>1, <1>2 DEF Precedes, p, q

LEMMA Forward ==
  ASSUME \/ Stage < Stage'
         \/ Stage = Stage' /\ current < current'
         \/ Stage = Stage' /\ current = current' /\ Part < Part'
         \/ Stage = Stage' /\ current = current' /\ Part = Part' /\ rounds < rounds'
         \/ Stage = Stage' /\ current = current' /\ Part = Part' /\ rounds = rounds'
             /\ -Len(pending) < -Len(pending')
         \/ Stage = Stage' /\ current = current' /\ Part = Part' /\ rounds = rounds'
             /\ -Len(pending) = -Len(pending') /\ Raised < Raised'
  PROVE  Precedes(Position, Position')
<1>1. Position = <<Stage, current, Part, rounds, -Len(pending), Raised>>
  BY DEF Position, Stage, Part, Raised
<1>2. Position' = <<Stage', current', Part', rounds', -Len(pending'), Raised'>>
  BY DEF Position, Stage, Part, Raised
<1> QED BY <1>1, <1>2, PrecedesAt

LEMMA AgentGoesForward ==
  ASSUME RunInv, TalkInv, RunAgent
  PROVE  Precedes(Position, Position')
<1>1. Stage = Stage' /\ current = current' /\ Part = Part' /\ rounds \in Nat /\ pending \in Seq(Calls)
  BY DEF RunAgent, Stage, Part, TalkInv, ConversationInv
<1>2. ASSUME NEW reply, Chat(reply) PROVE rounds < rounds'
  BY <1>1, <1>2 DEF Chat
<1>3. CASE ChatRaises
  BY <1>1, <1>3, Forward DEF ChatRaises, Raised
<1>4. CASE ExecuteTool(Tools)
  <2>1. rounds = rounds' /\ pending' = Tail(pending) /\ pending # <<>>
    BY <1>4 DEF ExecuteTool, TalkInv, ConversationInv
  <2>2. -Len(pending) < -Len(pending')
    BY <1>1, <2>1
  <2> QED BY <1>1, <2>1, <2>2, Forward
<1> QED BY <1>1, <1>2, <1>3, <1>4, Forward DEF RunAgent

LEMMA RunForward ==
  ASSUME RunInv, TalkInv, [ApiNext]_apiVars
  PROVE  Precedes(Position, Position') \/ UNCHANGED <<pc, current, loopVars>>
<1>1. CASE Background
  <2>1. CASE Catch
    BY <2>1, Forward DEF Catch, NoProvider, CatchTaskError, CatchCommitError, CatchRunError, Stage, Part
  <2>2. CASE BeginPlanning \/ PlanTasks \/ BeginRunning \/ Complete \/ FailRun \/ RecordFailure \/ FailTask
    BY <2>2, Forward DEF BeginPlanning, PlanTasks, BeginRunning, Complete, FailRun, RecordFailure,
       FailTask, Move, Stage
  <2>3. CASE StartTask
    BY <2>3, Forward DEF StartTask, Stage, Part
  <2>4. CASE CompleteTask
    <3>1. current \in Nat
      BY DEF RunInv, RunTyped
    <3> QED BY <2>4, <3>1, Forward DEF CompleteTask, Stage
  <2>5. CASE RunAgent
    BY <2>5, AgentGoesForward
  <2> QED BY <1>1, <2>1, <2>2, <2>3, <2>4, <2>5 DEF Background, Run, RunStep
<1>2. CASE HandleCreate \/ Recording
  <2>1. \/ pc = "new" /\ pc' = "begin"
        \/ pc = "failing" /\ pc' = "done"
    BY <1>2 DEF HandleCreate, CreateExecution, Move, Recording, RecordingFails
  <2>2. Stage < Stage'
    BY <2>1 DEF Stage
  <2> QED BY <2>2, Forward
<1>3. CASE ProcessDies
  <2>1. CASE Crash
    <3>1. Stage \in 1 .. 6 /\ Stage' = 7
      BY <2>1 DEF Crash, Stage, RunInv, RunTyped
    <3> QED BY <3>1, Forward
  <2> QED BY <1>3, <2>1 DEF ProcessDies
<1>4. CASE \/ \E r \in Requests : ReceiveCreate(r) \/ ReceiveRead(r)
           \/ HandleMetrics
           \/ ClockStep
           \/ UNCHANGED apiVars
  BY <1>4 DEF ReceiveCreate, ReceiveRead, Receive, HandleMetrics, ClockStep, apiVars, inlineVars
<1> QED BY <1>1, <1>2, <1>3, <1>4 DEF ApiNext

\* Whatever the LLM replies, however many calls it makes and whatever fails, no
\* step of a run is one of an endless loop: of what Position counts, the stages,
\* the tasks, the rounds (ApiTypes) and the calls left of a response are bounded.
THEOREM RunsEnd == ApiSpec => RunGoesForward
<1>1. RunInv /\ TalkInv /\ [ApiNext]_apiVars => [Precedes(Position, Position')]_<<pc, current, loopVars>>
  BY RunForward
<1> QED BY <1>1, RunInvariant, TalkInvariant, PTL DEF ApiSpec, RunGoesForward

-----------------------------------------------------------------------------
(* The metrics, read in one statement after another while the run goes on. *)

\* What the run has recorded when a statement runs, it does not take back.
LEMMA RunAdvances ==
  ASSUME RunInv, [ApiNext]_apiVars
  PROVE  current <= current' /\ (execStatus = "COMPLETED" => execStatus' = "COMPLETED")
<1>0. current \in Nat /\ Len(subtasks) \in Nat /\ (execStatus = "COMPLETED" => pc = "done")
  BY DEF RunInv, RunTyped, RunMatches
<1>1. CASE Background
  <2>1. CASE Catch
    BY <1>0, <2>1 DEF Catch, NoProvider, CatchTaskError, CatchCommitError, CatchRunError, rowVars
  <2>2. CASE RunStep
    BY <1>0, <2>2 DEF RunStep, BeginPlanning, PlanTasks, BeginRunning, StartTask, RunAgent, CompleteTask,
       FailTask, Complete, FailRun, RecordFailure, Move, rowVars
  <2> QED BY <1>1, <2>1, <2>2 DEF Background, Run
<1>2. CASE HandleCreate
  BY <1>0, <1>2 DEF HandleCreate, CreateExecution, Move
<1>3. CASE Recording \/ ProcessDies
  BY <1>0, <1>3 DEF Recording, RecordingFails, ProcessDies, Crash, rowVars
<1>4. CASE \/ \E r \in Requests : ReceiveCreate(r) \/ ReceiveRead(r)
           \/ HandleMetrics
           \/ ClockStep
           \/ UNCHANGED apiVars
  BY <1>0, <1>4 DEF ReceiveCreate, ReceiveRead, Receive, HandleMetrics, ClockStep, apiVars, inlineVars, rowVars
<1> QED BY <1>1, <1>2, <1>3, <1>4 DEF ApiNext

\* What the two counting statements return is how far the run has come.
LEMMA CountsAreProgress ==
  ASSUME RunInv
  PROVE  /\ Cardinality({i \in Index : status[i] = "COMPLETED"}) = current
         /\ Cardinality({i \in Index : result[i]}) = current
<1>1. current \in 0 .. MaxTasks /\ MaxTasks \in Nat
  BY MaxTasksAssumption DEF RunInv, RunTyped
<1>2. {i \in Index : status[i] = "COMPLETED"} = 0 .. current - 1
  BY <1>1 DEF RunInv, Progress, Index
<1>3. {i \in Index : result[i]} = 0 .. current - 1
  BY <1>1 DEF RunInv, Progress, Index
<1>4. Cardinality(0 .. current - 1) = current
  BY <1>1, FS_Interval
<1> QED BY <1>2, <1>3, <1>4

Fields == {"left", "executions", "tasks", "outputs"}

\* The counts of the tasks, once read, and how they relate to what the run has
\* done since.
TasksAgree ==
  /\ reading.tasks.completed \in 0 .. current
  /\ reading.executions => reading.tasks.completed > 0 /\ reading.tasks.others = 0

ReadingInv ==
  /\ reading = [f \in Fields |-> reading[f]]
  /\ \/ reading = NoReading
     \/ reading.left = <<"executions", "tasks", "outputs">>
     \/ /\ reading.left = <<"tasks", "outputs">>
        /\ reading.executions => execStatus = "COMPLETED"
     \/ /\ reading.left = <<"outputs">>
        /\ TasksAgree
     \/ /\ reading.left = <<>>
        /\ TasksAgree
        /\ reading.tasks.completed <= reading.outputs

LEMMA NoReadingFields ==
  NoReading = [f \in Fields |-> NoReading[f]] /\ NoReading.left = <<>>
  BY DEF NoReading, Fields

LEMMA ReadingKept ==
  ASSUME RunInv, [ApiNext]_apiVars, ReadingInv, UNCHANGED reading
  PROVE  ReadingInv'
<1>1. current \in Nat /\ current' \in Nat /\ current <= current'
      /\ (execStatus = "COMPLETED" => execStatus' = "COMPLETED")
  BY RunAdvances, RunStaysGood DEF RunInv, RunTyped
<1>2. TasksAgree => TasksAgree'
  BY <1>1 DEF TasksAgree
<1> QED BY <1>1, <1>2 DEF ReadingInv

LEMMA ReadNextKeeps ==
  ASSUME RunInv, ReadingInv, ReadNext, UNCHANGED inlineVars
  PROVE  ReadingInv'
<1>0. /\ reading = [f \in Fields |-> reading[f]] /\ reading.left # <<>>
      /\ UNCHANGED <<current, execStatus>> /\ current \in Nat
  BY DEF ReadingInv, ReadNext, inlineVars, rowVars, RunInv, RunTyped
<1>1. CASE reading.left = <<"executions", "tasks", "outputs">>
  <2>1. Head(reading.left) = "executions" /\ Tail(reading.left) = <<"tasks", "outputs">>
    BY <1>1
  <2>2. reading' = [reading EXCEPT !.left = <<"tasks", "outputs">>, !.executions = (execStatus = "COMPLETED")]
    BY <2>1 DEF ReadNext, Returns
  <2>3. /\ reading' = [f \in Fields |-> reading'[f]] /\ reading'.left = <<"tasks", "outputs">>
        /\ reading'.executions = (execStatus = "COMPLETED")
    BY <1>0, <2>2 DEF Fields
  <2> QED BY <1>0, <2>3 DEF ReadingInv
<1>2. CASE reading.left = <<"tasks", "outputs">> /\ (reading.executions => execStatus = "COMPLETED")
  <2>1. Head(reading.left) = "tasks" /\ Tail(reading.left) = <<"outputs">>
    BY <1>2
  <2>2. reading' = [reading EXCEPT !.left = <<"outputs">>,
                                   !.tasks = [completed |-> current, others |-> Len(subtasks) - current]]
    BY <2>1, CountsAreProgress DEF ReadNext, Returns
  <2>3. /\ reading' = [f \in Fields |-> reading'[f]] /\ reading'.left = <<"outputs">>
        /\ reading'.executions = reading.executions
        /\ reading'.tasks = [completed |-> current, others |-> Len(subtasks) - current]
    BY <1>0, <2>2 DEF Fields
  <2>4. execStatus = "COMPLETED" => current = Len(subtasks) /\ current > 0
    BY <1>0 DEF RunInv, RunTyped, RunMatches
  <2>5. TasksAgree'
    BY <1>0, <1>2, <2>3, <2>4 DEF TasksAgree
  <2> QED BY <2>3, <2>5 DEF ReadingInv
<1>3. CASE reading.left = <<"outputs">> /\ TasksAgree
  <2>1. Head(reading.left) = "outputs" /\ Tail(reading.left) = <<>>
    BY <1>3
  <2>2. reading' = [reading EXCEPT !.left = <<>>, !.outputs = current]
    BY <2>1, CountsAreProgress DEF ReadNext, Returns
  <2>3. /\ reading' = [f \in Fields |-> reading'[f]] /\ reading'.left = <<>>
        /\ reading'.executions = reading.executions /\ reading'.tasks = reading.tasks
        /\ reading'.outputs = current
    BY <1>0, <2>2 DEF Fields
  <2>4. TasksAgree' /\ reading'.tasks.completed <= reading'.outputs
    BY <1>0, <1>3, <2>3 DEF TasksAgree
  <2> QED BY <2>3, <2>4 DEF ReadingInv
<1> QED BY <1>0, <1>1, <1>2, <1>3, NoReadingFields DEF ReadingInv

LEMMA ReadingStep == RunInv /\ ReadingInv /\ [ApiNext]_apiVars => ReadingInv'
<1> SUFFICES ASSUME RunInv, ReadingInv, [ApiNext]_apiVars PROVE ReadingInv'
  OBVIOUS
<1>1. ASSUME reading' = NoReading PROVE ReadingInv'
  BY <1>1, NoReadingFields DEF ReadingInv
<1>2. ASSUME reading = NoReading, reading' = [NoReading EXCEPT !.left = Statements] PROVE ReadingInv'
  <2>1. reading' = [f \in Fields |-> reading'[f]] /\ reading'.left = <<"executions", "tasks", "outputs">>
    BY <1>2 DEF NoReading, Fields, Statements
  <2> QED BY <2>1 DEF ReadingInv
<1>3. CASE HandleMetrics
  BY <1>1, <1>3, ReadNextKeeps DEF HandleMetrics, EndReading
<1>4. CASE \E r \in Requests : ReceiveRead(r)
  BY <1>2, <1>4, ReadingKept DEF ReceiveRead, BeginReading
<1>5. CASE ProcessDies
  BY <1>1, <1>5 DEF ProcessDies
<1>6. CASE UNCHANGED reading
  BY <1>6, ReadingKept
<1> QED BY <1>3, <1>4, <1>5, <1>6
        DEF ApiNext, ReceiveCreate, HandleCreate, Background, Recording, ClockStep, apiVars, requestVars

LEMMA ReadingInvariant == ApiSpec => [](RunInv /\ ReadingInv)
<1>1. ApiInit => ReadingInv
  BY NoReadingFields DEF ApiInit, ReadingInv
<1> QED BY <1>1, RunInvariant, ReadingStep, PTL DEF ApiSpec

\* README:440-441: the parts of the metrics agree, whatever the run commits
\* between the statements that read them.
THEOREM MetricsAlwaysAgree == ApiSpec => []MetricsAgree
<1>1. RunInv /\ ReadingInv => MetricsAgree
  <2>1. ReadingInv /\ Read => TasksAgree /\ reading.tasks.completed <= reading.outputs
    <3>1. /\ <<"executions", "tasks", "outputs">> # <<>>
          /\ <<"tasks", "outputs">> # <<>>
          /\ <<"outputs">> # <<>>
      OBVIOUS
    <3> QED BY <3>1 DEF ReadingInv, Read
  <2> QED BY <2>1 DEF TasksAgree, MetricsAgree
<1> QED BY <1>1, ReadingInvariant, PTL

LEMMA CreatingTyped == ApiSpec => [](creating \in BOOLEAN)
<1>1. ApiInit => creating \in BOOLEAN
  BY DEF ApiInit
<1>2. creating \in BOOLEAN /\ [ApiNext]_apiVars => (creating \in BOOLEAN)'
  <2>1. ASSUME creating \in BOOLEAN, NEW r \in Requests, ReceiveCreate(r) PROVE creating' \in BOOLEAN
    <3>1. Count(ClientOf(r))
      BY <2>1 DEF ReceiveCreate, Receive, IsApi
    <3> QED BY <2>1, <3>1 DEF ReceiveCreate, Admitted, LetThrough, IsApi, Authorized
  <2> QED BY <2>1 DEF ApiNext, ReceiveRead, HandleCreate, HandleMetrics, Background, Recording,
          ProcessDies, ClockStep, apiVars, requestVars
<1> QED BY <1>1, <1>2, PTL DEF ApiSpec

\* The variables of the API process have the types declared.
THEOREM ApiTypes == ApiSpec => []ApiTypeOK
<1>1. ASSUME RunInv, ReadingInv, LimiterInv, creating \in BOOLEAN PROVE ApiTypeOK
  <2>1. TypeOK
    <3>1. /\ Len(subtasks) <= MaxTasks /\ \A i \in DOMAIN subtasks : subtasks[i] \in Subtasks
          /\ current \in 0 .. MaxTasks
      BY <1>1, MaxTasksAssumption DEF RunInv, RunTyped
    <3> QED BY <1>1, <3>1 DEF RunInv, RunTyped, RoundsCounted, TypeOK
  <2>2. reading.left \in {Statements, Tail(Statements), Tail(Tail(Statements)), <<>>}
    <3>1. /\ Statements = <<"executions", "tasks", "outputs">>
          /\ Tail(Statements) = <<"tasks", "outputs">>
          /\ Tail(Tail(Statements)) = <<"outputs">>
      BY DEF Statements
    <3> QED BY <1>1, <3>1, NoReadingFields DEF ReadingInv
  <2> QED BY <1>1, <2>1, <2>2 DEF LimiterInv, ApiTypeOK
<1> QED BY <1>1, ReadingInvariant, CreatingTyped, ApiRunsLimiter, LimiterInvariant, PTL
=============================================================================
