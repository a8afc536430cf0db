---------------------------- MODULE RateLimiter ----------------------------
(***************************************************************************)
(* RateLimitMiddleware (middleware.py): a fixed-window counter per client  *)
(* in the memory of one API process.  A client is an API key, or the       *)
(* address of a request without one.                                       *)
(*                                                                         *)
(* The code reads the clock with time.time(); here it only goes forward.   *)
(* Counting happens under a lock, so it is one step; a client that has no  *)
(* entry and one whose entry is of an earlier window are treated alike.    *)
(***************************************************************************)
EXTENDS Integers, FiniteSets

CONSTANTS
  Clients,
  Limit,         \* rate_limit_per_minute; the middleware is idle unless it is positive
  WindowLength,  \* seconds of a window, 60 in the code
  MaxEntries,    \* entries before old ones are dropped, 10000 in the code
  MaxTime,       \* bound on the clock
  MaxCount       \* bound on the requests of a client in one window

ASSUME LimitAssumption == Limit \in Nat \ {0}
ASSUME WindowAssumption == WindowLength \in Nat \ {0}
ASSUME MaxEntriesAssumption == MaxEntries \in Nat

VARIABLES
  now,       \* the clock, in seconds
  counts,    \* _counts: the window and the count of each client
  verdicts   \* what each client has been told, see NoVerdict

limiterVars == <<now, counts, verdicts>>

NoEntry == [window |-> -1, count |-> 0]
Entries == [window : Nat \cup {-1}, count : Nat]

\* A history, which the code does not keep and no step looks at: how often a
\* client has been let through, and whether it was refused, in this window by
\* this process; and the time its last verdict named if that was a refusal.
NoVerdict == [passed |-> 0, refused |-> FALSE, comeBack |-> 0]
Verdicts == [passed : Nat, refused : BOOLEAN, comeBack : Nat]

LimiterTypeOK ==
  /\ now \in Nat
  /\ counts \in [Clients -> Entries]
  /\ verdicts \in [Clients -> Verdicts]

LimiterInit ==
  /\ now = 0
  /\ counts = [k \in Clients |-> NoEntry]
  /\ verdicts = [k \in Clients |-> NoVerdict]

-----------------------------------------------------------------------------
WindowOf(t) == t \div WindowLength
Window == WindowOf(now)

SlipRetryAfter == WindowLength - (now % WindowLength) - 1

\* The Retry-After header of a refusal.
RetryAfter == WindowLength - (now % WindowLength)

\* The requests of k counted in this window.
CountOf(k) == IF counts[k].window = Window THEN counts[k].count ELSE 0

Present(c) == {k \in Clients : c[k].window # -1}

SlipForgetAll(c) ==
  IF Cardinality(Present(c)) > MaxEntries THEN [k \in Clients |-> NoEntry] ELSE c

\* The opportunistic cleanup.
Evict(c) ==
  IF Cardinality(Present(c)) > MaxEntries
  THEN [k \in Clients |-> IF c[k].window = Window THEN c[k] ELSE NoEntry]
  ELSE c

LetThrough(k) == CountOf(k) + 1 <= Limit

\* A request of client k under /api.
Count(k) ==
  /\ CountOf(k) < MaxCount
  /\ counts' = Evict([counts EXCEPT ![k] = [window |-> Window, count |-> CountOf(k) + 1]])
  /\ verdicts' = [verdicts EXCEPT ![k] =
       IF LetThrough(k)
       THEN [passed |-> @.passed + 1, refused |-> @.refused, comeBack |-> 0]
       ELSE [passed |-> @.passed, refused |-> TRUE, comeBack |-> now + RetryAfter]]
  /\ UNCHANGED now

Renewed == [k \in Clients |-> [NoVerdict EXCEPT !.comeBack = verdicts[k].comeBack]]

Tick ==
  /\ now < MaxTime
  /\ now' = now + 1
  /\ verdicts' = IF WindowOf(now + 1) = Window THEN verdicts ELSE Renewed
  /\ UNCHANGED counts

\* The process starts anew: the counters were in its memory.
Restart ==
  /\ counts' = [k \in Clients |-> NoEntry]
  /\ verdicts' = Renewed
  /\ UNCHANGED now

LimiterNext == (\E k \in Clients : Count(k)) \/ Tick \/ Restart

LimiterSpec == LimiterInit /\ [][LimiterNext]_limiterVars

-----------------------------------------------------------------------------
\* middleware.py:88-93: every client whose last request was refused, coming back
\* at the time its Retry-After header named or later, is let through, whatever
\* other clients ask in the meantime, and whatever is evicted or forgotten.
RetryAfterSuffices ==
  \A k \in Clients : verdicts[k].comeBack \in 1 .. now => LetThrough(k)

\* The counters, with their stale entries, evictions and counts beyond the
\* limit, keep the quota of each client in each window of the clock: Quota knows
\* no counters.
Q == INSTANCE Quota WITH
  window <- Window,
  passed <- [k \in Clients |-> verdicts[k].passed],
  refused <- {k \in Clients : verdicts[k].refused}

ImplementsQuota == Q!Spec
=============================================================================
