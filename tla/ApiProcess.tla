----------------------------- MODULE ApiProcess -----------------------------
(***************************************************************************)
(* The API process in inline mode: requests pass the size limit, the rate  *)
(* limiter and the API key (main.py, middleware.py, api/security.py) to    *)
(* their handlers, while a run goes on in the background.  The counters    *)
(* of the limiter, the requests and the run live in one process and die    *)
(* together; the tables stay.                                              *)
(*                                                                         *)
(* One execution is created: others share no rows with it.  Handlers that  *)
(* only read the tables once are requests without a further step.          *)
(***************************************************************************)
EXTENDS Metrics, RateLimiter

CONSTANTS
  Requests,         \* what clients may send
  Keys,             \* configured_api_keys
  MaxRequestBytes   \* max_request_bytes

VARIABLES
  creating  \* has a request reached create_execution?

requestVars == <<limiterVars, creating, reading>>
apiVars == <<inlineVars, requestVars>>

ApiTypeOK ==
  /\ TypeOK
  /\ LimiterTypeOK
  /\ creating \in BOOLEAN
  /\ reading.left \in {Statements, Tail(Statements), Tail(Tail(Statements)), <<>>}

ApiInit ==
  /\ Init
  /\ LimiterInit
  /\ creating = FALSE
  /\ reading = NoReading

-----------------------------------------------------------------------------
\* The paths under /api; /metrics is outside, and needs no key.
IsApi(r) == r.path \in {"create", "read", "metrics"}

\* Whom the limiter counts a request for: the key in its header, else its host.
ClientOf(r) == IF r.header # None THEN r.header ELSE r.host

ASSUME RequestsAssumption == \A r \in Requests : ClientOf(r) \in Clients

\* require_api_key: header, query parameter, bearer token.
Provided(r) == IF r.header # None THEN r.header ELSE IF r.query # None THEN r.query ELSE r.bearer
Authorized(r) == Keys = {} \/ Provided(r) \in Keys

\* A request on its way to its handler.  One that is too large gets no further
\* than the first middleware, and is not counted.
Receive(r) ==
  /\ r.bytes <= MaxRequestBytes
  /\ IF IsApi(r) THEN Count(ClientOf(r)) ELSE UNCHANGED limiterVars
  /\ UNCHANGED inlineVars

Admitted(r) == IsApi(r) => LetThrough(ClientOf(r)) /\ Authorized(r)

ReceiveCreate(r) ==
  /\ r.path = "create"
  /\ pc = "new" /\ ~creating
  /\ Receive(r)
  /\ creating' = Admitted(r)
  /\ UNCHANGED reading

\* GET requests.  All but the metrics are answered by one statement.
ReceiveRead(r) ==
  /\ r.path # "create"
  /\ Receive(r)
  /\ IF r.path \in {"metrics", "scrape"} /\ Admitted(r) THEN BeginReading ELSE UNCHANGED reading
  /\ UNCHANGED creating

HandleCreate ==
  /\ creating
  /\ CreateExecution
  /\ creating' = FALSE
  /\ UNCHANGED <<limiterVars, reading>>

HandleMetrics ==
  /\ ReadNext \/ EndReading
  /\ UNCHANGED <<inlineVars, limiterVars, creating>>

Background == Run /\ UNCHANGED requestVars

Recording == RecordingFails /\ UNCHANGED <<given, requestVars>>

\* The process dies and is started again: the run, the requests and the counters
\* are gone.
ProcessDies ==
  /\ \/ Crash
     \/ pc \in {"new", "done", "dead"} /\ Fail /\ UNCHANGED <<rowVars, pc, current, context, loopVars>>
  /\ Restart
  /\ creating' = FALSE
  /\ reading' = NoReading
  /\ UNCHANGED given

ClockStep == Tick /\ UNCHANGED <<inlineVars, creating, reading>>

ApiNext ==
  \/ \E r \in Requests : ReceiveCreate(r) \/ ReceiveRead(r)
  \/ HandleCreate
  \/ HandleMetrics
  \/ Background
  \/ Recording
  \/ ProcessDies
  \/ ClockStep

ApiSpec == ApiInit /\ [][ApiNext]_apiVars

\* As in FairSpec: requests and the clock owe nothing to the run.
FairApiSpec == ApiSpec /\ WF_apiVars(Background)

=============================================================================
