--------------------------- MODULE LiveViewProofs ---------------------------
(***************************************************************************)
(* What the browser shows, for every number of executions and calls.       *)
(* Answers and events are read from the tables in two statements each and  *)
(* arrive late and out of order; what saves the screen is that a verdict,  *)
(* once read, speaks of tasks that no longer change (the theorems of       *)
(* ExecutionLifecycleProofs), and that an answer never brings back the     *)
(* execution the effect has just left.                                     *)
(***************************************************************************)
EXTENDS LiveView, ExecutionLifecycleProofs

-----------------------------------------------------------------------------
(* A verdict that was read is true of the tasks read after it.             *)

Whole(s) == s.status = "COMPLETED" => s.unfinished = {}
CompletedRead(e, st) == st = "COMPLETED" => execStatus[e] = "COMPLETED"

StreamWhole ==
  stream # None =>
    /\ CompletedRead(stream.id, stream.read)
    /\ \A i \in DOMAIN stream.inbox : stream.inbox[i].type = "update" => Whole(stream.inbox[i].data)

CallsWhole ==
  \A c \in Calls : calls[c] # None =>
    /\ CompletedRead(calls[c].id, calls[c].read)
    /\ calls[c].answer # None => Whole(calls[c].answer)

WholeInv == StreamWhole /\ CallsWhole /\ NoTornVerdict

-----------------------------------------------------------------------------
(* The subscription is the one the effect made when it ran last.           *)

Subscribed ==
  stream # None =>
    \E s \in Snapshots : effectKey = Key(s) /\ stream.id = s.id /\ Working(s)

-----------------------------------------------------------------------------
(* As long as nothing disturbs them, calls are about executions that are   *)
(* not on the screen, and a stream ends with the verdict on the screen.    *)

Present(e) == execStatus[e] # "ABSENT"

\* Whatever the client knows of is in the tables, answers are what was asked
\* for, and events what was subscribed to.
ScreenKnown ==
  /\ shown # None => Present(shown.id)
  /\ effectKey # None => Present(effectKey[1])

CallsKnown ==
  \A c \in Calls : calls[c] # None =>
    /\ calls[c].purpose # "create" \/ calls[c].read # None => Present(calls[c].id)
    /\ calls[c].answer # None => calls[c].answer.id = calls[c].id /\ calls[c].read # None

EventsKnown ==
  stream # None =>
    \A i \in DOMAIN stream.inbox :
      stream.inbox[i].type = "update" => stream.inbox[i].data.id = stream.id

Known == ScreenKnown /\ CallsKnown /\ EventsKnown

CallsElsewhere ==
  /\ \A c, d \in Calls : c # d /\ calls[c] # None /\ calls[d] # None => calls[c].id # calls[d].id
  /\ \A c \in Calls : calls[c] # None =>
       /\ ~Shows(calls[c].id)
       /\ effectKey # None => effectKey[1] # calls[c].id

\* The done event finds the verdict on the screen, or another execution.
VerdictBeforeDone ==
  stream # None =>
    /\ stream.open \/ \E i \in DOMAIN stream.inbox : stream.inbox[i] = Done
    /\ \A i \in DOMAIN stream.inbox : stream.inbox[i] = Done =>
         IF i = 1 THEN Shows(stream.id) => ~Working(shown)
         ELSE /\ stream.inbox[i - 1].type = "update"
              /\ stream.inbox[i - 1].data.status \in Terminal

\* The effect does not run for a working execution without leaving it a stream.
Watched ==
  stream = None /\ effectKey # None /\ effectKey[2] \notin Terminal => ~Rendered

ViewInv ==
  /\ ViewTypeOK
  /\ Safety
  /\ WholeInv
  /\ Subscribed
  /\ Known
  /\ disturbances = 0 => CallsElsewhere /\ VerdictBeforeDone /\ Watched


-----------------------------------------------------------------------------
(* Types, and the tables.                                                  *)

\* The tables change, and nothing else.
TablesMove == [Next]_lifecycleVars /\ UNCHANGED <<shown, effectKey, stream, calls>>

LEMMA TablesMoves ==
  /\ TablesStep => TablesMove /\ UNCHANGED disturbances
  /\ \A c \in Calls : ViewTypeOK /\ ServerCreates(c) => TablesMove /\ UNCHANGED disturbances
<1>1. TablesStep => TablesMove /\ UNCHANGED disturbances
  BY DEF TablesStep, TablesMove
<1>2. ASSUME NEW c \in Calls, ViewTypeOK, ServerCreates(c)
      PROVE  TablesMove /\ UNCHANGED disturbances
  <2>1. calls[c].id \in Executions
    BY <1>2 DEF ServerCreates, ViewTypeOK, Requests
  <2> QED BY <1>2, <2>1 DEF ServerCreates, TablesMove, Next, ExecutionStep
<1> QED BY <1>1, <1>2

LEMMA SnapshotType ==
  ASSUME NEW e \in Executions, NEW st \in ExecutionStatuses
  PROVE  /\ Snapshot(e, st) \in Snapshots
         /\ Snapshot(e, st).id = e /\ Snapshot(e, st).status = st
BY DEF Snapshot, Snapshots

LEMMA EventTypes ==
  /\ \A s \in Snapshots : Update(s) \in Events /\ Update(s).type = "update" /\ Update(s).data = s
  /\ Done \in Events /\ Done.type = "done"
  /\ \A ev \in Events : /\ ev.type = "update" => ev.data \in Snapshots /\ ev = Update(ev.data)
                        /\ ev.type # "update" => ev = Done
  /\ \A s \in Snapshots : EventsFor(s) \in Seq(Events)
<1>1. /\ \A s \in Snapshots : Update(s) \in Events
      /\ Done \in Events
      /\ \A ev \in Events : ev = Done \/ \E s \in Snapshots : ev = Update(s)
  BY DEF Events
<1>2. \A s : Update(s).type = "update" /\ Update(s).data = s
  BY DEF Update
<1>3. Done.type = "done"
  BY DEF Done
<1>4. \A s \in Snapshots : EventsFor(s) \in Seq(Events)
  BY <1>1 DEF EventsFor
<1> QED BY <1>1, <1>2, <1>3, <1>4

LEMMA ConcatAt ==
  ASSUME NEW s \in Seq(Events), NEW r \in Seq(Events), NEW i \in DOMAIN (s \o r)
  PROVE  \/ i \in DOMAIN s /\ (s \o r)[i] = s[i]
         \/ i - Len(s) \in DOMAIN r /\ (s \o r)[i] = r[i - Len(s)]
OBVIOUS

\* A step of the stream, by either end.
LEMMA StreamTypes ==
  ASSUME ViewTypeOK, stream # None
  PROVE  /\ stream \in Streams
         /\ stream.id \in Executions /\ stream.inbox \in Seq(Events)
         /\ stream.read # None => /\ stream.read \in ExecutionStatuses
                                  /\ Payload \in Snapshots
                                  /\ Payload.id = stream.id /\ Payload.status = stream.read
BY SnapshotType DEF ViewTypeOK, Streams, Payload

LEMMA PollTypes == ViewTypeOK /\ Poll => ViewTypeOK' /\ stream' # None
<1> SUFFICES ASSUME ViewTypeOK, Poll PROVE stream' \in Streams
  BY NoneAssumption DEF Poll, PollExecution, PollTasks, ViewTypeOK, TypeOK, lifecycleVars
<1>1. stream # None
  BY DEF Poll, PollExecution, PollTasks
<1>2. CASE PollExecution
  BY <1>1, <1>2, StreamTypes DEF PollExecution, Streams, ViewTypeOK, TypeOK
<1>3. CASE PollTasks
  <2>1. Payload \in Snapshots /\ EventsFor(Payload) \in Seq(Events)
    BY <1>1, <1>3, StreamTypes, EventTypes DEF PollTasks
  <2>2. stream.inbox \o EventsFor(Payload) \in Seq(Events)
    BY <1>1, <2>1, StreamTypes
  <2>3. PICK b \in BOOLEAN :
          IF Payload = stream.sent /\ ~b
          THEN stream' = [stream EXCEPT !.read = None]
          ELSE stream' = [stream EXCEPT !.read = None, !.sent = Payload,
                                        !.inbox = stream.inbox \o EventsFor(Payload),
                                        !.open = Payload.status \notin Terminal]
    BY <1>3 DEF PollTasks
  <2>4. (Payload.status \notin Terminal) \in BOOLEAN
    OBVIOUS
  <2> HIDE DEF EventsFor, Payload
  <2> QED BY <1>1, <2>1, <2>2, <2>3, <2>4, StreamTypes DEF Streams
<1> QED BY <1>2, <1>3 DEF Poll

LEMMA ReceiveTypes ==
  ASSUME ViewTypeOK, NEW type, Received(type)
  PROVE  /\ stream # None /\ stream.inbox # <<>>
         /\ Head(stream.inbox) = stream.inbox[1] /\ Head(stream.inbox) \in Events
         /\ stream.inbox[1].type = type
         /\ Tail(stream.inbox) \in Seq(Events)
         /\ type = "update" => Head(stream.inbox).data \in Snapshots
<1>1. stream # None /\ stream.inbox \in Seq(Events) /\ stream.inbox # <<>>
  BY StreamTypes DEF Received
<1>2. Head(stream.inbox) = stream.inbox[1] /\ Head(stream.inbox) \in Events
      /\ Tail(stream.inbox) \in Seq(Events)
  BY <1>1
<1> QED BY <1>1, <1>2, EventTypes DEF Received

LEMMA TypeStepView == ViewTypeOK /\ [ViewNext]_viewVars => ViewTypeOK'
<1> SUFFICES ASSUME ViewTypeOK, [ViewNext]_viewVars PROVE ViewTypeOK'
  OBVIOUS
<1>1. ASSUME TablesMove, UNCHANGED disturbances PROVE ViewTypeOK'
  BY <1>1, TypeStep DEF TablesMove, ViewTypeOK
<1>2. CASE Poll
  BY <1>2, PollTypes
<1>3. CASE ReceiveUpdate
  <2>1. stream' \in Streams
    BY <1>3, ReceiveTypes, StreamTypes DEF ReceiveUpdate, Streams
  <2> QED BY <1>3, <2>1, ReceiveTypes DEF ReceiveUpdate, ViewTypeOK, TypeOK, lifecycleVars
<1>4. CASE ReceiveDone
  BY <1>4 DEF ReceiveDone, ViewTypeOK, TypeOK, lifecycleVars
<1>5. ASSUME NEW c \in Calls, StreamError(c) PROVE ViewTypeOK'
  <2>1. Request("snapshot", stream.id) \in Requests
    BY <1>5, StreamTypes DEF StreamError, Request, Requests
  <2> QED BY <1>5, <2>1 DEF StreamError, ViewTypeOK, TypeOK, lifecycleVars
<1>6. CASE Render
  <2>1. shown # None => shown \in Snapshots
    BY DEF ViewTypeOK
  <2>2. effectKey' \in (Executions \X ExecutionStatuses) \cup {None}
    BY <1>6, <2>1 DEF Render, Key, Snapshots
  <2>3. stream' \in Streams \cup {None}
    BY <1>6, <2>1 DEF Render, Working, NewStream, Streams, Snapshots
  <2> QED BY <1>6, <2>2, <2>3 DEF Render, ViewTypeOK, TypeOK, lifecycleVars
<1>7. ASSUME NEW c \in Calls, ReadExecution(c) \/ ReadTasks(c) PROVE ViewTypeOK'
  <2>1. calls[c] \in Requests
    BY <1>7 DEF ReadExecution, ReadTasks, ViewTypeOK
  <2>2. calls'[c] \in Requests /\ calls' = [calls EXCEPT ![c] = calls'[c]]
    BY <1>7, <2>1, SnapshotType DEF ReadExecution, ReadTasks, ViewTypeOK, TypeOK, Requests
  <2> QED BY <1>7, <2>2 DEF ReadExecution, ReadTasks, ViewTypeOK, TypeOK, lifecycleVars
<1>8. ASSUME NEW c \in Calls, Deliver(c) PROVE ViewTypeOK'
  <2>1. calls[c] \in Requests
    BY <1>8 DEF Deliver, ViewTypeOK
  <2> QED BY <1>8, <2>1 DEF Deliver, ViewTypeOK, TypeOK, lifecycleVars, Requests
<1>9. ASSUME NEW c \in Calls, NEW e \in Executions, Submit(c, e) \/ OpenExecution(c, e)
      PROVE  ViewTypeOK'
  <2>1. Request("create", e) \in Requests /\ Request("open", e) \in Requests
    BY DEF Request, Requests
  <2> QED BY <1>9, <2>1, LiveViewAssumption
          DEF Submit, OpenExecution, Disturb, ViewTypeOK, TypeOK, lifecycleVars
<1>10. CASE Interrupt
  <2>1. stream' \in Streams \cup {None}
    <3>1. CASE Deadline
      BY <3>1, StreamTypes DEF Deadline, Streams
    <3>2. CASE Drop
      <4>1. <<>> \in Seq(Events)
        OBVIOUS
      <4> QED BY <3>2, <4>1, StreamTypes DEF Drop, Streams
    <3>3. CASE \E c \in Calls : CallFails(c)
      BY <3>3 DEF CallFails, ViewTypeOK
    <3> QED BY <1>10, <3>1, <3>2, <3>3 DEF Interrupt
  <2> QED BY <1>10, <2>1, LiveViewAssumption
          DEF Interrupt, Deadline, Drop, CallFails, Disturb, ViewTypeOK, TypeOK, lifecycleVars
<1>11. CASE UNCHANGED viewVars
  BY <1>11 DEF viewVars, lifecycleVars, ViewTypeOK, TypeOK
<1> QED
  BY <1>1, <1>2, <1>3, <1>4, <1>5, <1>6, <1>7, <1>8, <1>9, <1>10, <1>11, TablesMoves
  DEF ViewNext, Receive, CallStep, UserStep

LEMMA SafetyKept == ViewTypeOK /\ Safety /\ [ViewNext]_viewVars => Safety' /\ [Next]_lifecycleVars
<1> SUFFICES ASSUME ViewTypeOK, Safety, [ViewNext]_viewVars
             PROVE  [Next]_lifecycleVars
  BY SafetyStep
<1> QED
  BY TablesMoves
  DEF TablesMove, ViewNext, Poll, PollExecution, PollTasks, Receive, ReceiveUpdate, ReceiveDone,
      StreamError, Render, CallStep, ReadExecution, ReadTasks, Deliver, UserStep, Submit,
      OpenExecution, Interrupt, Deadline, Drop, CallFails, viewVars

-----------------------------------------------------------------------------
(* Nothing torn reaches the screen.                                        *)

LEMMA VerdictsStay ==
  ASSUME ViewTypeOK, Safety, [ViewNext]_viewVars
  PROVE  \A e \in Executions : \A st : CompletedRead(e, st) => CompletedRead(e, st)'
BY SafetyKept, StepsKeepVerdicts DEF Final, CompletedRead, Terminal

LEMMA ReadsAreWhole ==
  ASSUME Safety, NEW e \in Executions, NEW st, CompletedRead(e, st)
  PROVE  Whole(Snapshot(e, st))
<1> SUFFICES ASSUME st = "COMPLETED" PROVE Snapshot(e, st).unfinished = {}
  BY DEF Whole, Snapshot
<1>1. \A t \in TasksOf(e) : status[t] \in {"ABSENT", "COMPLETED"}
  BY DEF CompletedRead, Safety, VerdictMatchesTasks, Rows
<1>2. \A i \in Index : <<e, i>> \in TasksOf(e)
  BY DEF TasksOf
<1> QED BY <1>1, <1>2 DEF Snapshot

LEMMA NothingRead == "COMPLETED" # None /\ \A e : CompletedRead(e, None)
BY NoneAssumption DEF CompletedRead, ExecutionStatuses

\* What the stream and its events may come to.
LEMMA StreamWholeStep ==
  ASSUME ViewTypeOK, Safety, WholeInv, [ViewNext]_viewVars
  PROVE  StreamWhole'
<1>0. ViewTypeOK'
  BY TypeStepView
<1>1. CASE UNCHANGED stream
  <2> SUFFICES ASSUME stream # None PROVE CompletedRead(stream.id, stream.read)'
    BY <1>1 DEF StreamWhole, WholeInv, Whole
  <2>1. stream.id \in Executions /\ CompletedRead(stream.id, stream.read)
    BY StreamTypes DEF StreamWhole, WholeInv
  <2> QED BY <1>1, <2>1, VerdictsStay DEF CompletedRead
<1>2. CASE stream' = None
  BY <1>2 DEF StreamWhole
<1>3. CASE PollExecution
  <2>1. stream \in Streams /\ stream # None /\ UNCHANGED execStatus
    BY <1>3, StreamTypes DEF PollExecution, lifecycleVars
  <2>2. stream'.id = stream.id /\ stream'.read = execStatus[stream.id] /\ stream'.inbox = stream.inbox
    BY <1>3, <2>1 DEF PollExecution, Streams
  <2> QED BY <2>1, <2>2 DEF StreamWhole, WholeInv, CompletedRead, Whole
<1>4. CASE PollTasks
  <2>1. stream # None /\ stream.read # None
    BY <1>4 DEF PollTasks
  <2>2. /\ Payload \in Snapshots /\ Whole(Payload)
        /\ stream \in Streams /\ stream.inbox \in Seq(Events) /\ stream.id \in Executions
    BY <2>1, StreamTypes, ReadsAreWhole DEF StreamWhole, WholeInv, Payload
  <2>3. stream'.read = None
    BY <1>4, <2>2 DEF PollTasks, Streams
  <2>4. \/ stream'.inbox = stream.inbox
        \/ stream'.inbox = stream.inbox \o EventsFor(Payload)
    BY <1>4, <2>2 DEF PollTasks, Streams
  <2>5. EventsFor(Payload) \in Seq(Events)
    BY <2>2, EventTypes
  <2>6. \A i \in DOMAIN EventsFor(Payload) :
          EventsFor(Payload)[i].type = "update" => EventsFor(Payload)[i].data = Payload
    BY <2>2, EventTypes DEF EventsFor
  <2>7. ASSUME NEW i \in DOMAIN stream'.inbox, stream'.inbox[i].type = "update"
        PROVE  Whole(stream'.inbox[i].data)
    <3>1. CASE i \in DOMAIN stream.inbox /\ stream'.inbox[i] = stream.inbox[i]
      BY <2>1, <2>7, <3>1 DEF StreamWhole, WholeInv
    <3>2. CASE \E j \in DOMAIN EventsFor(Payload) : stream'.inbox[i] = EventsFor(Payload)[j]
      BY <2>2, <2>6, <2>7, <3>2
    <3>3. CASE stream'.inbox = stream.inbox
      BY <2>7, <3>1, <3>3
    <3>4. CASE stream'.inbox = stream.inbox \o EventsFor(Payload)
      BY <2>2, <2>5, <2>7, <3>1, <3>2, <3>4, ConcatAt
    <3> QED BY <2>4, <3>3, <3>4
  <2> QED BY <2>3, <2>7, NothingRead DEF StreamWhole, CompletedRead, Whole
<1>5. CASE Interrupt
  <2>1. CASE Deadline
    <3>1. stream # None /\ stream \in Streams /\ stream.read = None
      BY <2>1, StreamTypes DEF Deadline
    <3>2. stream'.read = None /\ stream'.inbox = stream.inbox
      BY <2>1, <3>1 DEF Deadline, Streams
    <3> QED BY <3>1, <3>2, NothingRead DEF StreamWhole, WholeInv, CompletedRead, Whole
  <2>2. CASE Drop
    <3>1. stream'.read = None /\ stream'.inbox = <<>>
      BY <2>2, StreamTypes DEF Drop, Streams
    <3> QED BY <3>1, NothingRead DEF StreamWhole, CompletedRead
  <2> QED BY <1>1, <1>5, <2>1, <2>2 DEF Interrupt, CallFails
<1>6. CASE ReceiveUpdate
  <2>1. /\ stream # None /\ stream \in Streams
        /\ stream.inbox \in Seq(Events) /\ stream.inbox # <<>>
    BY <1>6, ReceiveTypes, StreamTypes DEF ReceiveUpdate
  <2>2. /\ stream'.inbox = Tail(stream.inbox) /\ stream'.id = stream.id
        /\ stream'.read = stream.read /\ UNCHANGED execStatus
    BY <1>6, <2>1 DEF ReceiveUpdate, Streams, lifecycleVars
  <2>3. \A i \in DOMAIN stream'.inbox :
          i + 1 \in DOMAIN stream.inbox /\ stream'.inbox[i] = stream.inbox[i + 1]
    BY <2>1, <2>2
  <2> QED BY <2>1, <2>2, <2>3 DEF StreamWhole, WholeInv, CompletedRead, Whole
<1>7. CASE Render
  <2>1. stream' = None \/ stream' = NewStream(shown.id)
    BY <1>7 DEF Render
  <2> QED BY <1>2, <2>1, NothingRead DEF StreamWhole, NewStream, CompletedRead
<1> QED
  BY <1>1, <1>2, <1>3, <1>4, <1>5, <1>6, <1>7
  DEF ViewNext, TablesStep, Poll, Receive, ReceiveDone, StreamError, CallStep, ServerCreates,
      ReadExecution, ReadTasks, Deliver, UserStep, Submit, OpenExecution, viewVars

LEMMA CallsWholeStep ==
  ASSUME ViewTypeOK, Safety, WholeInv, [ViewNext]_viewVars
  PROVE  CallsWhole'
<1>1. ASSUME NEW c \in Calls, calls'[c] # None, calls'[c] = calls[c]
      PROVE  /\ CompletedRead(calls[c].id, calls[c].read)'
             /\ calls'[c].answer # None => Whole(calls[c].answer)'
  <2>1. calls[c].id \in Executions /\ CompletedRead(calls[c].id, calls[c].read)
    BY <1>1 DEF ViewTypeOK, Requests, WholeInv, CallsWhole
  <2> QED BY <1>1, <2>1, VerdictsStay DEF WholeInv, CallsWhole, CompletedRead, Whole
<1>2. ASSUME NEW c \in Calls, \A d \in Calls \ {c} : calls'[d] = calls[d],
             calls'[c] # None =>
               /\ calls'[c].read = "COMPLETED" => execStatus'[calls'[c].id] = "COMPLETED"
               /\ calls'[c].answer # None => Whole(calls'[c].answer)
      PROVE  CallsWhole'
  BY <1>1, <1>2 DEF CallsWhole, CompletedRead, Whole
<1>3. CASE UNCHANGED calls
  BY <1>1, <1>3 DEF CallsWhole, CompletedRead, Whole
<1>4. ASSUME NEW c \in Calls, NEW p, NEW e, calls' = [calls EXCEPT ![c] = Request(p, e)]
      PROVE  CallsWhole'
  BY <1>2, <1>4, NothingRead DEF Request, ViewTypeOK, CompletedRead
<1>5. ASSUME NEW c \in Calls, calls' = [calls EXCEPT ![c] = None] PROVE CallsWhole'
  BY <1>2, <1>5 DEF ViewTypeOK
<1>6. ASSUME NEW c \in Calls, ReadExecution(c) PROVE CallsWhole'
  <2>1. /\ calls[c] \in Requests /\ calls[c] # None /\ UNCHANGED execStatus
        /\ calls' = [calls EXCEPT ![c] = [calls[c] EXCEPT !.read = execStatus[calls[c].id]]]
    BY <1>6 DEF ReadExecution, ViewTypeOK, lifecycleVars
  <2>2. calls'[c] = [calls[c] EXCEPT !.read = execStatus[calls[c].id]]
        /\ \A d \in Calls \ {c} : calls'[d] = calls[d]
    BY <2>1 DEF ViewTypeOK
  <2> QED BY <1>2, <2>1, <2>2 DEF Requests, CompletedRead, WholeInv, CallsWhole, Whole
<1>7. ASSUME NEW c \in Calls, ReadTasks(c) PROVE CallsWhole'
  <2>1. /\ calls[c] \in Requests /\ calls[c] # None /\ UNCHANGED execStatus
        /\ calls' = [calls EXCEPT ![c] = [calls[c] EXCEPT !.answer = Snapshot(calls[c].id, calls[c].read)]]
    BY <1>7 DEF ReadTasks, ViewTypeOK, lifecycleVars
  <2>2. calls'[c] = [calls[c] EXCEPT !.answer = Snapshot(calls[c].id, calls[c].read)]
        /\ \A d \in Calls \ {c} : calls'[d] = calls[d]
    BY <2>1 DEF ViewTypeOK
  <2>3. CompletedRead(calls[c].id, calls[c].read) /\ calls[c].id \in Executions
    BY <2>1 DEF WholeInv, CallsWhole, Requests
  <2>4. Whole(Snapshot(calls[c].id, calls[c].read))
    BY <2>3, ReadsAreWhole
  <2> QED BY <1>2, <2>1, <2>2, <2>3, <2>4 DEF Requests, CompletedRead
<1> QED
  BY <1>3, <1>4, <1>5, <1>6, <1>7
  DEF ViewNext, TablesStep, Poll, PollExecution, PollTasks, Receive, ReceiveUpdate, ReceiveDone,
      StreamError, Render, CallStep, ServerCreates, Deliver, UserStep, Submit, OpenExecution,
      Interrupt, Deadline, Drop, CallFails, viewVars

LEMMA ShownWholeStep ==
  ASSUME ViewTypeOK, Safety, WholeInv, [ViewNext]_viewVars
  PROVE  NoTornVerdict'
<1>1. CASE UNCHANGED shown
  BY <1>1 DEF WholeInv, NoTornVerdict
<1>2. CASE ReceiveUpdate
  <2>1. /\ stream # None /\ 1 \in DOMAIN stream.inbox
        /\ stream.inbox[1].type = "update" /\ shown' = stream.inbox[1].data
    BY <1>2, ReceiveTypes, StreamTypes DEF ReceiveUpdate
  <2> QED BY <2>1 DEF WholeInv, StreamWhole, NoTornVerdict, Whole
<1>3. ASSUME NEW c \in Calls, Deliver(c) PROVE NoTornVerdict'
  BY <1>3 DEF Deliver, WholeInv, CallsWhole, NoTornVerdict, Whole
<1> QED
  BY <1>1, <1>2, <1>3
  DEF ViewNext, TablesStep, Poll, PollExecution, PollTasks, Receive, ReceiveDone, StreamError,
      Render, CallStep, ServerCreates, ReadExecution, ReadTasks, UserStep, Submit, OpenExecution,
      Interrupt, Deadline, Drop, CallFails, viewVars

-----------------------------------------------------------------------------
(* Whose stream it is.                                                     *)

\* Only the effect subscribes.
LEMMA StreamKept ==
  ASSUME ViewTypeOK, [ViewNext]_viewVars
  PROVE  \/ Render
         \/ stream' = None /\ UNCHANGED effectKey
         \/ stream # None /\ stream'.id = stream.id /\ UNCHANGED effectKey
<1>1. stream # None => stream \in Streams
  BY StreamTypes
<1>2. CASE Poll
  BY <1>1, <1>2 DEF Poll, PollExecution, PollTasks, Streams
<1>3. CASE Receive
  BY <1>1, <1>3 DEF Receive, ReceiveUpdate, ReceiveDone, StreamError, Received, Streams
<1>4. CASE Interrupt
  BY <1>1, <1>4 DEF Interrupt, Deadline, Drop, CallFails, Streams
<1>5. CASE UNCHANGED <<stream, effectKey>>
  BY <1>5
<1> QED
  BY <1>2, <1>3, <1>4, <1>5
  DEF ViewNext, TablesStep, CallStep, ServerCreates, ReadExecution, ReadTasks, Deliver, UserStep,
      Submit, OpenExecution, viewVars

LEMMA SubscribedStep ==
  ASSUME ViewTypeOK, Subscribed, [ViewNext]_viewVars
  PROVE  Subscribed'
<1>1. CASE Render
  <2>1. shown \in Snapshots \/ shown = None
    BY DEF ViewTypeOK
  <2> QED BY <1>1, <2>1 DEF Render, Subscribed, Working, NewStream, Key
<1>2. CASE stream' = None
  BY <1>2 DEF Subscribed
<1>3. CASE stream # None /\ stream'.id = stream.id /\ UNCHANGED effectKey
  BY <1>3 DEF Subscribed, Key, Working
<1> QED BY <1>1, <1>2, <1>3, StreamKept

\* The key of an open stream.
LEMMA StreamKey ==
  ASSUME ViewTypeOK, Subscribed, stream # None
  PROVE  /\ effectKey # None /\ effectKey[1] = stream.id
         /\ effectKey[2] \notin Terminal
         /\ Rendered => Shows(stream.id) /\ Working(shown)
<1>1. PICK s \in Snapshots : effectKey = Key(s) /\ stream.id = s.id /\ Working(s)
  BY DEF Subscribed
<1>2. s # None /\ effectKey = <<s.id, s.status>> /\ s.status \notin Terminal
  BY <1>1 DEF Working, Key
<1>3. effectKey # None
  BY <1>2, NoneAssumption DEF Snapshots
<1>4. effectKey[1] = stream.id /\ effectKey[2] \notin Terminal
  BY <1>1, <1>2
<1>5. ASSUME Rendered PROVE Shows(stream.id) /\ Working(shown)
  <2>1. shown # None
    BY <1>3, <1>5 DEF Rendered, Key
  <2>2. shown.id = s.id /\ shown.status = s.status
    BY <1>2, <1>5, <2>1 DEF Rendered, Key
  <2> QED BY <1>1, <1>2, <2>1, <2>2 DEF Shows, Working
<1> QED BY <1>3, <1>4, <1>5

-----------------------------------------------------------------------------
(* What the client knows of.                                               *)

LEMMA PresentStays ==
  ASSUME ViewTypeOK, Safety, [ViewNext]_viewVars
  PROVE  \A e \in Executions : Present(e) => Present(e)'
<1>1. [Next]_lifecycleVars /\ TypeOK
  BY SafetyKept DEF Safety
<1>2. ASSUME NEW e \in Executions, ExecutionStep(e)
      PROVE  \A f \in Executions : Present(f) => Present(f)'
  BY <1>1, <1>2
  DEF ExecutionStep, Create, BeginPlanning, FailPlanning, Plan, Begin, Finish, MoveExecution,
      Present, TypeOK
<1>3. ASSUME NEW t \in Tasks, TaskStep(t) PROVE UNCHANGED execStatus
  BY <1>3 DEF TaskStep, Claim, Complete, Retry, Exhaust, Skip, LateResult, MoveTask
<1> QED BY <1>1, <1>2, <1>3 DEF Next, lifecycleVars, Present

LEMMA EventsKnownStep ==
  ASSUME ViewTypeOK, EventsKnown, [ViewNext]_viewVars
  PROVE  EventsKnown'
<1>1. CASE UNCHANGED stream
  BY <1>1 DEF EventsKnown
<1>2. CASE stream' = None
  BY <1>2 DEF EventsKnown
<1>3. CASE PollExecution \/ Deadline \/ Drop
  <2>1. stream # None /\ stream \in Streams
    BY <1>3, StreamTypes DEF PollExecution, Deadline, Drop
  <2>2. stream'.inbox \in {stream.inbox, <<>>} /\ stream'.id = stream.id
    BY <1>3, <2>1 DEF PollExecution, Deadline, Drop, Streams
  <2> QED BY <2>1, <2>2 DEF EventsKnown
<1>4. CASE PollTasks
  <2>1. stream # None /\ stream \in Streams /\ stream.inbox \in Seq(Events)
        /\ Payload \in Snapshots /\ Payload.id = stream.id
    BY <1>4, StreamTypes DEF PollTasks
  <2>2. /\ stream'.id = stream.id
        /\ stream'.inbox = stream.inbox \/ stream'.inbox = stream.inbox \o EventsFor(Payload)
    BY <1>4, <2>1 DEF PollTasks, Streams
  <2>3. EventsFor(Payload) \in Seq(Events)
    BY <2>1, EventTypes
  <2>4. \A i \in DOMAIN EventsFor(Payload) :
          EventsFor(Payload)[i].type = "update" => EventsFor(Payload)[i].data = Payload
    BY <2>1, EventTypes DEF EventsFor
  <2>5. CASE stream'.inbox = stream.inbox
    BY <2>1, <2>2, <2>5 DEF EventsKnown
  <2>6. CASE stream'.inbox = stream.inbox \o EventsFor(Payload)
    <3> SUFFICES ASSUME NEW i \in DOMAIN stream'.inbox, stream'.inbox[i].type = "update"
                 PROVE  stream'.inbox[i].data.id = stream.id
      BY <2>2 DEF EventsKnown
    <3> QED BY <2>1, <2>3, <2>4, <2>6, ConcatAt DEF EventsKnown
  <2> QED BY <2>2, <2>5, <2>6
<1>5. CASE ReceiveUpdate
  <2>1. /\ stream # None /\ stream \in Streams
        /\ stream.inbox \in Seq(Events) /\ stream.inbox # <<>>
    BY <1>5, ReceiveTypes, StreamTypes DEF ReceiveUpdate
  <2>2. stream'.inbox = Tail(stream.inbox) /\ stream'.id = stream.id
    BY <1>5, <2>1 DEF ReceiveUpdate, Streams
  <2>3. \A i \in DOMAIN stream'.inbox :
          i + 1 \in DOMAIN stream.inbox /\ stream'.inbox[i] = stream.inbox[i + 1]
    BY <2>1, <2>2
  <2> QED BY <2>1, <2>2, <2>3 DEF EventsKnown
<1>6. CASE Render
  BY <1>6 DEF Render, EventsKnown, NewStream
<1> QED
  BY <1>1, <1>2, <1>3, <1>4, <1>5, <1>6
  DEF ViewNext, TablesStep, Poll, Receive, ReceiveDone, StreamError, CallStep, ServerCreates,
      ReadExecution, ReadTasks, Deliver, UserStep, Submit, OpenExecution, Interrupt, CallFails,
      viewVars

LEMMA CallsKnownStep ==
  ASSUME ViewTypeOK, Safety, Subscribed, Known, [ViewNext]_viewVars
  PROVE  CallsKnown'
<1> DEFINE CallKnown(r) ==
      /\ r.purpose # "create" \/ r.read # None => execStatus'[r.id] # "ABSENT"
      /\ r.answer # None => r.answer.id = r.id /\ r.read # None
<1>1. ASSUME NEW c \in Calls, calls'[c] # None, calls'[c] = calls[c] PROVE CallKnown(calls'[c])
  <2>1. calls[c] \in Requests
    BY <1>1 DEF ViewTypeOK
  <2>2. calls[c].purpose # "create" \/ calls[c].read # None => Present(calls[c].id)'
    BY <1>1, <2>1, PresentStays DEF Known, CallsKnown, Requests
  <2> QED BY <1>1, <2>2 DEF Known, CallsKnown, Present
<1>2. ASSUME NEW c \in Calls, NEW r, calls' = [calls EXCEPT ![c] = r],
             r # None => CallKnown(r)
      PROVE  CallsKnown'
  <2>1. calls'[c] = r /\ \A d \in Calls \ {c} : calls'[d] = calls[d]
    BY <1>2 DEF ViewTypeOK
  <2> QED BY <1>1, <1>2, <2>1 DEF CallsKnown, Present
<1>3. CASE UNCHANGED calls
  BY <1>1, <1>3 DEF CallsKnown, Present
<1>4. ASSUME NEW c \in Calls, StreamError(c) PROVE CallsKnown'
  <2>1. Present(stream.id)
    BY <1>4, StreamKey DEF StreamError, Known, ScreenKnown
  <2> QED BY <1>2, <1>4, <2>1 DEF StreamError, Request, lifecycleVars, Present
<1>5. ASSUME NEW c \in Calls, NEW e \in Executions, Submit(c, e) \/ OpenExecution(c, e)
      PROVE  CallsKnown'
  BY <1>2, <1>5 DEF Submit, OpenExecution, Request, lifecycleVars
<1>6. ASSUME NEW c \in Calls, calls' = [calls EXCEPT ![c] = None] PROVE CallsKnown'
  BY <1>2, <1>6
<1>7. ASSUME NEW c \in Calls, ReadExecution(c) PROVE CallsKnown'
  <2>1. calls[c] \in Requests /\ calls[c] # None /\ UNCHANGED execStatus
    BY <1>7 DEF ReadExecution, ViewTypeOK, lifecycleVars
  <2>2. CallKnown([calls[c] EXCEPT !.read = execStatus[calls[c].id]])
    BY <1>7, <2>1, NoneAssumption DEF ReadExecution, Requests, Known, CallsKnown, ViewTypeOK, TypeOK
  <2> HIDE DEF CallKnown
  <2> QED BY <1>2, <1>7, <2>2 DEF ReadExecution
<1>8. ASSUME NEW c \in Calls, ReadTasks(c) PROVE CallsKnown'
  <2>1. calls[c] \in Requests /\ calls[c] # None /\ UNCHANGED execStatus /\ calls[c].read # None
    BY <1>8 DEF ReadTasks, ViewTypeOK, lifecycleVars
  <2>2. Snapshot(calls[c].id, calls[c].read).id = calls[c].id
    BY DEF Snapshot
  <2>3. CallKnown([calls[c] EXCEPT !.answer = Snapshot(calls[c].id, calls[c].read)])
    BY <2>1, <2>2 DEF Requests, Known, CallsKnown, Present
  <2> HIDE DEF CallKnown
  <2> QED BY <1>2, <1>8, <2>3 DEF ReadTasks
<1> QED
  BY <1>3, <1>4, <1>5, <1>6, <1>7, <1>8
  DEF ViewNext, TablesStep, Poll, PollExecution, PollTasks, Receive, ReceiveUpdate, ReceiveDone,
      Render, CallStep, ServerCreates, Deliver, UserStep, Interrupt, Deadline, Drop, CallFails,
      viewVars

LEMMA ScreenKnownStep ==
  ASSUME ViewTypeOK, Safety, Subscribed, Known, [ViewNext]_viewVars
  PROVE  ScreenKnown'
<1>1. /\ shown # None => shown.id \in Executions
      /\ effectKey # None => effectKey[1] \in Executions
  BY DEF ViewTypeOK, Snapshots
<1>2. CASE UNCHANGED <<shown, effectKey>>
  BY <1>1, <1>2, PresentStays DEF Known, ScreenKnown, Present
<1>3. CASE Render
  BY <1>1, <1>3, PresentStays DEF Render, Key, Known, ScreenKnown, Present
<1>4. CASE ReceiveUpdate
  <2>1. /\ stream # None /\ 1 \in DOMAIN stream.inbox
        /\ stream.inbox[1].type = "update" /\ shown' = stream.inbox[1].data
        /\ UNCHANGED <<effectKey, execStatus>>
    BY <1>4, ReceiveTypes, StreamTypes DEF ReceiveUpdate, lifecycleVars
  <2>2. shown'.id = effectKey[1] /\ Present(effectKey[1])
    BY <2>1, StreamKey DEF Known, ScreenKnown, EventsKnown
  <2> QED BY <2>1, <2>2 DEF ScreenKnown, Present
<1>5. ASSUME NEW c \in Calls, Deliver(c) PROVE ScreenKnown'
  <2>1. /\ shown' = calls[c].answer /\ calls[c] # None /\ calls[c].answer # None
        /\ UNCHANGED <<effectKey, execStatus>>
    BY <1>5 DEF Deliver, lifecycleVars
  <2>2. shown'.id = calls[c].id /\ Present(calls[c].id)
    BY <2>1 DEF Known, CallsKnown
  <2> QED BY <2>1, <2>2 DEF Known, ScreenKnown, Present
<1> QED
  BY <1>2, <1>3, <1>4, <1>5
  DEF ViewNext, TablesStep, Poll, PollExecution, PollTasks, Receive, ReceiveDone, StreamError,
      CallStep, ServerCreates, ReadExecution, ReadTasks, UserStep, Submit, OpenExecution,
      Interrupt, Deadline, Drop, CallFails, viewVars

-----------------------------------------------------------------------------
(* As long as nothing disturbs them.                                       *)

LEMMA Undisturbed ==
  ASSUME ViewTypeOK, [ViewNext]_viewVars, disturbances' = 0
  PROVE  /\ disturbances = 0
         /\ ~Interrupt
         /\ \A c \in Calls : \A e \in Executions : OpenExecution(c, e) =>
              Rendered /\ ~Shows(e) /\ \A d \in Calls : calls[d] = None
<1>1. disturbances \in Nat
  BY LiveViewAssumption DEF ViewTypeOK
<1>2. ~Disturb
  BY <1>1 DEF Disturb
<1>3. ~Interrupt
  BY <1>2 DEF Interrupt, Deadline, Drop, CallFails
<1>4. \A c \in Calls : \A e \in Executions : OpenExecution(c, e) =>
        Rendered /\ ~Shows(e) /\ \A d \in Calls : calls[d] = None
  BY <1>2 DEF OpenExecution
<1>5. disturbances = 0
  <2>1. UNCHANGED disturbances
    BY <1>3, <1>2
    DEF ViewNext, TablesStep, Poll, PollExecution, PollTasks, Receive, ReceiveUpdate, ReceiveDone,
        StreamError, Render, CallStep, ServerCreates, ReadExecution, ReadTasks, Deliver, UserStep,
        Submit, OpenExecution, viewVars
  <2> QED BY <2>1
<1> QED BY <1>3, <1>4, <1>5

\* No stream ends without its done event.
LEMMA NoStreamError ==
  ASSUME VerdictBeforeDone, NEW c \in Calls
  PROVE  ~StreamError(c)
BY DEF VerdictBeforeDone, StreamError

LEMMA CallsElsewhereStep ==
  ASSUME ViewInv, [ViewNext]_viewVars, disturbances' = 0
  PROVE  CallsElsewhere'
<1>1. ViewTypeOK /\ CallsElsewhere /\ VerdictBeforeDone /\ Subscribed /\ Known
  BY Undisturbed DEF ViewInv
<1> DEFINE Apart(r) == ~Shows(r.id)' /\ (effectKey' # None => effectKey'[1] # r.id)
<1>2. ASSUME \A d \in Calls : calls'[d] # None => calls[d] # None /\ calls'[d].id = calls[d].id,
             \A d \in Calls : calls'[d] # None => Apart(calls[d])
      PROVE  CallsElsewhere'
  BY <1>1, <1>2 DEF CallsElsewhere, Shows
<1>3. ASSUME UNCHANGED <<shown, effectKey>>,
             \A d \in Calls : calls'[d] # None => calls[d] # None /\ calls'[d].id = calls[d].id
      PROVE  CallsElsewhere'
  BY <1>1, <1>3 DEF CallsElsewhere, Shows
<1>4. ASSUME NEW c \in Calls, NEW p, NEW e, calls[c] = None,
             calls' = [calls EXCEPT ![c] = Request(p, e)],
             UNCHANGED <<shown, effectKey>>,
             ~Shows(e), effectKey # None => effectKey[1] # e,
             \A d \in Calls : calls[d] # None => calls[d].id # e
      PROVE  CallsElsewhere'
  <2>1. calls'[c].id = e /\ \A d \in Calls \ {c} : calls'[d] = calls[d]
    BY <1>1, <1>4 DEF ViewTypeOK, Request
  <2> QED BY <1>1, <1>4, <2>1 DEF CallsElsewhere, Shows
<1>5. ASSUME NEW c \in Calls, NEW e \in Executions, Submit(c, e) PROVE CallsElsewhere'
  <2>1. ~Present(e) /\ calls[c] = None /\ UNCHANGED <<shown, effectKey>>
        /\ calls' = [calls EXCEPT ![c] = Request("create", e)]
    BY <1>5 DEF Submit, Present
  <2>2. \A d \in Calls : calls[d] # None => calls[d].id \in Executions /\ calls[d].purpose # "create"
    BY <1>1, <1>5 DEF Submit, Busy, Creating, ViewTypeOK, Requests
  <2>3. \A d \in Calls : calls[d] # None => Present(calls[d].id)
    BY <1>1, <2>2 DEF Known, CallsKnown
  <2>4. ~Shows(e) /\ (effectKey # None => effectKey[1] # e)
    BY <1>1, <2>1 DEF Known, ScreenKnown, Shows
  <2> QED BY <1>4, <2>1, <2>3, <2>4
<1>6. ASSUME NEW c \in Calls, NEW e \in Executions, OpenExecution(c, e) PROVE CallsElsewhere'
  <2>1. Rendered /\ ~Shows(e) /\ \A d \in Calls : calls[d] = None
    BY <1>1, <1>6, Undisturbed
  <2>2. effectKey # None => effectKey[1] # e
    BY <2>1 DEF Rendered, Key, Shows
  <2> QED BY <1>4, <1>6, <2>1, <2>2 DEF OpenExecution
<1>7. CASE ReceiveUpdate
  <2>1. stream # None /\ 1 \in DOMAIN stream.inbox /\ stream.inbox[1].type = "update"
        /\ shown' = stream.inbox[1].data /\ UNCHANGED <<effectKey, calls>>
    BY <1>1, <1>7, ReceiveTypes, StreamTypes DEF ReceiveUpdate
  <2>2. shown'.id = effectKey[1] /\ effectKey # None
    BY <1>1, <2>1, StreamKey DEF Known, EventsKnown
  <2> QED BY <1>1, <1>2, <2>1, <2>2 DEF CallsElsewhere, Shows
<1>8. CASE Render
  <2>1. effectKey' # None => shown # None /\ effectKey'[1] = shown.id
    BY <1>8 DEF Render, Key
  <2> QED BY <1>1, <1>2, <1>8, <2>1 DEF Render, CallsElsewhere, Shows
<1>9. ASSUME NEW c \in Calls, Deliver(c) PROVE CallsElsewhere'
  <2>1. /\ shown' = calls[c].answer /\ shown'.id = calls[c].id /\ calls[c] # None
        /\ UNCHANGED effectKey /\ calls'[c] = None
        /\ \A d \in Calls \ {c} : calls'[d] = calls[d]
    BY <1>1, <1>9 DEF Deliver, Known, CallsKnown, ViewTypeOK
  <2> QED BY <1>1, <1>2, <2>1 DEF CallsElsewhere, Shows
<1>10. ASSUME NEW c \in Calls, ReadExecution(c) \/ ReadTasks(c) PROVE CallsElsewhere'
  <2>1. calls[c] # None /\ calls'[c].id = calls[c].id /\ UNCHANGED <<shown, effectKey>>
        /\ \A d \in Calls \ {c} : calls'[d] = calls[d]
    BY <1>1, <1>10 DEF ReadExecution, ReadTasks, ViewTypeOK, Requests
  <2> QED BY <1>3, <2>1
<1> QED
  BY <1>1, <1>3, <1>5, <1>6, <1>7, <1>8, <1>9, <1>10, Undisturbed, NoStreamError
  DEF ViewNext, TablesStep, Poll, PollExecution, PollTasks, Receive, ReceiveDone, CallStep,
      ServerCreates, UserStep, viewVars

LEMMA VerdictBeforeDoneStep ==
  ASSUME ViewInv, [ViewNext]_viewVars, disturbances' = 0
  PROVE  VerdictBeforeDone'
<1>1. ViewTypeOK /\ CallsElsewhere /\ VerdictBeforeDone /\ Subscribed /\ Known
  BY Undisturbed DEF ViewInv
<1>2. CASE UNCHANGED <<stream, shown>>
  BY <1>1, <1>2 DEF VerdictBeforeDone, Shows, Working
<1>3. CASE stream' = None
  BY <1>3 DEF VerdictBeforeDone
<1>4. ASSUME NEW c \in Calls, Deliver(c) PROVE VerdictBeforeDone'
  <2>1. /\ shown' = calls[c].answer /\ shown'.id = calls[c].id /\ calls[c] # None
        /\ UNCHANGED stream
    BY <1>1, <1>4 DEF Deliver, Known, CallsKnown
  <2>2. stream # None => stream.id # calls[c].id
    BY <1>1, <2>1, StreamKey DEF CallsElsewhere
  <2> QED BY <1>1, <2>1, <2>2 DEF VerdictBeforeDone, Shows
<1>5. CASE PollExecution
  <2>1. stream # None /\ stream \in Streams
    BY <1>1, <1>5, StreamTypes DEF PollExecution
  <2>2. stream'.inbox = stream.inbox /\ stream'.open = stream.open /\ stream'.id = stream.id
        /\ UNCHANGED shown
    BY <1>5, <2>1 DEF PollExecution, Streams
  <2> QED BY <1>1, <2>1, <2>2 DEF VerdictBeforeDone, Shows, Working
<1>6. CASE PollTasks
  <2>1. /\ stream # None /\ stream \in Streams /\ stream.inbox \in Seq(Events)
        /\ Payload \in Snapshots /\ stream.open
    BY <1>1, <1>6, StreamTypes DEF PollTasks
  <2>2. /\ stream'.id = stream.id /\ UNCHANGED shown
        /\ \/ stream'.inbox = stream.inbox /\ stream'.open
           \/ /\ stream'.inbox = stream.inbox \o EventsFor(Payload)
              /\ stream'.open = (Payload.status \notin Terminal)
    BY <1>6, <2>1 DEF PollTasks, Streams
  <2>3. CASE stream'.inbox = stream.inbox /\ stream'.open
    BY <1>1, <2>1, <2>2, <2>3 DEF VerdictBeforeDone, Shows, Working
  <2>4. CASE /\ stream'.inbox = stream.inbox \o EventsFor(Payload)
             /\ stream'.open = (Payload.status \notin Terminal)
    <3>1. EventsFor(Payload) \in Seq(Events) /\ Update(Payload) # Done
          /\ Update(Payload).type = "update" /\ Update(Payload).data = Payload
      BY <2>1, EventTypes
    <3>2. /\ 1 \in DOMAIN EventsFor(Payload) /\ EventsFor(Payload)[1] = Update(Payload)
          /\ \A j \in DOMAIN EventsFor(Payload) : j # 1 =>
                j = 2 /\ EventsFor(Payload)[2] = Done /\ Payload.status \in Terminal
          /\ Payload.status \in Terminal =>
                2 \in DOMAIN EventsFor(Payload) /\ EventsFor(Payload)[2] = Done
      BY <3>1 DEF EventsFor
    <3>3. \A j \in DOMAIN EventsFor(Payload) :
            /\ j + Len(stream.inbox) \in DOMAIN stream'.inbox
            /\ stream'.inbox[j + Len(stream.inbox)] = EventsFor(Payload)[j]
      BY <2>1, <2>4, <3>1
    <3>4. \A i \in DOMAIN stream.inbox : stream'.inbox[i] = stream.inbox[i] /\ i \in Nat
      BY <2>1, <2>4, <3>1
    <3>5. stream'.open \/ \E i \in DOMAIN stream'.inbox : stream'.inbox[i] = Done
      BY <2>4, <3>2, <3>3
    <3>6. ASSUME NEW i \in DOMAIN stream'.inbox, stream'.inbox[i] = Done
          PROVE  IF i = 1 THEN Shows(stream.id) => ~Working(shown)
                 ELSE /\ stream'.inbox[i - 1].type = "update"
                      /\ stream'.inbox[i - 1].data.status \in Terminal
      <4>1. CASE i \in DOMAIN stream.inbox
        <5>1. i # 1 => i - 1 \in DOMAIN stream.inbox
          BY <2>1, <4>1
        <5> QED BY <1>1, <2>1, <3>4, <3>6, <4>1, <5>1 DEF VerdictBeforeDone
      <4>2. CASE i \notin DOMAIN stream.inbox
        <5>1. PICK j \in DOMAIN EventsFor(Payload) :
                j = i - Len(stream.inbox) /\ EventsFor(Payload)[j] = Done
          BY <2>1, <2>4, <3>1, <3>6, <4>2, ConcatAt
        <5>2. j = 2 /\ Payload.status \in Terminal
          BY <3>1, <3>2, <5>1
        <5>3. Len(stream.inbox) \in Nat /\ i = 2 + Len(stream.inbox)
          BY <2>1, <2>4, <3>1, <5>1, <5>2
        <5>4. i # 1 /\ i - 1 = 1 + Len(stream.inbox)
          BY <5>3
        <5> QED BY <3>1, <3>2, <3>3, <5>2, <5>4
      <4> QED BY <4>1, <4>2
    <3> QED BY <2>2, <3>5, <3>6 DEF VerdictBeforeDone, Shows, Working
  <2> QED BY <2>2, <2>3, <2>4
<1>7. CASE ReceiveUpdate
  <2>1. /\ stream # None /\ stream \in Streams
        /\ stream.inbox \in Seq(Events) /\ stream.inbox # <<>>
        /\ stream.inbox[1].type = "update" /\ stream.inbox[1] # Done
        /\ shown' = stream.inbox[1].data
    BY <1>1, <1>7, ReceiveTypes, StreamTypes, EventTypes DEF ReceiveUpdate
  <2>2. /\ stream'.inbox = Tail(stream.inbox) /\ stream'.id = stream.id
        /\ stream'.open = stream.open
    BY <1>7, <2>1 DEF ReceiveUpdate, Streams
  <2>3. \A i \in DOMAIN stream'.inbox :
          i \in Nat /\ i + 1 \in DOMAIN stream.inbox /\ stream'.inbox[i] = stream.inbox[i + 1]
    BY <2>1, <2>2
  <2>4. \A i \in DOMAIN stream.inbox : i # 1 => i - 1 \in DOMAIN stream'.inbox /\ i = (i - 1) + 1
    BY <2>1, <2>2
  <2>5. stream'.open \/ \E i \in DOMAIN stream'.inbox : stream'.inbox[i] = Done
    <3> SUFFICES ASSUME NEW i \in DOMAIN stream.inbox, stream.inbox[i] = Done
                 PROVE  stream'.inbox[i - 1] = Done /\ i - 1 \in DOMAIN stream'.inbox
      BY <1>1, <2>1, <2>2 DEF VerdictBeforeDone
    <3>1. i # 1
      BY <2>1
    <3>2. i - 1 \in DOMAIN stream'.inbox /\ (i - 1) + 1 = i
      BY <2>4, <3>1
    <3> QED BY <2>3, <3>2
  <2>6. ASSUME NEW i \in DOMAIN stream'.inbox, stream'.inbox[i] = Done
        PROVE  IF i = 1 THEN shown'.status \in Terminal
               ELSE /\ stream'.inbox[i - 1].type = "update"
                    /\ stream'.inbox[i - 1].data.status \in Terminal
    <3>1. stream.inbox[i + 1] = Done /\ i \in Nat /\ i + 1 # 1 /\ (i + 1) - 1 = i
      BY <2>3, <2>6, <2>1, <2>2
    <3>2. stream.inbox[i].type = "update" /\ stream.inbox[i].data.status \in Terminal
      BY <1>1, <2>1, <2>3, <3>1 DEF VerdictBeforeDone
    <3>3. i # 1 => i - 1 \in DOMAIN stream'.inbox /\ stream'.inbox[i - 1] = stream.inbox[i]
      BY <2>1, <2>2, <2>3
    <3> QED BY <2>1, <3>2, <3>3
  <2> QED BY <2>5, <2>6 DEF VerdictBeforeDone, Working
<1>8. CASE Render
  BY <1>8 DEF Render, VerdictBeforeDone, NewStream
<1> QED
  BY <1>1, <1>2, <1>3, <1>4, <1>5, <1>6, <1>7, <1>8, Undisturbed, NoStreamError
  DEF ViewNext, TablesStep, Poll, Receive, ReceiveDone, CallStep, ServerCreates, ReadExecution,
      ReadTasks, UserStep, Submit, OpenExecution, viewVars

LEMMA WatchedStep ==
  ASSUME ViewInv, [ViewNext]_viewVars, disturbances' = 0
  PROVE  Watched'
<1>1. /\ ViewTypeOK /\ CallsElsewhere /\ VerdictBeforeDone /\ Watched /\ Subscribed /\ Known
  BY Undisturbed DEF ViewInv
<1>2. CASE UNCHANGED <<stream, shown, effectKey>>
  BY <1>1, <1>2 DEF Watched, Rendered, Key
<1>3. CASE stream' # None
  BY <1>3 DEF Watched
<1>4. CASE Poll
  BY <1>1, <1>3, <1>4, PollTypes
<1>5. CASE ReceiveUpdate
  <2>1. stream' \in Streams
    BY <1>1, <1>5, ReceiveTypes, StreamTypes DEF ReceiveUpdate, Streams
  <2> QED BY <1>3, <2>1, NoneAssumption
<1>6. CASE ReceiveDone
  <2>1. /\ stream # None /\ 1 \in DOMAIN stream.inbox /\ stream.inbox[1] = Done
        /\ UNCHANGED <<shown, effectKey>>
    BY <1>1, <1>6, ReceiveTypes, StreamTypes, EventTypes DEF ReceiveDone
  <2>2. ~Rendered
    BY <1>1, <2>1, StreamKey DEF VerdictBeforeDone
  <2> QED BY <2>1, <2>2 DEF Watched, Rendered, Key
<1>7. CASE Render
  <2>1. shown # None => NewStream(shown.id) \in Streams
    <3>1. <<>> \in Seq(Events)
      OBVIOUS
    <3> QED BY <1>1, <3>1 DEF NewStream, Streams, ViewTypeOK, Snapshots
  <2>2. Working(shown) => stream' # None
    BY <1>7, <2>1, NoneAssumption DEF Render, Working
  <2>3. ~Working(shown) => effectKey' = None \/ effectKey'[2] \in Terminal
    BY <1>7 DEF Render, Working, Key
  <2> QED BY <2>2, <2>3 DEF Watched
<1>8. ASSUME NEW c \in Calls, Deliver(c) PROVE Watched'
  <2>1. /\ shown' = calls[c].answer /\ shown'.id = calls[c].id /\ calls[c] # None /\ shown' # None
        /\ UNCHANGED effectKey
    BY <1>1, <1>8 DEF Deliver, Known, CallsKnown
  <2>2. effectKey # None => effectKey[1] # shown'.id
    BY <1>1, <2>1 DEF CallsElsewhere
  <2> QED BY <2>1, <2>2 DEF Watched, Rendered, Key
<1> QED
  BY <1>1, <1>2, <1>4, <1>5, <1>6, <1>7, <1>8, Undisturbed, NoStreamError
  DEF ViewNext, TablesStep, Receive, CallStep, ServerCreates, ReadExecution, ReadTasks, UserStep,
      Submit, OpenExecution, viewVars

-----------------------------------------------------------------------------
(* The theorems.                                                           *)

LEMMA InitView == ViewInit => ViewInv
<1> SUFFICES ASSUME ViewInit PROVE ViewInv
  OBVIOUS
<1>1. Safety
  BY InitSafe DEF ViewInit
<1>2. ViewTypeOK
  BY <1>1, LiveViewAssumption DEF ViewInit, ViewTypeOK, Safety
<1> QED BY <1>1, <1>2
        DEF ViewInit, ViewInv, WholeInv, StreamWhole, CallsWhole, NoTornVerdict, Subscribed, Known,
            ScreenKnown, CallsKnown, EventsKnown, CallsElsewhere, VerdictBeforeDone, Watched

LEMMA ViewStep == ViewInv /\ [ViewNext]_viewVars => ViewInv'
<1> SUFFICES ASSUME ViewInv, [ViewNext]_viewVars PROVE ViewInv'
  OBVIOUS
<1>1. ViewTypeOK' /\ Safety'
  BY TypeStepView, SafetyKept DEF ViewInv
<1>2. WholeInv'
  BY StreamWholeStep, CallsWholeStep, ShownWholeStep DEF ViewInv, WholeInv
<1>3. Subscribed'
  BY SubscribedStep DEF ViewInv
<1>4. Known'
  BY ScreenKnownStep, CallsKnownStep, EventsKnownStep DEF ViewInv, Known
<1>5. (disturbances = 0 => CallsElsewhere /\ VerdictBeforeDone /\ Watched)'
  BY CallsElsewhereStep, VerdictBeforeDoneStep, WatchedStep
<1> QED BY <1>1, <1>2, <1>3, <1>4, <1>5 DEF ViewInv

LEMMA ViewInvariant == ViewSpec => []ViewInv
BY InitView, ViewStep, PTL DEF ViewSpec

\* Every variable of the client, its stream and its calls keeps its type.
THEOREM ViewTypes == ViewSpec => []ViewTypeOK
<1>1. ViewInv => ViewTypeOK
  BY DEF ViewInv
<1> QED BY <1>1, ViewInvariant, PTL

\* README:383-385: although the status and the tasks of every snapshot are read by
\* two statements while workers go on, and snapshots arrive in any order, no
\* completed execution is ever shown with a task at work.
THEOREM VerdictsAreWhole == ViewSpec => []NoTornVerdict
<1>1. ViewInv => NoTornVerdict
  BY DEF ViewInv, WholeInv
<1> QED BY <1>1, ViewInvariant, PTL

\* App.jsx:91-119: whenever the effect has run for what is on the screen, an open
\* subscription is one to it, whatever was clicked, cut or overtaken before.
THEOREM StreamFollowsScreen == ViewSpec => []SubscribedToWhatIsShown
<1>1. ViewInv => SubscribedToWhatIsShown
  BY StreamKey DEF ViewInv, SubscribedToWhatIsShown, Shows
<1> QED BY <1>1, ViewInvariant, PTL

\* ExecutionView.jsx:29: without a cut stream, a failed call or a hasty click, a
\* working execution on the screen keeps its subscription, for any number of
\* calls at a time (stale_view shows what one disturbance does).
THEOREM WorkIsWatched == ViewSpec => []WorkingViewIsWatched
<1>1. ViewInv => WorkingViewIsWatched
  <2> SUFFICES ASSUME ViewInv, disturbances = 0, Rendered, Working(shown) PROVE stream # None
    BY DEF WorkingViewIsWatched
  <2>1. effectKey = <<shown.id, shown.status>> /\ shown \in Snapshots /\ shown.status \notin Terminal
    BY DEF Rendered, Working, Key, ViewInv, ViewTypeOK
  <2>2. effectKey # None /\ effectKey[2] \notin Terminal
    BY <2>1, NoneAssumption DEF Snapshots
  <2> QED BY <2>2 DEF ViewInv, Watched
<1> QED BY <1>1, ViewInvariant, PTL
=============================================================================
