------------------------------ MODULE LiveView ------------------------------
(***************************************************************************)
(* What a user sees: the browser client (App.jsx), the event stream it     *)
(* subscribes to and the REST calls it makes (api/routes/executions.py),   *)
(* over tables that change underneath as ExecutionLifecycle allows.        *)
(*                                                                         *)
(* Every endpoint reads the row of an execution first and the rows of its  *)
(* tasks in a second statement, under READ COMMITTED: two steps.  A        *)
(* subscription is a FIFO connection; REST answers overtake each other and *)
(* the stream.  React runs the effect of App in a step of its own, after   *)
(* the state it depends on has been set.                                   *)
(***************************************************************************)
EXTENDS ExecutionLifecycle

CONSTANTS
  Calls,            \* REST calls that may be outstanding at a time
  MaxInbox,         \* events a connection buffers before the generator waits
  MaxDisturbances   \* bound on cut streams, failed calls and hasty clicks

ASSUME LiveViewAssumption == MaxInbox \in Nat \ {0} /\ MaxDisturbances \in Nat

VARIABLES
  shown,        \* the state `execution` of App: the snapshot on the screen
  effectKey,    \* the [id, status] for which its effect has run last
  stream,       \* its EventSource, and the generator behind it
  calls,        \* calls[c]: a REST call and what the server has read for it
  disturbances

viewVars == <<lifecycleVars, shown, effectKey, stream, calls, disturbances>>

\* An ExecutionRead: of its tasks only which ones have not completed.
Snapshots == [id : Executions, status : ExecutionStatuses, unfinished : SUBSET Index]

Update(s) == [type |-> "update", data |-> s]
Done == [type |-> "done"]
Events == {Update(s) : s \in Snapshots} \cup {Done}

Streams == [id : Executions, sent : Snapshots \cup {None}, read : ExecutionStatuses \cup {None},
            inbox : Seq(Events), open : BOOLEAN]

Requests == [purpose : {"create", "open", "snapshot"}, id : Executions,
             read : ExecutionStatuses \cup {None}, answer : Snapshots \cup {None}]

\* null, and undefined, are none of these.
ASSUME NoneAssumption ==
  None \notin ExecutionStatuses \cup Snapshots \cup Streams \cup (Executions \X ExecutionStatuses)

ViewTypeOK ==
  /\ TypeOK
  /\ shown \in Snapshots \cup {None}
  /\ effectKey \in (Executions \X ExecutionStatuses) \cup {None}
  /\ stream \in Streams \cup {None}
  /\ calls \in [Calls -> Requests \cup {None}]
  /\ disturbances \in 0 .. MaxDisturbances

ViewInit ==
  /\ Init
  /\ shown = None
  /\ effectKey = None
  /\ stream = None
  /\ calls = [c \in Calls |-> None]
  /\ disturbances = 0

-----------------------------------------------------------------------------
Disturb == disturbances < MaxDisturbances /\ disturbances' = disturbances + 1

SlipKeyIsStatus(s) == IF s = None THEN None ELSE s.status

\* The dependencies of the effect: [execution?.id, execution?.status].
Key(s) == IF s = None THEN None ELSE <<s.id, s.status>>
Working(s) == s # None /\ s.status \notin Terminal
Shows(e) == shown # None /\ shown.id = e

\* The effect has run for what is on the screen.
Rendered == Key(shown) = effectKey

\* ExecutionRead: an execution whose status was read before, its tasks now.
Snapshot(e, st) ==
  [id |-> e, status |-> st,
   unfinished |-> {i \in Index : status[<<e, i>>] \notin {"ABSENT", "COMPLETED"}}]

\* The tables change on their own.  Nobody else creates the execution a call of
\* this client is about to create.
TablesStep ==
  /\ Next
  /\ \A c \in Calls : calls[c] # None =>
       (execStatus[calls[c].id] = "ABSENT" => execStatus'[calls[c].id] = "ABSENT")
  /\ UNCHANGED <<shown, effectKey, stream, calls, disturbances>>

-----------------------------------------------------------------------------
(* The event stream: the generator of stream_execution_events.             *)

EventsFor(data) ==
  IF data.status \in Terminal THEN <<Update(data), Done>> ELSE <<Update(data)>>

NewStream(e) == [id |-> e, sent |-> None, read |-> None, inbox |-> <<>>, open |-> TRUE]

PollExecution ==
  /\ stream # None
  /\ stream.open
  /\ stream.read = None
  /\ Len(stream.inbox) < MaxInbox
  /\ stream' = [stream EXCEPT !.read = execStatus[stream.id]]
  /\ UNCHANGED <<lifecycleVars, shown, effectKey, calls, disturbances>>

SlipTasksStayLoaded ==
  [Snapshot(stream.id, stream.read) EXCEPT
     !.unfinished = IF stream.sent = None THEN @ ELSE stream.sent.unfinished]

\* db.expire_all before each poll: the tasks are loaded afresh as well.
Payload == Snapshot(stream.id, stream.read)

\* A payload that differs from the last one is sent, a verdict is followed by
\* the done event.  Columns a snapshot abstracts from (otherColumns) may have
\* changed alone.
PollTasks ==
  /\ stream # None
  /\ stream.open
  /\ stream.read # None
  /\ \E otherColumns \in BOOLEAN :
       IF Payload = stream.sent /\ ~otherColumns
       THEN stream' = [stream EXCEPT !.read = None]
       ELSE stream' = [stream EXCEPT !.read = None, !.sent = Payload,
                                     !.inbox = @ \o EventsFor(Payload),
                                     !.open = Payload.status \notin Terminal]
  /\ UNCHANGED <<lifecycleVars, shown, effectKey, calls, disturbances>>

\* sse_max_seconds are over: the generator returns without a done event.
Deadline ==
  /\ stream # None
  /\ stream.open
  /\ stream.read = None
  /\ Disturb
  /\ stream' = [stream EXCEPT !.open = FALSE]
  /\ UNCHANGED <<lifecycleVars, shown, effectKey, calls>>

\* The connection breaks, with whatever was on its way.
Drop ==
  /\ stream # None
  /\ stream.open
  /\ Disturb
  /\ stream' = [stream EXCEPT !.open = FALSE, !.read = None, !.inbox = <<>>]
  /\ UNCHANGED <<lifecycleVars, shown, effectKey, calls>>

-----------------------------------------------------------------------------
(* The client's side of the stream.                                        *)

SlipSubscribeUnlessOpen ==
  /\ ~Rendered
  /\ effectKey' = Key(shown)
  /\ stream' = IF Working(shown) /\ stream = None THEN NewStream(shown.id) ELSE None
  /\ UNCHANGED <<lifecycleVars, shown, calls, disturbances>>

\* The effect runs again, because what it depends on has changed: its cleanup closes
\* the old EventSource, and an execution that is still working gets a new one.
Render ==
  /\ ~Rendered
  /\ effectKey' = Key(shown)
  /\ stream' = IF Working(shown) THEN NewStream(shown.id) ELSE None
  /\ UNCHANGED <<lifecycleVars, shown, calls, disturbances>>

Received(type) == stream # None /\ stream.inbox # <<>> /\ Head(stream.inbox).type = type

ReceiveUpdate ==
  /\ Received("update")
  /\ shown' = Head(stream.inbox).data
  /\ stream' = [stream EXCEPT !.inbox = Tail(@)]
  /\ UNCHANGED <<lifecycleVars, effectKey, calls, disturbances>>

ReceiveDone ==
  /\ Received("done")
  /\ stream' = None
  /\ UNCHANGED <<lifecycleVars, shown, effectKey, calls, disturbances>>

Request(purpose, e) == [purpose |-> purpose, id |-> e, read |-> None, answer |-> None]

\* onerror: the stream ended before its done event; ask once, never subscribe
\* again.
StreamError(c) ==
  /\ stream # None
  /\ ~stream.open
  /\ stream.inbox = <<>>
  /\ calls[c] = None
  /\ calls' = [calls EXCEPT ![c] = Request("snapshot", stream.id)]
  /\ stream' = None
  /\ UNCHANGED <<lifecycleVars, shown, effectKey, disturbances>>

-----------------------------------------------------------------------------
(* The user, and REST calls.                                               *)

Creating(e) == \E c \in Calls : calls[c] # None /\ calls[c].purpose = "create" /\ calls[c].id = e

\* `busy` disables the form while a submission is under way or the execution on
\* the screen is still working.
Busy == Working(shown) \/ \E e \in Executions : Creating(e)

Submit(c, e) ==
  /\ calls[c] = None
  /\ ~Busy
  /\ execStatus[e] = "ABSENT"
  /\ calls' = [calls EXCEPT ![c] = Request("create", e)]
  /\ UNCHANGED <<lifecycleVars, shown, effectKey, stream, disturbances>>

\* A click on a recent execution.  One that asks for what is on the screen, or
\* that does not wait for the screen and for earlier answers, is hasty.
OpenExecution(c, e) ==
  /\ calls[c] = None
  /\ execStatus[e] # "ABSENT"
  /\ IF Rendered /\ ~Shows(e) /\ \A d \in Calls : calls[d] = None
     THEN UNCHANGED disturbances
     ELSE Disturb
  /\ calls' = [calls EXCEPT ![c] = Request("open", e)]
  /\ UNCHANGED <<lifecycleVars, shown, effectKey, stream>>

\* create_execution commits the new row.
ServerCreates(c) ==
  /\ calls[c] # None
  /\ calls[c].purpose = "create"
  /\ Create(calls[c].id)
  /\ UNCHANGED <<shown, effectKey, stream, calls, disturbances>>

ReadExecution(c) ==
  /\ calls[c] # None
  /\ calls[c].read = None
  /\ execStatus[calls[c].id] # "ABSENT"
  /\ calls' = [calls EXCEPT ![c].read = execStatus[calls[c].id]]
  /\ UNCHANGED <<lifecycleVars, shown, effectKey, stream, disturbances>>

SlipAnswerUnread(c) ==
  /\ calls[c] # None
  /\ calls[c].answer = None
  /\ calls' = [calls EXCEPT ![c].answer = Snapshot(calls[c].id, calls[c].read)]
  /\ UNCHANGED <<lifecycleVars, shown, effectKey, stream, disturbances>>

ReadTasks(c) ==
  /\ calls[c] # None
  /\ calls[c].read # None
  /\ calls[c].answer = None
  /\ calls' = [calls EXCEPT ![c].answer = Snapshot(calls[c].id, calls[c].read)]
  /\ UNCHANGED <<lifecycleVars, shown, effectKey, stream, disturbances>>

\* The answer arrives: startExecution, or applySnapshot of a one-shot snapshot.
\* Either shows it, whatever is on the screen by now.
Deliver(c) ==
  /\ calls[c] # None
  /\ calls[c].answer # None
  /\ shown' = calls[c].answer
  /\ calls' = [calls EXCEPT ![c] = None]
  /\ UNCHANGED <<lifecycleVars, effectKey, stream, disturbances>>

\* The call fails: an error message, or nothing for a one-shot snapshot.
CallFails(c) ==
  /\ calls[c] # None
  /\ Disturb
  /\ calls' = [calls EXCEPT ![c] = None]
  /\ UNCHANGED <<lifecycleVars, shown, effectKey, stream>>

-----------------------------------------------------------------------------
Poll == PollExecution \/ PollTasks
Receive == ReceiveUpdate \/ ReceiveDone \/ (\E c \in Calls : StreamError(c))
CallStep(c) == ServerCreates(c) \/ ReadExecution(c) \/ ReadTasks(c) \/ Deliver(c)
UserStep == \E c \in Calls : \E e \in Executions : Submit(c, e) \/ OpenExecution(c, e)
Interrupt == Deadline \/ Drop \/ (\E c \in Calls : CallFails(c))

ViewNext ==
  \/ TablesStep
  \/ Poll
  \/ Receive
  \/ Render
  \/ \E c \in Calls : CallStep(c)
  \/ UserStep
  \/ Interrupt

ViewSpec == ViewInit /\ [][ViewNext]_viewVars

\* The generator polls on a timer, the browser dispatches what has arrived and
\* runs effects, calls are answered.  Users owe nothing, nor do executions.
Fairness ==
  /\ WF_viewVars(Poll)
  /\ WF_viewVars(Receive)
  /\ WF_viewVars(Render)
  /\ \A c \in Calls : WF_viewVars(CallStep(c))

FairViewSpec == ViewSpec /\ Fairness

-----------------------------------------------------------------------------
\* README:383-385: what a user sees of an execution with a verdict is final: a
\* completed one never shows a task that is still at work.  The status is read
\* first, in its own statement, while workers go on.
NoTornVerdict ==
  shown # None /\ shown.status = "COMPLETED" => shown.unfinished = {}

\* App.jsx:91-119, although answers and events arrive before the effect has run
\* for what is on the screen: once it has, an open subscription is one to the
\* execution on the screen, and there is none for a finished execution.
SubscribedToWhatIsShown ==
  Rendered /\ stream # None => Working(shown) /\ stream.id = shown.id

\* ExecutionView.jsx:29 "this updates automatically": as long as no stream was
\* cut, no call failed and nobody clicked in haste, a working execution on the
\* screen has an open subscription.
WorkingViewIsWatched ==
  disturbances = 0 /\ Rendered /\ Working(shown) => stream # None

\* ExecutionView.jsx:29 again, README:383-385 "live without polling": the verdict
\* on the execution on the screen appears there.
UpdatesAutomatically ==
  \A e \in Executions :
    (Shows(e) /\ execStatus[e] \in Terminal) ~> (~Shows(e) \/ ~Working(shown))
=============================================================================
