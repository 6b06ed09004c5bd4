# Verification of skel: workflows, enrollment, jobs, and its web applications

`skel` is a Scala/sbt framework of some forty service modules, with a few React
applications in front of them. This directory holds TLA+ specifications of the
parts that have logic of their own and meet something concurrent - threads,
actors, external services, promises, timers, sockets - the TLC configurations
that check them on small instances, and theorems that TLAPS proves about them
for every instance.

Run `tlc -config X.cfg M` and `tlapm M.tla` in this directory. `PROJECT.json`
lists the runs, the source lines every definition stands for, the hazards and
the findings. Paths below are relative to `src/`.

## 1. The system

### Inventory

| part | state it keeps | operations | how it meets the others | what is hard |
|---|---|---|---|---|
| **skel-wf thread runtime**: `WorkflowEngine`, `Workflowing`, `Executing`, `Linking`, `RunningThread` | per link a bounded queue and a `terminated` flag; per exec a status; per workflow a status record | spawn, start, emit, stop, respawn, remove | a worker thread per link runs `onEvent` of the exec the link points to, which puts into the queues of the next links | blocking puts, a stop that races with events, a `TerminateExec` that stops the workflow on one of its own threads, exceptions that end a thread, retries |
| **skel-wf state stores**: `WorkflowStateStoreMem`, `WorkflowStateStoreDir` | id -> record with the commits of the execs; a file per record | `+`, `del`, `update`, `commit` | called by every worker and by the caller that starts or stops | read-modify-write without a lock, file and map written in different orders |
| **skel-wf execs** | `JoinExec` and `CollExec` collect events; the rest is stateless or I/O | `exec` | called by the worker of every link into them, at once | unlocked collection by several workers |
| **skel-enroll flow**: `EnrollFlow` (manager), `EnrollState` / `EnrollEvent` (session), the listener | maps of actors; the persisted session; the arguments of StartFlow | StartFlow, ContinueFlow, AddEmail, ConfirmEmail, CreateUser, Finish, UpdatePhase, Info | the session persists and answers to the listener, which mails, creates users and tells the session what comes next | messages of two senders in any order, crashes between a service call and the persisted answer, services that answer too late, failed writes |
| **skel-job**: `JobStore`, `JobEngine`, `Minions` | list of running jobs, store of jobs; queue of minions | enqueue, the watcher's pass, submit, delete; add, process | a watcher thread polls an external engine | the pass over the list overwrites what was enqueued meanwhile |
| **skel-odometer**: `OdoStoreCache` | cache and dirty set in front of a store | update, `++`, flush | a timer flushes | an update between the write and the clearing of the dirty set |
| **skel-notify**: `NotifyStoreMem`, `NotifyRegistry`, senders | notifications per user with acknowledgement flags | `+`, notify, ack | broadcasts over WebSocket, mail, SNS, ... | loss between store and senders |
| **skel-core**: `WebSocket`, `StoreDir`, `AwaitableService`, caches | clients per topic; `loading` flag | join, leave, broadcast; load, `+`, `del` | used by all services | map changes outside the lock; writes suppressed while loading |
| **ext-helicopter** (`skel-viz/ext-helicopter/src`): diagram editor | the canvas of nodes and edges, the open panels, an interval, snapshots in localStorage and in files | connect, add, delete, select, search, edit, save, restore, import, export, clear, poll, load a topology | asks the service for the contracts of the project the top panel has chosen; its nodes draw themselves with `CustomNode` | answers of another project or of an older canvas, copies of the selection in the panels, one interval for changing props |
| **ext-helicopter**: custom node | text, prompt, answer; the data object of the node | type, submit, answer, mount and unmount | writes into the data object of the editor's node, which the editor replaces by copies | closures that hold an object which has been replaced, two effects that copy into each other |
| **ext-helicopter**: top panel and session (`TopPanel`, `App`, `TopMenu`, `keycloak`, `extractor`) | lists and choices of tenants and projects, twice; tokens in localStorage, in keycloak-js and at Keycloak | choose, log in, paste a token, log out, refresh, reload | sets the project the editor polls | answers out of order, a refresh that overlaps a logout, pages that leave and come back |
| **aw-dashboard** (`skel-viz/aw-dashboard/src`) | aircraft, hexagons, selections; a WebSocket that opens itself again | report, click, draw, search, edit, submit, drop, reconnect | a server sends reports of aircraft | two connections after a remount, reports twice and late, ids that change |
| **auth-login** (`skel-auth/auth-frontend/auth-login/src`) | the login and the last result, in React and in localStorage | log in by wallet, Google or Twitter, call the API, log off, reload, come back from Twitter | external identity services and the API | every answer is written into the state captured by its click |
| skel-cron, -syslog, -user, -auth, -ingest, -otp, -plugin, -telemetry, -tag, -video, -crypto, -ai, -blockchain, -tools, -pdf, -cli, -dns, -kafka, -http, -dsl, -serde, -spark, -tls, -db, -scrap, -stream, -flow, -protobuf, -test | CRUD registries, clients of external services, pure functions, samples | | | little: the concurrency is that of Akka Streams, Quartz, Kafka |

What makes the parts correct:

* **workflow runtime** - no event is lost, repeated or reordered on a path that
  is not stopped; full queues do not block the workflow for ever; a stop ends
  every thread, and the workflow and its record then say so; a worker does not
  go on through its queue once it is told to end.
* **state stores** - no commit is lost, the file and the map agree after a
  restart, a removed workflow stays removed.
* **enrollment** - a user is created only with an email whose own token came
  back, once per confirmation whatever crashes; a finished session stays as it
  is and has a user; an accepted confirmation gets to the end; a session
  started gets to the phase that waits for the user.
* **jobs** - every job that was enqueued is watched until it is finished, and
  reported once. **odometer** - an acknowledged update reaches the store.
  **notify** - a notification that was not delivered can still be found.
  **websocket** - a client that joined and has not left is in the map.
* **diagram editor** - one interval polls, for the current project; figures are
  on the node they belong to; no edge loses its end by a deletion; a panel shows
  the element an edit in it will change. **custom node** - what is on the screen
  is what Save writes. **top panel** - the page works with the project that is
  shown, which is one of the projects of the tenant; a logout is not undone.
* **dashboard** - one connection; an aircraft is on the map once, at the place
  of the last report that is news; the panel of a hexagon edits that hexagon.
  **login page** - it stays logged in as whoever came last, and finds that again
  after a reload; a code of Twitter's is sent once.

### Components not modelled

`PROJECT.json` gives a reason for each. In short: the CRUD services keep their
state in one actor and have no interleaving to speak of; ingest and syslog are
assembled from Akka Streams and Kafka, whose semantics are the library's;
crypto, DSL, JSON and PDF are functions of their input; the clients of external
services (AI, chains, DNS, HTTP) are I/O, and so is the monitor of `polka/xcm`,
which prints the events of one block after the other and keeps nothing.

Small stateful parts that are left out, with what can go wrong in them: the
collecting execs (`JoinExec.scala:25`, `CollExec`, no lock), `Minions.scala:122`
(`process` replaces what was added meanwhile), `OdoStoreCache.scala:34` (an
update between the write and the clearing of the dirty set),
`WorkflowStateStoreDir.scala:37` (file and map written in different orders),
`WorkflowEngine.scala:43` (a commit after the removal), `JobStoreMem.scala:34`
(two threads on one map), `WebSocket.scala:56` (map changes outside the lock),
`StoreDir.scala:120` (writes suppressed while loading). Each is a race of two
threads on a field or a map, without a protocol around it to state properties of.

## 2. The modules

| module | what | checked by | proved in |
|---|---|---|---|
| `WfRuntime` | the thread runtime of workflows and the record it updates | `wf_flow`, `wf_stop`, `wf_record_stopped` | `WfRuntimeProofs` |
| `EnrollFlow` | manager, session, listener, services, crash | `enroll`, `enroll_live` | `EnrollFlowProofs` |
| `JobFsm` | job store, watcher thread, engine, restarts | `jobs`, `jobs_live` | `JobFsmProofs` |
| `DiagramEditor` | the canvas, its panels, the interval and the snapshots | `diagram` | `DiagramEditorProofs` |
| `CustomNode` | one node and the data object it shares with the editor | `node` | `CustomNodeProofs` |
| `TopPanel` | tenants, projects, tokens and Keycloak | `session` | `TopPanelProofs` |
| `Dashboard` | connections, aircraft and hexagons | `dashboard` | `DashboardProofs` |
| `Fleet` | abstract: what the map promises of aircraft | implemented by `Dashboard` | `DashboardProofs` |
| `AuthLogin` | the state of the login page, its calls and localStorage | `login` | `AuthLoginProofs` |

The order was that of the hazards: first the threads and actors of the services,
then the applications, whose state is reached by promises, timers and sockets.
The three models of ext-helicopter meet at narrow places, and each has the other
as its environment: the top panel gives the editor a project (`SetProps` in
`DiagramEditor`, `app` in `TopPanel`), and the editor replaces the data object
under a node (`Copy`, `OnRestore`, `OnDelete` in `CustomNode`). Every order of
these is allowed, so that no composition is needed to see what they do to each
other.

**How React is modelled.** What the user does is rendered, with the effects of
that render, before anything else happens, as React does for discrete events:
one action. What a promise, a timer, a socket or a file reader sets is queued
and rendered by an action `Render` of its own; until then handlers and closures
see the values of the older render, and functional updates those of the queue.
`StrictMode`, in which development builds mount twice, is part of `Dashboard`
(`Remount`) and `AuthLogin` (`Arrive`), where it changes what happens.

**What is left.** A *pipeline* (a set of pairs event, exec that only grows, and
is complete at rest) which `WfRuntime` implements when it is not stopped, and an
*enrollment* (submitted, confirmed, user created, finished) which `EnrollFlow`
implements when writes do not fail, would be worth stating, as `Fleet` is for the
dashboard. Every safety property that a passing run checks is a theorem; what
remains to be proved is that the two services implement those abstractions.

## 3. WfRuntime

One workflow that has been spawned. `Links` is the list of `Workflow.links`, and
`Link` the indices of it: `RunningThread` number `l` has `queue[l]`,
`terminated[l]` and `worker[l]`, which is where `run` stands: `new` before
`start()`, `take` in `queue.take`, `busy` behind it, `done` after the loop.
`prog[t]` holds what thread `t` (a worker or a caller of the engine) has still
to execute, one statement for each access to something other threads see. So
`StopProgram` is the sequence of `WorkflowEngine.stop`: the execs, then flag and
wake-up for link after link, then the record.

| definition | code (`skel-wf/src/main/scala/io/syspulse/skel/wf/`) |
|---|---|
| `Outlets`, `InLink`, `BroadcastLinks`, `ErrorLinks` | `addOut`, `addIn`, `broadcast`, `send` of `runtime/Executing.scala`: of two links on a let the last is kept, outlets that start with "err" get no data |
| `LoopTest`, `Take` | the loop of `runtime/thread/RuntimeThreads.scala`, 21-28 |
| `SendStep`, `SendDone` | `Linking.input` and the blocking `queue.put` |
| `ExecStep`, `ExecThrow`, `AfterExec` | `Executing.onEvent`: what follows on the outcome of `exec()`, the retry loop, the error outlet; an exception ends the thread |
| `StopStep` | `RunningThread.stop`: flag, then the wake-up as an ordinary blocking put |
| `ReadStep`, `WriteStep` | the two halves of `update` and `commit` of `store/WorkflowStateStoreMem.scala` |
| `StartCall`, `EmitCall`, `StopCall` | `WorkflowEngine.start`, `Workflowing.emit`, `WorkflowEngine.stop` |

`exec()` itself is external: `Outcomes[x]` says what an exec may return (data,
an error, a request to stop, an exception), `Units[x]` how often it broadcasts
(`SeqExec`). `late`, `log` and `updates` are history variables.

**Runs.**

* `wf_flow` (106 000 states): a fork and a join, so that two workers put into one
  exec, an exec that explodes its input, fails and retries, and an error outlet,
  with two events over queues of two so that puts block. At rest the worker of
  every link has finished each event as often as the exec before put it out
  (`Conservation`; `log` records which thread finished what), events are executed
  in the order they were sent where one thread executes each of two execs
  (`InOrder`; `Executors` are the workers of the links into an exec and the
  callers that emit to it), the workers
  never all wait for each other (`NoGridlock`), and with fair workers the
  workflow comes to rest after its last event (`Drains`).
* `wf_stop`: stop from outside, stop by a `TerminateExec`, an exec that throws,
  a workflow with and without a record, and two threads that use the engine:
  `App` and an exec with a thread of its own (`CronExec`, `FifoExec`,
  `HttpServerExec`), whose event may come before `start()` has returned
  (`EarlyEvents = TRUE`). Room for every event in the queues.
  Every thread ends (`StopCompletes`), the workflow says it is stopped once a stop
  is over that began after `start()` had returned (`StateIsStopped`; the history
  variable `begun` says that there was one), and a terminated link delivers at
  most one event more (`LateBound`). 701,359 states, 2.5 minutes.
* `wf_record_stopped`: a commit that read the record before the stop writes
  RUNNING back over STOPPED.

Two more disagreements with `skel-wf/README.md` show when the constants are
changed. With `QueueSize = 1`, `MaxEmits = 3`, `Callers = {main}` and
`InitialStates <- MCNotRecorded` in `MCWfStop.cfg`, `StopCompletes` fails: the
wake-up of `RuntimeThreads.scala:45-47` is put into a full queue whose worker has
seen the flag and ended, against `runtime stop` of `README.md:42`. And a stop that
began while `start()` was running can be lost: `start()` writes RUNNING last
(`WorkflowEngine.scala:209`), after the workers and the threads of the execs run,
so RUNNING is written over the STOPPED of a `TerminateExec` which an early event
reached. With `updates = {"RUNNING", "STOPPED"}` in the place of `begun`,
`StateIsStopped` speaks of that stop too and fails. What it guarantees is the
rest: early events, and early stops that are lost, do no harm to a stop that
begins later.

**Bounds.** Two events (`wf_stop`: one) and one stop from outside:
two events are what it takes to overtake, to fill a queue of one or two and to
have one event in a worker and one behind it. A worker and a queue are of the
same kind on every link, so three or four links show each relation two links
can have: in line, forked, joined, error. `MaxEmits`, `MaxStops` guard the
calls; queues, retries and units are bounded by their constants.

**Fairness.** `FairSpec` has weak fairness for each worker and for each caller
inside a call: the JVM runs every thread that can run, and a `put` or `take`
that stays possible is made. Nobody has to call the engine, and there is no
fairness for calls. `CHECK_DEADLOCK FALSE`: workers at rest wait in `take`.

**Not modelled.** `spawn` before its end (assembly of the mesh, class loading);
`remove` and `respawn` beyond the record a respawned workflow starts with;
threads of `CronExec`, `FifoExec` and `HttpServerExec` except as callers that
emit; other error outlets than `err-0`; the second error event that
`ScriptExec`, `FileReadExec` and `FileWriteExec` send themselves; the order in
which a `Map` of more than four outlets is traversed (the model keeps the order
of the links); the attribute `retry.max` changing between retries; stale reads
of the plain `var states` under the Java memory model. A link back to an
earlier exec is allowed by the model, and excluded from `NoGridlock` by
`Acyclic`, since the code does block there.

## 4. WfRuntimeProofs

Proved for every mesh, queue size, set of callers and mix of outcomes, from
`RuntimeAssumption` (types of the constants; a caller is not a link):

* `TypeCorrect`: `Spec => []TypeOK`. The one step with content is the put: the
  capacity bound holds since a put waits for room.
* `LateBounded`: `Spec => []LateBound`. Not inductive: nothing says that a
  worker which delivered an event after its flag was set goes on to see the
  flag. `LateInv` adds it: a link that delivered a late event is terminated,
  and its worker is busy or done, so the next thing it does is the test.
* `GridlockFree`: `Spec => []NoGridlock`. `OwnWork`, the strengthening, says
  that everything a worker has still to put goes out of the exec its link
  leads to, unless it belongs to a stop. If every worker waited, take the set of
  links waited for; `Acyclic` gives a last one, and its worker, which would
  have to wait for a link behind it, can move.

* `AlwaysInOrder`: `Spec => []InOrder`. `FlowInv` follows an event from hand to
  hand. `Chain` says that the log of the exec before a link, the log behind it,
  the event its worker has in hand and those in its queue fit together: read in
  this order, what is behind never gets ahead of what is in front. `SendInv` ties
  what a thread has still to put to the last entry of its log, and `LoneCall`
  says that a thread in front of an `exec()` has nothing else to do, so that no
  older send can come after it.
* `AlwaysConserved`: `Spec => []Conservation`. `Even(l, d)` is the balance of
  link `l` and event `d`: finished by its worker, in its hand, in its queue, and
  still to be put by any thread, add up to what the exec before made of it. The
  sends still to be put are counted as pairs of a thread and a place in its
  program, and places are counted from the end, so that a step at the front
  leaves the others where they are. An exception ends a worker with what it had
  in hand, and breaks the balance; so `BalInv` says that some worker has ended or
  every link is even, and at rest none has ended. That a worker which has ended
  stays so is not obvious, since `RunningThread.start` makes a worker run:
  `RunInv` says that there is at most one `start()` on its way and that it only
  has links before it whose worker is new. Callers that emit into a link put out
  events of no exec, and `Conservation` leaves those links (`Fed`) out.
* `AlwaysStateIsStopped`: `Spec => []StateIsStopped`, for any number of callers
  and with early events. `StartInv` says that what is left of `start()` is with one
  caller, that no other thread has a statement left that says RUNNING (`Quiet`),
  and that none has once `start()` has returned. `StopInv` says that a stop which
  began after that has its work done or ahead: the execs are stopped or some thread
  still has to stop them, the state is STOPPED or some thread still has to write
  it; no statement can undo either, since what says RUNNING is gone. A write is
  preceded by its read (`ReadInv`), so that the update is not lost to a missing
  record. `ExecAlone` is why a `TerminateExec` that throws or ends takes no other
  stop with it: a thread at an `exec()` has nothing else to do.

Only model-checked: `Drains` and `StopCompletes`, which are liveness under
fairness and out of the prover's reach. `RecordIsStopped` is false.

## 5. EnrollFlow

One session (sessions share nothing), the three actors and the two services.
`stored` is what the journal and the durable-state table hold, by kind of
session: `ContinueFlow`, `AddEmail` and `ConfirmEmail` revive a session with
`find(eid, "state")` even in a system that was built for events, which is why
there are two. `mailbox` and `replies` are the mailboxes of the session and of the
listener; messages of a sender stay in order, those of the manager and the
listener to the session interleave as their sends do. `at` is the phase the
listener is in with the summary it works from: `nextPhase` calls itself, and
every service call in it is a step of its own.

| definition | code (`skel-enroll/src/main/scala/io/syspulse/skel/enroll/`) |
|---|---|
| `StartFlow`, `Find`, `Forward`, `GetSummary` | `onMessage` and `find` of `flow/EnrollFlow.scala` |
| `StateStart` ... `StateFinish`, `IsFinished` | `State` of `flow/Enrollment.scala` |
| `Execute`, `Reject`, `ExecuteContinue`, `ExecuteInfo`, `Ignore` | `startNewEnroll` and `finishedEnroll` of `flow/state/EnrollState.scala` |
| `NoMatch` | the missing cases of `flow/event/EnrollEvent.scala` |
| `ListenerAsk`, `ListenerTimeout`, `Receive` | the setup and `onMessage` of the listener, `EnrollFlow.scala` 75-187 |
| `Advance`, `Phase...`, `ServiceLost` | the cases of `nextPhase`, 89-155, with `flow/phase/*.scala` |
| `Crash` | the maps 55-58 are empty again; the session is what was persisted |

Services are external: `ok`, `refused` (an error is returned) or `lost` (the
await throws; the call may or may not have had its effect).

**Runs.** `enroll`: two emails, two confirmations, one continuation, one crash,
one failed write, every behaviour of the services, both kinds (1.8 million
states): a user is created only with an email whose token came back
(`UserConfirmed`), once per accepted confirmation and continuation
(`UsersBounded`); a finished session has a user (`FinishedHasUser`) and stays as
it is (`FinishedForever`). `UserConfirmed` excepts a failed write *followed by* a
continuation: then a repeated Start replaces the email of a token that is on its
way. `enroll_live`: services that answer, fair actors, no crash:
`ConfirmedFinishes`, `StartedWaits`.

Three disagreements with documents and tests show in variants of
`MCEnrollLive.cfg`. With `Spec` and the invariant `TokenIsSpent`: the token of a
confirmation stays in the state and is taken again (`Enrollment.scala:74`;
`EnrollStateSpec.scala:61` expects it gone). With `Spec` and the property
`ConfirmationKept`: an `UpdatePhase` of the listener overwrites a confirmation in
the store (`EnrollFlow.scala:113`, against `skel-enroll/README.md:53`). With
`EnrollTypes = {"event"}`, `StartedWaits` fails: a session kept as events never
gets to the email, since `EnrollEvent.scala:86` has no case for what the listener
asks.

**Bounds.** Two emails and two confirmations let an email overtake a
confirmation and a confirmation be repeated; one crash may fall between any two
steps, and one continuation revives the session after it. A token is the number
of the `AddEmail` that drew it: `generateRandomToken` is taken never to repeat.

**Fairness.** Weak fairness of the session and of the listener: the dispatcher
runs every actor that has a message. None for clients, crashes or failures.
`CHECK_DEADLOCK FALSE`: a session that waits for its user may wait for ever.

**Not modelled.** `AddPublicKey` (nothing sends it to the session), HTTP routes
and summaries, the text of mails, several sessions, timers of akka persistence.

## 6. EnrollFlowProofs

Proved for every flow made of phases the listener knows, every set of emails,
every behaviour of the services and any number of calls, crashes and failed
writes, from `EnrollAssumption`:

* `FinishedStays`: `Spec => FinishedForever`, an action property. What could
  change a finished session is a StartFlow of the same enrollment, a command
  that is still in the mailbox, and a crash, which forgets a session in START and
  the flow of one that is kept as events. `KindInv` excludes each: nothing is
  finished before the start; a session kept as events never finishes, since its
  listener never gets up and nobody else sends Finish; and one kept as state
  that has finished is in FINISH_ACK. `TypeInv` gives the types this needs,
  without the bound on the tokens, which counts messages.

The others assume `OrderedFlow`, which says of the constant `Flow` what the flows
of `skel-enroll` satisfy and `MCEnroll` asserts of its flow: a phase that works
with the result of another comes right after that one (`FollowsOnly`), and START
is only the first. A flow is a string the caller of `EnrollSystem.start` gives, and
for one that does not keep to this, such as `START,START_ACK,CREATE_USER`, TLC
finds a user that nobody has confirmed.

* `TypeCorrect`: `OrderedFlow => (Spec => []TypeOK)`. The bound of the tokens is
  the content: the token of the session and the `AddEmail`s in the mailbox are
  together no more than those asked for (`TokenInv`).
* `AlwaysUserConfirmed`. A confirmation is on its way from the session to the
  listener in the summary of a reply, and the state of the session may be
  another by the time it is read. `Work` collects every summary the listener
  works from or will; `MailInv` says that a token which is mailed, or about to be,
  belongs to the email the session had when it drew it; `VouchInv` that the
  summaries which lead to a user have an email whose token came back. A repeated
  Start could replace the email, and `StartInv` says why it does not: the only
  Start, unless the session was continued after a failed write, is first in the
  mailbox and meets a session without a token.
* `AlwaysUsersBounded`. `CountInv`: users, the one the listener is about to create,
  the confirmations it has not read and the Continues in the mailbox are together
  no more than the confirmations accepted and the continuations.
* `AlwaysFinishedHasUser`. `UserInv`: a message that gives the session a user
  names one that was created, and Finish comes only to a session with a user.

Only model-checked: the liveness of `enroll_live`.

## 7. JobFsm

The store of jobs, the registry actor that submits and deletes them, the one
thread that watches them, and the engine. `list` is `runningJobs`; a pass of the
watcher reads it once (`PassStarts`), works through `todo`, collects in `kept`
what `flatMap` will give, and assigns it at the end (`PassEnds`). Between, for
each job: the request to the engine, the change in file and map (`StoreJob`), the
report (`ReportJob`). `jobs` is the map of `JobStoreMem`, `files` the directory.
The registry's `enqueue` reads and assigns the same list, in two steps, and
nothing keeps them apart from a pass: a job that is submitted meanwhile is lost
to the watcher. The history variable `overlapped` says that this has happened;
the properties say what holds until then.

| definition | code (`skel-job/src/main/scala/io/syspulse/skel/job/`) |
|---|---|
| `SubmitSession`, `SubmitAdd`, `EnqueueRead`, `EnqueueWrite` | `submit` and `enqueue` of `store/JobStore.scala`, `+` of `store/JobStoreDir.scala` |
| `DeleteFile`, `DeleteJob` | `del` of `JobStoreDir` (file), then of `JobStoreMem` (the session; the record stays) |
| `PassStarts` ... `PassEnds` | the loop of `startFSM`, `JobStore.scala` 54-153, one action per case of its match |
| `FromSession`, `FromStatement` | the two `toJob` of `livy/LivyHttp.scala`; `tsEnd` is defined as soon as there is a statement |
| `EngineRefuses`, `EngineLost` | a status that is not OK, 99-104; an `Await.result` that throws and ends the watcher |
| `Restart`, `Loaded` | `load` and `loaded` of `JobStoreDir.scala`: every job that is not finished is enqueued |

The engine is external: a session starts or dies, a script ends well or not, and
a request is answered, refused, or its answer is lost (with or without effect).

**Runs.** `jobs`: two jobs, a request to delete one, a restart, every answer of
the engine (1.0 million states up to exchange of the jobs). An unfinished job is
in the list (`Watched`), list and store agree between passes (`Agreement`), a
script is started once and an end reported once for each life of the process
(`RunsBounded`, `ReportsBounded`), what is reported has ended in the store
(`ReportedHasEnded`). `jobs_live`: a job gets to its end (`JobEnds`), unless the
watcher dies or an overlap loses it.

**Bounds.** Two jobs are one in its turn and one before or behind it or being
submitted; jobs do not otherwise meet. One restart can fall between any two
steps, one deletion likewise; liveness is about a single job.

**Fairness** (of `jobs_live`). The watcher is a thread that polls for ever, the
registry finishes a request it has begun, and the engine gets on with a session
or a script. There is none for submits, deletions and restarts. `CHECK_DEADLOCK
FALSE`: when the watcher is dead and the bounds are used up, nothing happens any
more.

**Not modelled.** States of the engine other than those that drive the match
(`not_started`, `running`, `busy` take the branches of `starting` and `waiting`);
sessions that die while idle (they look like a refusal); the race of the two
threads on the map itself (`jobs = jobs + ...` is one step here); the text of
scripts and notifications; whether the notification arrives.

## 8. JobFsmProofs

Proved for every finite set of jobs, every set of answers and every number of
deletions and restarts, from `JobAssumption`:

* `TypeCorrect`: `Spec => []TypeOK`, strengthened by what the watcher holds while
  it is at a job (`TypeInv`). No run repeats this.
* `AlwaysWatched`: `Spec => []Watched`, and `AlwaysAgreement`:
  `Spec => []Agreement`. Neither is inductive alone: at the end of a pass the
  list becomes what the pass has kept, so the invariant (`WatchInv`) speaks of
  `kept` and `todo` during a pass - together they hold every unfinished job, each
  at most once, with the state of the store - and of the list between passes; and
  what the registry is about to append is in neither (`AddInv`, `PassInv`).
  After a restart the list is a bijection onto the files, which gives both.

* `AlwaysRunsBounded` and `AlwaysReportsBounded`: a script is started, and an end
  reported, once at most for each life of the process, or a submit has
  overlapped. `RunInv` says that where a record does not have its end set - in
  the list, in either part of the pass, or at the job the watcher is at - the
  script has not been started in this life; `ReportInv` the same of reports for
  every job the watcher may still come to.
* `AlwaysReportedHasEnded` holds after an overlap too, when the watcher works on
  from entries that are older than the store. `CopyInv`: the list, what the
  registry read of it and the pass are copies of one entry, of which the one in
  the pass is the newest (`Follows`); a copy that says the job has ended is never
  ahead of the store (`ClosedInv`).

Only model-checked: `JobEnds` (liveness).

## 9. DiagramEditor and DiagramEditorProofs

The canvas of `ext-helicopter/src/components`. `nodes` and `edges` are the state
with every queued update applied, `shown` what is rendered. `panels` holds the
copies `NodePropertyPanel` and `EdgePropertyPanel` take of the selection, `timers`
the live intervals and `timerRef` the one the ref knows. A node has an id, a title
(which stands for the fields the panel writes twice), telemetry (the id of the
contract the figures are of), a network and a flag; the default project has two
nodes with one id, so ids need not be unique, and React Flow's map by id keeps the
later.

The network is apart from the other fields. Title, address, icon and tags are
written to the node's data and to the panel's copy at once; a network goes to the
data only, and `NetworkDropdown` shows a copy of its own, taken when it is mounted
and whenever the network of the node *as it was selected* is another than that of
the node before (`Opened`). `Looked` is `networksMap.get`: a uid that is no key
of the map shows nothing.

| definition | code |
|---|---|
| `PollEffect`, `SetProps`, `Tick` | the effect on `projectId` and `refreshFreq`, `DiagramEditor.tsx:102-142` |
| `Ask`, `UpdateCounters`, `TopologyAnswer`, `LoadFails` | `loadDashboard` before and after its await, what its two callers do |
| `OnConnect` ... `OnNodesDelete`, `Select`, `Search` | the handlers given to React Flow, and the effect on the search text |
| `Listened`, `OnSelectionChange` | React Flow calls the handler when other ids are selected than before |
| `Opened`, `EditNetwork` | `NetworkDropdown.tsx:10-22`, and the choice of a network, `NodePropertyPanel.tsx:74-91` |
| `EditNode`, `EditNodeId`, `EditEdge` | the other fields of the two panels and the updates behind them |
| `OnSave` ... `Imported`, `HandleClearAll` | the sidebar; `Imported` is `reader.onload`, any time after the choice of a file |

**Run** `diagram` (726,300 states): one interval polls, for the current props
(`OnePoller`); the figures of a node are those of its own contract, whichever
answers arrive (`TelemetryIsOwn`); edges have their ends but for the ways out
that leave them (`EdgesAnchored`: Clear, a changed id, a connection while the
canvas is replaced); a panel shows the one element that is selected
(`PanelShowsSelection`) and its copies agree with the canvas but for a snapshot
that replaced it and for the dropdown below (`PanelFresh`).

**What the dropdown does.** Choose a network for one node, select another node
that has the network the first one was selected with: the property of the
dropdown has not changed, its effect does not run, and it shows the choice made
for the first node. `carried` marks these panels. `PanelFresh` does not hide
the case: it says that this is the only way a panel can show another node's
network, and that the node's own network is then what it was when it was
selected. Without the branch for `carried` TLC finds the three steps (`Select`,
`EditNetwork`, `Select`).

**Bounds.** Two networks, one of which is that of the contracts. Three nodes, two of them with one id,
and an edge; two projects, one of whose answers lists a contract twice; one
request of a kind and project in flight, so that up to four overlap; four
events of the user, which is save, change, restore, and an edit after it.

**Proved** for any projects, contracts, titles and ids, any number of events and
requests, and a default project of any nodes and edges that are finitely many and
have no figures of another node (`DiagramAssumption`): `OnePolls` (the cleanup
and the clear of the effect remove the one interval the ref holds, and nothing
else makes one), and with one invariant, `EditorInv`, the types and the other
four properties: `TypeCorrect`, `AlwaysTelemetryIsOwn`, `AlwaysEdgesAnchored`,
`AlwaysPanelShowsSelection`, `AlwaysPanelFresh`. `CanvasInv` says of every canvas
there is - the queued, the rendered, the snapshots in the store, on disk and being
read - that edges have their ends and figures their contract, up to the ids that
have left (`gone`, which only grows). `PanelInv` relates two canvases to the
panels: these are of the selection of the *rendered* one, and copies of an element
of the *queued* one as well, or nothing of that is selected, so that its render
will close them. `Without` deletes nodes from a sequence; that it keeps what it
should rests on lemmas about the least and the greatest number of a set.

**Not modelled:** positions, icons, styling, popups, the collapsing of panels, the
branch of `simulateData` behind the constant `simulation`, which is false.

## 10. CustomNode and CustomNodeProofs

A node draws itself from a data object, `data`, which the nodes state, `current`,
may have replaced by a copy since. An object therefore has an identity, `ref`: a
handler that writes `data.output = response` writes into the object it closed
over, and `Write` changes `current` only if that is still the same object.

| definition | code (`CustomNode.tsx`) |
|---|---|
| `SetInputText`, `WithText`, `DataEffect`, `Render` | the text of an info node and the two effects of 61-76 |
| `HandleInputChange`, `HandleSubmit`, `Answer` | 95-125; `Responses` is `services/openai.ts`, which turns errors into a text |
| `Copy`, `OnRestore`, `OnDelete`, `OnSave` | what the editor does to the node: `DiagramEditor` has the conditions |
| `Mount` | the initial states, from a snapshot, after a deletion |

**Run** `node` (110,218 states): at rest the text shown is the text of the node
(`TextAgrees`), and prompt and answer on the screen are those of the node
(`ShownIsStored`). The exceptions are what the code does lose: a text written
into an object that was replaced (`lost`), a snapshot that came while the
effects were passing a text on (`crossed`). **Bounds.** Three texts, one of them
empty, two prompts in flight and seven events: submit, copy, submit again,
answer, save, restore, delete fit in one behaviour.

**Proved** for every set of texts, from `NoneAssumption` and `TextsAssumption`:
`TextsAgree`, `ShownStored` and `TypeCorrect`. `TextInv` says why the texts
agree in the end: they do now, or a snapshot is still to be rendered, or its
text is still to be set. `ObjInv` keeps out objects without a text, which the
first effect would not copy. `TypeCorrect` rests on `FreshRef`, that there is a
reference nobody holds: among one number more than there are holders one is
free.

**Not modelled:** the looks of the other kinds of node, which only show data.

## 11. TopPanel and TopPanelProofs

`TopPanel.tsx`, the state of `App.tsx` it mirrors, and the session. `calls` are
the calls of the service in flight; any of them may be answered next, with a list
or with the empty answer that stands for every error. The tokens are where the
code has them: in localStorage (`jwt`, `refresh`), in keycloak-js (`kcToken`) and
the session at Keycloak itself.

| definition | code (`ext-helicopter/src`) |
|---|---|
| `TenantsAnswer`, `ProjectsAnswer`, `Pick` | `loadTenants`, `loadProjects` behind their awaits, `components/TopPanel.tsx:40-110` |
| `Render` | a render with the effect on `projects` and `projectId` |
| `HandleProjectIdChange`, `HandleTenantIdChange` | the two selects |
| `Initialized`, `HandleKeycloakAuth`, `Logout` | `initKeycloak`, the button, `logout()`: `TopMenu.tsx`, `keycloak.ts` |
| `RefreshToken`, `RefreshAnswer` | the interval of 15 minutes; the token is read when the request starts |
| `Reload`, `PageState` | the page comes back from Keycloak, or is reloaded: what was in flight is lost |

**Run** `session` (755,245 states): panel and `App` agree (`Mirror`), the
project chosen is listed (`ProjectListed`), when nothing is in flight the list
is of the tenant chosen unless an older call was answered after a newer one
(`ListsOfTenant`; the code does not order them), and a logout is not undone
(`LogoutForgets`) but by a login or a refresh that was already on its way.
**Bounds.** Two tenants and lists that have the default or not, three calls, so
that two lists of projects overtake each other while a list of tenants is under
way; four events of the user or the clock: login, return, logout and refresh.

**Proved** for all lists and any number of calls, from `ListsAssumption` (an
answer is not empty unless it is the empty answer, and lists tenants and
projects): `AlwaysMirror`; `AlwaysListed`, with the type of the list added
(`ProjectInv`); `LogoutIsFinal` from `OutInv`, which adds that after a logout
both tokens have left the store and a refresh in flight is older than the logout
or carries no token; `TypeCorrect`; `AlwaysOfTenant` from `TenantInv`: the call for
the projects of the chosen tenant is the newest of its kind and still to be
answered (`Awaited`), or every call that is left was there before it and the list
is that tenant's, unless one of those has overtaken it (`Settled`).

**Not modelled:** the fields for the frequency and the search text (they are set
at once, the frequency to 0 when it is cleared, `TopPanel.tsx:113`), messages.

## 12. Dashboard, Fleet and DashboardProofs

`App.js` and `Map.js` of aw-dashboard. `sent` is what the server has sent, to
everyone connected; `sockets[s]` is the state of a connection and the number of
the report it brings next, so that each brings what was sent after it opened, in
order and at its own pace. `effectSocket` is the socket the closure of the effect
holds, `None` once that one is dead (`EffectLoses`): the slots of `sockets` are
used again, and the cleanup must not reach the next connection in the same slot.
`timers` counts the calls of `setTimeout(connectWebSocket)` that are due.

| definition | code (`aw-dashboard/src`) |
|---|---|
| `OnOpen` ... `Reconnect`, `Remount` | `connectWebSocket` and its effect, `App.js:21-98` |
| `OnMessage`, `News`, `Merge` | `onmessage`: the set of reports taken, the functional update |
| `EditAircraft`, `HandleAircraftUpdate` | `AircraftPropertyPanel.js` and `App.js:193-197`: the whole aircraft of the last render is written back |
| `ClickHexagon` ... `HandleSearch`, `OnDblClick` | `components/Map.js`, `App.js:117-142` |
| `EditHexagon`, `HandleSubmit`, `Copied` | `PropertyPanel.js`; `Rounded` is its `toFixed(4)`, which Submit writes back |

**Run** `dashboard` (2,252,800 states): there is one connection, or one about to
be opened, and one more for each remount (`OneConnection`), either because the
socket the cleanup closes opens itself again, or because it was dropped before and
the one that replaced it is out of the cleanup's reach; an aircraft is listed once
(`UniqueIcao`); what the panel of a hexagon submits goes to that hexagon
(`PanelIsHexagon`); and the dashboard implements `Fleet` (`ImplementsFleet`).

**What `Fleet` promises.** Each aircraft has one place, set by a report or by the
user. No report counts twice, and reports count in the order they were sent
(`InTurn`) - as long as there was no remount. After one, two connections bring
the same reports: what was sent before the newer of them opened is brought by the
older alone, maybe after later reports have counted, and then it moves the
aircraft back; the later place, which has counted, is not taken again
(`App.js:59-64` compares with the places taken, not with the order). `Late` allows
this, and nothing more: it needs a second connection, and a report of before the
last connection opened. TLC finds such a report when `Late` is left out. The
mapping takes the place of the first aircraft with the ICAO id, the reports taken
and the number of the newest of them (`newest`, history, as `opened`);
connections, duplicates, renders and ids do not show.

**Bounds.** One aircraft that is there from the start and one that is new,
two places and two reports, so that a place is taken, left and reported again;
three sockets, one drop and one remount, so that two connections bring the same
report while a third is closing; three events of the user.

**Proved** for any aircraft, places, hexagons and bounds, from the assumptions
in `Dashboard`: `TypeCorrect`; `OneIsThere`, from the cardinality of the live
sockets (`NetOK`); `PanelIsRight` from `HexInv` (hexagon *i* has the id *i* - 1,
and the one in the panel is on the map); `IcaoIsUnique` from `FleetInv`, whose
`Known` says why the panel's update by id never hits another ICAO id: an id is
the ICAO id, or the number the aircraft began with; `Refinement`, `Spec =>
ImplementsFleet`, where every step sends, opens, takes a report that is news,
writes one aircraft back, or leaves the map alone. The order rests on `OrderInv`:
all reports up to the newest that counted have counted, save those of before the
last connection opened, since a connection that was open before has brought what
lies in between on its way (`Counted`); and without a remount the one connection
brings next a report newer than all of them.

**Not modelled:** geometry, layers, the view, the feature properties Mapbox keeps.

## 13. AuthLogin and AuthLoginProofs

The state of `auth-login/src/App.js`: who is logged in (`auth`, by number) and the
last result. A call captures `state` as it was rendered at the click, and its
answer sets that with one field changed; so a slow call brings back what was there
before. `stored` is localStorage, `due` the effect that saves.

| definition | code (`auth-login/src`) |
|---|---|
| `Render`, `Save`, `Load` | `App.js:22-40`, `getInitialState` and the effect |
| `Click`, `Goes`, `Fails`, `ApiAnswer`, `LogoffAnswer` | the buttons of `App.js` and their promises |
| `LoginAnswer`, `LoginRefused` | `LoginWeb3.js`, `LoginGoogle.js`, the popup; `onGoogleServer` is `onFailure` as well (`LoginGoogle.js:90`), so an error becomes the auth |
| `Arrive`, `Back`, `Fresh` | `LoginTwitter.js`, `LoginTwitterCallback.js`; `_code` keeps a code from being sent twice |

**Run** `login` (418,545 states): a settled page is saved as it is
(`StoredIsState`), also after Google's login has written an object into
localStorage; the page shows the session of whoever came last, unless another
call was in flight (`SessionKept`); a code is sent once (`CodeSentOnce`).
**Bounds.** Two logins, one of which replaces the other, four events: two calls in
flight, a logoff and a reload; one code, since another code is another load.

**Proved** for every set of buttons and codes and any bounds: `TypeCorrect`;
`AlwaysStored`; `SessionIsKept` from `SessionInv` (a call in flight has captured
either the session as it is or is known to be overtaken); `CodeIsSentOnce` from
`CodeInv` (a page that has sent a code has it in `_code`, and the location keeps
it for as long as the page lives).

**Not modelled:** what the wallet signs and the services decide.

**Fairness** in sections 9-13: none. The properties are about safety; a promise
may stay open for ever and no one has to click. `CHECK_DEADLOCK FALSE`, where it
is said: when the bounds are used up and all is answered, nothing happens.

## Proofs in general

A proof has one step for each action and cites what the action changes. Every
safety property of the passing runs is proved. Liveness under fairness stays with
TLC (`Drains`, `StopCompletes`, `ConfirmedFinishes`, `StartedWaits`, `JobEnds`).
Where an argument wants induction, over the length of a queue or the sum over a
log, the definitions are chosen so that it does without: a number of occurrences
is the cardinality of the set of their places, an order is a statement about two
indexes, and the least element of a set of numbers is the one that
`WFMin` of the library gives for the order on `Nat`. `SelectSeq` cannot be
expanded by the prover, and the models use index sets in its place.
The bounds in the guards (`MaxActs` and the like) are arbitrary in the proofs.

## Mutants

Each property comes with a mutated definition in the module, marked
`\* mutant`, that stands for a plausible bug: `HasRoomTooMany` (off by one in
the capacity), `Push` (a stack for a queue), `AfterExecSwallowed` (a failed
event is dropped), `StateAddEmailOldToken`, `PollEffectAdds` (an effect without
a cleanup), `PopulateKeepsEdges`, `SetNoProjectsHere`, `AnyMessage` (no test for
duplicates), `OnCloseSilent` (no reconnect), `ResOnly`, and so on. With the
mutant in place of the definition named in `PROJECT.json` TLC finds the property
violated, so the property speaks of the code and not of the shape of the model.

## Findings

`PROJECT.json` lists the disagreement between the code and its documents that a
run shows (`wf_record_stopped`); sections 3 and 5 name five more that a change of
constants shows. Two more are behaviours of the code that no document promises to
be otherwise: the dropdown that keeps the network of another node (section 9,
`NodePropertyPanel.tsx:74-76`), and the late report of a second connection that
moves an aircraft back (section 12, `App.js:59-64`). Their properties state what
is left, name the exception, and fail without it.
