----------------------------- MODULE WfRuntime -----------------------------
(***************************************************************************)
(* The thread runtime of the workflow engine (skel-wf).  A workflow is a   *)
(* mesh of execs joined by links.  Every link owns a bounded queue and a   *)
(* worker thread: the worker takes an event off its queue and runs         *)
(* Executing.onEvent of the exec the link points to, which puts its own    *)
(* outputs into the queues of the next links and blocks when one is full.  *)
(* Callers are the threads of the program that use WorkflowEngine: they    *)
(* start the workflow, emit events into it and stop it.  A TerminateExec   *)
(* stops the workflow from inside, on the worker thread that runs it.      *)
(*                                                                         *)
(* A thread is the list of statements it has still to execute (prog[t]);   *)
(* each statement is one access to state other threads see.                *)
(***************************************************************************)
EXTENDS Naturals, Sequences, FiniteSets

CONSTANTS
  Exec,           \* the execs of the workflow (Workflow.execs)
  Links,          \* Workflow.links, in order: [from, out, to, in]
  QueueSize,      \* capacity of the queue of a link
  Outcomes,       \* what exec() of an exec may do: ok, fail, stop, throw
  Units,          \* broadcasts of one successful exec(): 1, or the list of a SeqExec
  RetryMax,       \* the attribute retry.max of an exec
  Callers,        \* the threads that use the engine
  Entry,          \* the inlets <<exec, let>> that callers emit to
  MaxEmits,       \* bound: events emitted from outside
  MaxStops,       \* bound: stops requested from outside
  EarlyEvents,    \* may events be emitted before start() has returned
  InitialStates   \* what the state store may hold for this workflow at spawn

Link == 1..Len(Links)
Thread == Link \cup Callers
Data == 1..MaxEmits
Stop == 0                              \* ExecCmdStop
Event == Data \cup {Stop}
Status == {"INIT", "RUNNING", "STOPPED"}
NoState == [status |-> "none", count |-> 0]

ASSUME RuntimeAssumption ==
  /\ Links \in Seq([from: Exec, out: STRING, to: Exec, in: STRING])
  /\ QueueSize \in Nat \ {0}
  /\ Outcomes \in [Exec -> SUBSET {"ok", "fail", "stop", "throw"}]
  /\ Units \in [Exec -> Nat]
  /\ RetryMax \in [Exec -> Nat]
  /\ Callers \cap Link = {}
  /\ Entry \subseteq Exec \X STRING
  /\ MaxEmits \in Nat /\ MaxStops \in Nat
  /\ EarlyEvents \in BOOLEAN
  /\ InitialStates \subseteq {NoState} \cup [status: {"RUNNING", "STOPPED"}, count: Nat]

VARIABLES
  queue,        \* RunningThread.queue
  terminated,   \* RunningThread.terminated
  worker,       \* where RunningThread.run stands: new, take, busy, done
  prog,         \* the statements each thread has still to execute
  execStatus,   \* Executing.status
  store,        \* the record of this workflow in WorkflowStateStoreMem
  snap,         \* the record a thread has read and not yet written back
  wstate,       \* Workflowing.state.status
  emitted,      \* number of events emitted from outside
  stops,        \* number of stops requested from outside
  updates,      \* history: the status updates that have returned
  begun,        \* history: a stop has begun after start() had returned
  late,         \* history: events a link delivered after it was terminated
  log           \* history: the data events each exec has finished, how and by whom

control == <<queue, terminated, worker, prog>>
state == <<execStatus, store, snap, wstate>>
calls == <<emitted, stops, updates, begun>>
vars == <<control, state, calls, late, log>>
-----------------------------------------------------------------------------
(* The mesh.  addOut and addIn key the links of an exec by outlet and by   *)
(* inlet, so of two links on the same let the exec knows only the last.    *)

ErrLet == "err-0"

\* mutant: addOut also registers the links that come in
OutletsBothWays(x) == {l \in Link : x \in {Links[l].from, Links[l].to}}

Outlets(x) ==
  {l \in Link : /\ Links[l].from = x
                /\ \A k \in Link : k > l => ~(Links[k].from = x /\ Links[k].out = Links[l].out)}

\* mutant: broadcast reaches the first outlet only
BroadcastFirst(x) == {l \in Outlets(x) : Links[l].out = "out-0"}

BroadcastLinks(x) == {l \in Outlets(x) : Links[l].out # ErrLet}
ErrorLinks(x) == {l \in Outlets(x) : Links[l].out = ErrLet}

InLink(x, let) ==
  {l \in Link : /\ Links[l].to = x /\ Links[l].in = let
                /\ \A k \in Link : k > l => ~(Links[k].to = x /\ Links[k].in = let)}
-----------------------------------------------------------------------------
(* Statements, and the programs of the operations of the engine.           *)

Send(ls, e)     == [op |-> "send", links |-> ls, event |-> e]
Call(x, d, n)   == [op |-> "exec", exec |-> x, data |-> d, retry |-> n]
RunLink(l)      == [op |-> "run", link |-> l]
StopLink(l)     == [op |-> "stop", link |-> l]
SetExecs(s)     == [op |-> "execs", status |-> s]
ReadState       == [op |-> "read"]
WriteState(c)   == [op |-> "write", change |-> c]

Statement ==
       [op: {"send"}, links: SUBSET Link, event: Event]
  \cup [op: {"exec"}, exec: Exec, data: Data, retry: Nat]
  \cup [op: {"run", "stop"}, link: Link]
  \cup [op: {"execs"}, status: Status]
  \cup [op: {"read"}]
  \cup [op: {"write"}, change: {"commit", "RUNNING", "STOPPED"}]

\* WorkflowStateStoreMem.update and .commit: read the map, put the copy back
Update(s) == <<ReadState, WriteState(s)>>
Commit    == <<ReadState, WriteState("commit")>>

StartProgram == <<SetExecs("RUNNING")>> \o [l \in Link |-> RunLink(l)] \o Update("RUNNING")

\* mutant: the execs are not stopped
StopLinksOnly == [l \in Link |-> StopLink(l)] \o Update("STOPPED")

StopProgram  == <<SetExecs("STOPPED")>> \o [l \in Link |-> StopLink(l)] \o Update("STOPPED")

\* Executing.onEvent: a data event is executed, a stop is swallowed
OnEvent(x, e) == IF e = Stop THEN <<>> ELSE <<Call(x, e, 0)>>

\* Workflowing.emit: through the link on that inlet, else straight into the exec
EmitProgram(x, let, d) ==
  IF InLink(x, let) # {} THEN <<Send(InLink(x, let), d)>> ELSE OnEvent(x, d)

\* mutant: an event that failed for good is committed, not sent to err-0
AfterExecSwallowed(x, d, n, outcome) ==
  CASE outcome = "ok"   -> [i \in 1..Units[x] |-> Send(BroadcastLinks(x), d)] \o Commit
    [] outcome = "stop" -> Commit \o StopProgram
    [] outcome = "fail" -> IF n < RetryMax[x] THEN <<Call(x, d, n + 1)>> ELSE Commit

\* what is left of onEvent after one exec() that ended with that outcome
AfterExec(x, d, n, outcome) ==
  CASE outcome = "ok"   -> [i \in 1..Units[x] |-> Send(BroadcastLinks(x), d)] \o Commit
    [] outcome = "stop" -> Commit \o StopProgram
    [] outcome = "fail" -> IF n < RetryMax[x] THEN <<Call(x, d, n + 1)>>
                                              ELSE <<Send(ErrorLinks(x), d)>>
-----------------------------------------------------------------------------
Init ==
  /\ queue = [l \in Link |-> <<>>]
  /\ terminated = [l \in Link |-> FALSE]
  /\ worker = [l \in Link |-> "new"]
  /\ prog = [t \in Thread |-> <<>>]
  /\ execStatus = [x \in Exec |-> "INIT"]
  /\ store \in InitialStates
  /\ snap = [t \in Thread |-> NoState]
  /\ wstate = IF store = NoState THEN "INIT" ELSE store.status
  /\ emitted = 0
  /\ stops = 0
  /\ updates = {}
  /\ begun = FALSE
  /\ late = [l \in Link |-> 0]
  /\ log = [x \in Exec |-> <<>>]

Running(t, kind) == prog[t] # <<>> /\ Head(prog[t]).op = kind
Pop(t) == prog' = [prog EXCEPT ![t] = Tail(@)]
Idle(t) == prog[t] = <<>>

-----------------------------------------------------------------------------
(* The worker thread of a link: RunningThread.run                          *)

\* mutant: while( true )
LoopForever(l) ==
  /\ worker[l] = "busy" /\ Idle(l)
  /\ worker' = [worker EXCEPT ![l] = "take"]
  /\ UNCHANGED <<queue, terminated, prog, state, calls, late, log>>

\* mutant: an empty queue ends the loop, as queue.poll in place of queue.take would
LoopPoll(l) ==
  /\ worker[l] = "busy" /\ Idle(l)
  /\ worker' = [worker EXCEPT ![l] = IF terminated[l] \/ queue[l] = <<>> THEN "done" ELSE "take"]
  /\ UNCHANGED <<queue, terminated, prog, state, calls, late, log>>

\* while( !terminated )
LoopTest(l) ==
  /\ worker[l] = "busy" /\ Idle(l)
  /\ worker' = [worker EXCEPT ![l] = IF terminated[l] THEN "done" ELSE "take"]
  /\ UNCHANGED <<queue, terminated, prog, state, calls, late, log>>

\* val e = queue.take; link.output(e)
Take(l) ==
  /\ worker[l] = "take" /\ queue[l] # <<>>
  /\ queue' = [queue EXCEPT ![l] = Tail(@)]
  /\ worker' = [worker EXCEPT ![l] = "busy"]
  /\ prog' = [prog EXCEPT ![l] = OnEvent(Links[l].to, Head(queue[l]))]
  /\ late' = [late EXCEPT ![l] = IF terminated[l] THEN @ + 1 ELSE @]
  /\ UNCHANGED <<terminated, state, calls, log>>
-----------------------------------------------------------------------------
(* The statements any thread may be at                                     *)

\* exec() of an executor, with its outcome, inside the retry loop of onEvent
ExecStep(t) ==
  /\ Running(t, "exec")
  /\ LET c == Head(prog[t]) IN
       \E outcome \in Outcomes[c.exec] \ {"throw"} :
         /\ prog' = [prog EXCEPT ![t] = AfterExec(c.exec, c.data, c.retry, outcome) \o Tail(@)]
         /\ log' = IF outcome = "fail" /\ c.retry < RetryMax[c.exec]
                   THEN log
                   ELSE [log EXCEPT ![c.exec] = Append(@, [data |-> c.data, result |-> outcome, by |-> t])]
         /\ begun' = (begun \/ (outcome = "stop" /\ "RUNNING" \in updates))
  /\ UNCHANGED <<queue, terminated, worker, state, emitted, stops, updates, late>>

\* an exception out of exec(): nothing catches it before the end of the thread
ExecThrow(t) ==
  /\ Running(t, "exec")
  /\ "throw" \in Outcomes[Head(prog[t]).exec]
  /\ prog' = [prog EXCEPT ![t] = <<>>]
  /\ worker' = IF t \in Link THEN [worker EXCEPT ![t] = "done"] ELSE worker
  /\ UNCHANGED <<queue, terminated, state, calls, late, log>>

\* the link a send is at: the outputs in the order the links were added
First(l, ls) == l \in ls /\ \A k \in ls : l <= k

\* what is left of a send after link l
Rest(s, l) == IF s.links = {l} THEN <<>> ELSE <<Send(s.links \ {l}, s.event)>>

\* mutants: one place too many; the queue is a stack
HasRoomTooMany(l) == Len(queue[l]) <= QueueSize
Push(q, e) == <<e>> \o q

\* the capacity of the LinkedBlockingQueue, and its order
HasRoom(l) == Len(queue[l]) < QueueSize
Put(q, e) == Append(q, e)

\* Linking.input -> RunningThread.! -> queue.put, which waits for a place
SendStep(t) ==
  /\ Running(t, "send")
  /\ LET s == Head(prog[t]) IN
       \E l \in s.links :
         /\ First(l, s.links)
         /\ HasRoom(l)
         /\ queue' = [queue EXCEPT ![l] = Put(@, s.event)]
         /\ prog' = [prog EXCEPT ![t] = Rest(s, l) \o Tail(@)]
  /\ UNCHANGED <<terminated, worker, state, calls, late, log>>

\* no output link
SendDone(t) ==
  /\ Running(t, "send")
  /\ Head(prog[t]).links = {}
  /\ Pop(t)
  /\ UNCHANGED <<queue, terminated, worker, state, calls, late, log>>

\* RunningThread.start
RunStep(t) ==
  /\ Running(t, "run")
  /\ worker' = [worker EXCEPT ![Head(prog[t]).link] = "busy"]
  /\ Pop(t)
  /\ UNCHANGED <<queue, terminated, state, calls, late, log>>

\* mutant: only the flag, nothing wakes the worker up
StopWithoutWake(t) ==
  /\ Running(t, "stop")
  /\ terminated' = [terminated EXCEPT ![Head(prog[t]).link] = TRUE]
  /\ Pop(t)
  /\ UNCHANGED <<queue, worker, state, calls, late, log>>

\* RunningThread.stop: the flag, then the wake-up into the same bounded queue
StopStep(t) ==
  /\ Running(t, "stop")
  /\ LET l == Head(prog[t]).link IN
       /\ terminated' = [terminated EXCEPT ![l] = TRUE]
       /\ prog' = [prog EXCEPT ![t] = <<Send({l}, Stop)>> \o Tail(@)]
  /\ UNCHANGED <<queue, worker, state, calls, late, log>>

\* Executing.start or Executing.stop of every exec
ExecsStep(t) ==
  /\ Running(t, "execs")
  /\ execStatus' = [x \in Exec |-> Head(prog[t]).status]
  /\ Pop(t)
  /\ UNCHANGED <<queue, terminated, worker, store, snap, wstate, calls, late, log>>

\* stateStore.?(id)
ReadStep(t) ==
  /\ Running(t, "read")
  /\ snap' = [snap EXCEPT ![t] = store]
  /\ Pop(t)
  /\ UNCHANGED <<queue, terminated, worker, execStatus, store, wstate, calls, late, log>>

\* the record that commit or modify makes of the one that was read
Modified(r, change) ==
  IF change = "commit" THEN [r EXCEPT !.count = @ + 1] ELSE [r EXCEPT !.status = change]

\* states = states + (id -> ws1); Workflowing keeps the record of its own updates
WriteStep(t) ==
  /\ Running(t, "write")
  /\ LET c == Head(prog[t]).change IN
       /\ IF snap[t] = NoState
          THEN UNCHANGED <<store, wstate>>
          ELSE /\ store' = Modified(snap[t], c)
               /\ wstate' = IF c = "commit" THEN wstate ELSE c
       /\ updates' = IF c = "commit" THEN updates ELSE updates \cup {c}
  /\ snap' = [snap EXCEPT ![t] = NoState]
  /\ Pop(t)
  /\ UNCHANGED <<queue, terminated, worker, execStatus, emitted, stops, begun, late, log>>

Step(t) ==
  \/ ExecStep(t) \/ ExecThrow(t)
  \/ SendStep(t) \/ SendDone(t)
  \/ RunStep(t) \/ StopStep(t) \/ ExecsStep(t)
  \/ ReadStep(t) \/ WriteStep(t)

Worker(l) == LoopTest(l) \/ Take(l) \/ Step(l)
-----------------------------------------------------------------------------
(* The calls of the program into the engine.  A Thread can be started only *)
(* once and App respawns a workflow for every command, so start is called  *)
(* once and never on a Workflowing that has been stopped from outside.     *)

Started == \/ \E l \in Link : worker[l] # "new"
           \/ "RUNNING" \in updates
           \/ \E t \in Callers : \E i \in DOMAIN prog[t] : prog[t][i] = WriteState("RUNNING")

StartCall(c) ==
  /\ Idle(c)
  /\ ~Started /\ stops = 0
  /\ prog' = [prog EXCEPT ![c] = StartProgram]
  /\ UNCHANGED <<queue, terminated, worker, state, calls, late, log>>

EmitCall(c) ==
  /\ Idle(c)
  /\ emitted < MaxEmits
  /\ EarlyEvents \/ "RUNNING" \in updates
  /\ emitted' = emitted + 1
  /\ \E inlet \in Entry : prog' = [prog EXCEPT ![c] = EmitProgram(inlet[1], inlet[2], emitted')]
  /\ UNCHANGED <<queue, terminated, worker, state, stops, updates, begun, late, log>>

StopCall(c) ==
  /\ Idle(c)
  /\ stops < MaxStops
  /\ stops' = stops + 1
  /\ begun' = (begun \/ "RUNNING" \in updates)
  /\ prog' = [prog EXCEPT ![c] = StopProgram]
  /\ UNCHANGED <<queue, terminated, worker, state, emitted, updates, late, log>>

Next ==
  \/ \E l \in Link : LoopTest(l) \/ Take(l)
  \/ \E t \in Thread : Step(t)
  \/ \E c \in Callers : StartCall(c) \/ EmitCall(c) \/ StopCall(c)

Spec == Init /\ [][Next]_vars

\* The JVM runs every live thread; nobody has to call the engine.
Fairness ==
  /\ \A l \in Link : WF_vars(Worker(l))
  /\ \A c \in Callers : WF_vars(Step(c))

FairSpec == Spec /\ Fairness
-----------------------------------------------------------------------------
(* Properties                                                              *)

\* The state has its type, and no queue of a RunningThread ever holds more
\* than its capacity.
TypeOK ==
  /\ queue \in [Link -> Seq(Event)]
  /\ \A l \in Link : Len(queue[l]) <= QueueSize
  /\ terminated \in [Link -> BOOLEAN]
  /\ worker \in [Link -> {"new", "take", "busy", "done"}]
  /\ prog \in [Thread -> Seq(Statement)]
  /\ execStatus \in [Exec -> Status]
  /\ store \in [status: Status \cup {"none"}, count: Nat]
  /\ snap \in [Thread -> [status: Status \cup {"none"}, count: Nat]]
  /\ wstate \in Status
  /\ emitted \in 0..MaxEmits /\ stops \in 0..MaxStops
  /\ updates \subseteq {"RUNNING", "STOPPED"} /\ begun \in BOOLEAN
  /\ late \in [Link -> Nat]
  /\ log \in [Exec -> Seq([data: Data, result: {"ok", "stop", "fail"}, by: Thread])]

\* RunningThread tests `terminated` between two events, so once it is set the
\* worker delivers at most one more event, whatever its queue still holds.
LateBound == \A l \in Link : late[l] <= 1

Waiting(t) ==
  /\ Running(t, "send")
  /\ \E l \in Head(prog[t]).links : First(l, Head(prog[t]).links) /\ Len(queue[l]) = QueueSize

CanMove(l) ==
  \/ worker[l] = "busy" /\ ~Waiting(l)
  \/ worker[l] = "take" /\ queue[l] # <<>>

\* no way along the links leads back: any set of links has a last one
Acyclic ==
  \A S \in SUBSET Link : S # {} =>
    \E l \in S : \A k \in S : Links[k].from # Links[l].to

\* every worker runs and nothing has begun to stop the workflow
Flowing == \A l \in Link : worker[l] \in {"take", "busy"} /\ ~terminated[l]

\* In a workflow without loops the blocking puts of full queues never hold up
\* one another for ever: when some thread waits for a place, some worker of
\* the workflow can go on.
NoGridlock ==
  Acyclic /\ Flowing => ((\E t \in Thread : Waiting(t)) => \E l \in Link : CanMove(l))

AtRest ==
  /\ \A t \in Thread : Idle(t)
  /\ \A l \in Link : worker[l] = "take" /\ queue[l] = <<>>

\* how often x has finished an event with one of the results, and how often
\* the worker of l has finished one
Finished(x, d, results) ==
  Cardinality({i \in DOMAIN log[x] : log[x][i].data = d /\ log[x][i].result \in results})

FinishedBy(l, d) ==
  LET done == log[Links[l].to] IN Cardinality({i \in DOMAIN done : done[i].data = d /\ done[i].by = l})

\* how often an event goes through l for what the exec before made of it
Through(l, d) ==
  LET x == Links[l].from
  IN CASE l \in BroadcastLinks(x) -> Units[x] * Finished(x, d, {"ok"})
       [] l \in ErrorLinks(x) -> Finished(x, d, {"fail"})
       [] OTHER -> 0

\* callers emit into l
Fed(l) == \E inlet \in Entry : l \in InLink(inlet[1], inlet[2])

\* When a workflow that was not stopped comes to rest, the worker of every link
\* has finished each event exactly as often as the exec before it put it out:
\* retries, error outlets and full queues lose nothing and repeat nothing.
Conservation ==
  AtRest => \A l \in Link, d \in Data : ~Fed(l) => FinishedBy(l, d) = Through(l, d)

\* the threads that execute x
Executors(x) ==
  {l \in Link : Links[l].to = x} \cup {c \in Callers : \E inlet \in Entry : inlet[1] = x}

OneWayIn(x) == \A s, t \in Executors(x) : s = t

\* Where one thread executes each, an exec finishes events in the order in which
\* the exec before it did: full queues, retries and units put nothing out of order.
InOrder ==
  \A l \in Link :
    LET before == log[Links[l].from]
        after == log[Links[l].to]
    IN OneWayIn(Links[l].from) /\ OneWayIn(Links[l].to) =>
         \A i, j \in DOMAIN after : i < j /\ after[i].data # after[j].data =>
           \E p, q \in DOMAIN before :
             p < q /\ before[p].data = after[i].data /\ before[q].data = after[j].data

\* A workflow whose callers have nothing more to emit comes to rest: every
\* event gets to the end of its way, and none is left behind in a queue.
Drains == (emitted = MaxEmits) ~> AtRest

Halted == \A l \in Link : terminated[l] /\ worker[l] \in {"new", "done"}

\* A stop that has begun, from outside or by a TerminateExec, ends with every
\* worker thread ended and nobody left waiting.
StopCompletes ==
  (stops > 0 \/ \E l \in Link : terminated[l]) ~> (Halted /\ \A t \in Thread : Idle(t))

\* Once start() has returned, stop() works: when a stop that began after that, by
\* a caller or by a TerminateExec, has returned and the threads have ended, the
\* workflow says that it is stopped, whoever else stopped it or emitted before,
\* also while start() was running.  (Of a stop that began earlier this is not
\* true: start() writes RUNNING last.)  Workflowing.state ...
StateIsStopped ==
  Halted /\ (\A t \in Thread : Idle(t)) /\ begun /\ store # NoState
    => wstate = "STOPPED" /\ \A x \in Exec : execStatus[x] = "STOPPED"

\* ... and so does the record in the state store, which `runtime status` prints.
RecordIsStopped ==
  (Halted /\ (\A t \in Thread : Idle(t)) /\ updates = {"RUNNING", "STOPPED"} /\ store # NoState)
    => store.status = "STOPPED"
=============================================================================
