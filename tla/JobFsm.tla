------------------------------- MODULE JobFsm -------------------------------
(***************************************************************************)
(* The job service (skel-job).  A registry actor submits jobs: a session   *)
(* of the engine (Apache Livy), a record in the store, an entry in the     *)
(* list of running jobs.  One watcher thread goes through that list again  *)
(* and again, asks the engine about every job and moves it on: start the   *)
(* script when the session is idle, delete the session when the script has *)
(* ended, report the job and drop it.  Every change goes to a file and to  *)
(* the map of the store; a restart loads the files.                        *)
(*                                                                         *)
(* runningJobs is read at the start of a pass and assigned at its end;     *)
(* the registry reads and assigns it too, with nothing to keep them apart. *)
(***************************************************************************)
EXTENDS Naturals, Sequences, FiniteSets, Functions

CONSTANTS
  Job,          \* the jobs clients may submit
  Answers,      \* what a request to the engine may come to: ok, refused, lost
  MaxDeletes,   \* bounds: requests to delete a job,
  MaxCrashes    \* restarts of the process

ASSUME JobAssumption ==
  /\ IsFiniteSet(Job)
  /\ Answers \subseteq {"ok", "refused", "lost"}
  /\ MaxDeletes \in Nat /\ MaxCrashes \in Nat

VARIABLES
  session,     \* the engine's session of a job
  statement,   \* the script of a job in its session
  jobs,        \* JobStoreMem.jobs
  files,       \* the directory of JobStoreDir
  list,        \* JobStore.runningJobs
  todo,        \* the rest of the list in this pass
  kept,        \* what the pass keeps
  watcher,     \* the watcher thread: sleep, pass, store, report, dead
  item,        \* the job the watcher is at: what it was, what it became, keep it?
  registry,    \* what the registry actor is doing: [op, job]
  saw,         \* the list as the registry read it
  deletes,     \* number of requests to delete a job
  crashes,     \* number of restarts
  runs,        \* history: how often the script of a job was started
  reports,     \* history: how often the end of a job was reported
  overlapped   \* history: a submit has overlapped with a pass

engine == <<session, statement>>
store == <<jobs, files>>
watch == <<todo, kept, watcher, item>>
bounds == <<deletes, crashes>>
history == <<runs, reports, overlapped>>
vars == <<engine, store, list, watch, registry, saw, bounds, history>>

States == {"starting", "idle", "waiting", "available", "deleted", "error", "dead", "finished"}
Ended == {"error", "dead", "finished"}            \* the watcher drops these

NoJob == [state |-> "none", ended |-> FALSE]      \* ended: is tsEnd defined
Record == [state: States, ended: BOOLEAN]
Entry == [job: Job, record: Record]
Nothing == [old |-> NoJob, new |-> NoJob, keep |-> FALSE]
Rest == [op |-> "rest"]

Entered(j, r) == [job |-> j, record |-> r]

Init ==
  /\ session = [j \in Job |-> "none"] /\ statement = [j \in Job |-> "none"]
  /\ jobs = [j \in Job |-> NoJob] /\ files = [j \in Job |-> NoJob]
  /\ list = <<>> /\ todo = <<>> /\ kept = <<>>
  /\ watcher = "sleep" /\ item = Nothing
  /\ registry = Rest /\ saw = <<>>
  /\ deletes = 0 /\ crashes = 0
  /\ runs = [j \in Job |-> 0] /\ reports = [j \in Job |-> 0]
  /\ overlapped = FALSE
-----------------------------------------------------------------------------
(* The engine, external: sessions start, scripts end, well or not          *)

SessionStarts(j) ==
  /\ session[j] = "starting"
  /\ \E s \in {"idle", "dead"} : session' = [session EXCEPT ![j] = s]
  /\ UNCHANGED <<statement, store, list, watch, registry, saw, bounds, history>>

ScriptEnds(j) ==
  /\ statement[j] = "waiting"
  /\ \E s \in {"available", "error"} : statement' = [statement EXCEPT ![j] = s]
  /\ UNCHANGED <<session, store, list, watch, registry, saw, bounds, history>>

Known(j) == session[j] # "none"

DeleteSession(j) ==
  /\ session' = [session EXCEPT ![j] = "none"]
  /\ statement' = [statement EXCEPT ![j] = "none"]

Runnable == {"idle", "available"}

\* the record that an answer about the session, about its last statement makes
FromSession(r, j) == [r EXCEPT !.state = session[j]]

\* mutant: the time of the end is not taken over
FromStatementOpen(r, s) == [r EXCEPT !.state = s]
FromStatement(r, s) == [state |-> s, ended |-> TRUE]
-----------------------------------------------------------------------------
(* The registry: submit and delete, one request at a time                  *)

\* engine.submit: a new session; if the answer is lost, nobody knows of it
SubmitSession(j) ==
  /\ registry = Rest
  /\ ~Known(j) /\ jobs[j] = NoJob /\ files[j] = NoJob /\ runs[j] = 0
  /\ \/ "ok" \in Answers /\ registry' = [op |-> "add", job |-> j]
     \/ "lost" \in Answers /\ UNCHANGED registry
  /\ session' = [session EXCEPT ![j] = "starting"]
  /\ UNCHANGED <<statement, store, list, watch, saw, bounds, history>>

Submitted == [state |-> "starting", ended |-> FALSE]

\* this.+(j1): the file, then the map
SubmitAdd ==
  /\ registry.op = "add"
  /\ files' = [files EXCEPT ![registry.job] = Submitted]
  /\ jobs' = [jobs EXCEPT ![registry.job] = Submitted]
  /\ registry' = [registry EXCEPT !.op = "read"]
  /\ UNCHANGED <<engine, list, watch, saw, bounds, history>>

\* enqueue: runningJobs = runningJobs :+ job, the read ...
EnqueueRead ==
  /\ registry.op = "read"
  /\ saw' = list
  /\ registry' = [registry EXCEPT !.op = "write"]
  /\ UNCHANGED <<engine, store, list, watch, bounds, history>>

InPass == watcher \in {"pass", "store", "report"}

\* ... and the write.  It overlaps when a pass has read the older list, or
\* has assigned a newer one since.
EnqueueWrite ==
  /\ registry.op = "write"
  /\ list' = Append(saw, Entered(registry.job, Submitted))
  /\ overlapped' = (overlapped \/ InPass \/ list # saw)
  /\ registry' = Rest /\ saw' = <<>>
  /\ UNCHANGED <<engine, store, watch, bounds, runs, reports>>

\* JobStoreDir.del: the file goes, if there is one.  A request for a job that
\* the map does not hold changes nothing.
DeleteFile(j) ==
  /\ registry = Rest
  /\ deletes < MaxDeletes /\ deletes' = deletes + 1
  /\ jobs[j] # NoJob
  /\ files' = [files EXCEPT ![j] = NoJob]
  /\ registry' = [op |-> "delete", job |-> j]
  /\ UNCHANGED <<engine, jobs, list, watch, saw, crashes, history>>

\* JobStoreMem.del: the session goes, the record stays as it is
DeleteJob ==
  /\ registry.op = "delete"
  /\ \/ Known(registry.job) /\ Answers \cap {"ok", "lost"} # {} /\ DeleteSession(registry.job)
     \/ (Known(registry.job) => Answers \cap {"refused", "lost"} # {}) /\ UNCHANGED engine
  /\ registry' = Rest
  /\ UNCHANGED <<store, list, watch, saw, bounds, history>>
-----------------------------------------------------------------------------
(* The watcher: startFSM                                                   *)

PassStarts ==
  /\ watcher = "sleep"
  /\ watcher' = "pass" /\ todo' = list /\ kept' = <<>>
  /\ UNCHANGED <<engine, store, list, item, registry, saw, bounds, history>>

\* the job j0 whose turn it is
Turn(states) == watcher = "pass" /\ todo # <<>> /\ Head(todo).record.state \in states
Current == Head(todo).job
Old == Head(todo).record

\* j1 of a job that goes on
Becomes(r) == item' = [old |-> Old, new |-> r, keep |-> TRUE] /\ watcher' = "store"

Answered == Turn(States) /\ "ok" \in Answers /\ Known(Current)

\* starting: engine.get
GetSession ==
  /\ Answered /\ Turn({"starting"})
  /\ Becomes(FromSession(Old, Current))
  /\ UNCHANGED <<engine, store, list, todo, kept, registry, saw, bounds, history>>

\* waiting: engine.ask, for the session if it has no statement
AskStatement ==
  /\ Answered /\ Turn({"waiting"})
  /\ Becomes(IF statement[Current] = "none" THEN FromSession(Old, Current)
                                            ELSE FromStatement(Old, statement[Current]))
  /\ UNCHANGED <<engine, store, list, todo, kept, registry, saw, bounds, history>>

\* the statement is posted, and the record that its answer makes
Posted == FromStatement(Old, "waiting")
PostStatement ==
  /\ statement' = [statement EXCEPT ![Current] = "waiting"]
  /\ runs' = [runs EXCEPT ![Current] = @ + 1]
  /\ UNCHANGED session

\* idle, available, and no script has ended: engine.run
RunScript ==
  /\ Answered /\ Turn(Runnable) /\ ~Old.ended
  /\ PostStatement
  /\ Becomes(Posted)
  /\ UNCHANGED <<store, list, todo, kept, registry, saw, bounds, reports, overlapped>>

\* idle, available, and the script has ended: engine.del
EndSession ==
  /\ Answered /\ Turn(Runnable) /\ Old.ended
  /\ DeleteSession(Current)
  /\ Becomes([Old EXCEPT !.state = "deleted"])
  /\ UNCHANGED <<store, list, todo, kept, registry, saw, bounds, history>>

\* deleted: nothing is left to ask
FinishJob ==
  /\ Turn({"deleted"})
  /\ Becomes([Old EXCEPT !.state = "finished"])
  /\ UNCHANGED <<engine, store, list, todo, kept, registry, saw, bounds, history>>

\* finished, error, dead: removed from the list
RemoveEnded ==
  /\ Turn(Ended)
  /\ item' = [old |-> Old, new |-> Old, keep |-> FALSE] /\ watcher' = "report"
  /\ UNCHANGED <<engine, store, list, todo, kept, registry, saw, bounds, history>>

Asked == {"starting", "waiting"} \cup Runnable

\* mutant: the job that failed is only dropped
EngineRefusesSilent ==
  /\ Turn(Asked)
  /\ ~Known(Current) \/ "refused" \in Answers
  /\ item' = [old |-> Old, new |-> Old, keep |-> FALSE]
  /\ watcher' = "report"
  /\ UNCHANGED <<engine, store, list, todo, kept, registry, saw, bounds, history>>

\* the engine answers with an error: the job is finished
EngineRefuses ==
  /\ Turn(Asked)
  /\ ~Known(Current) \/ "refused" \in Answers
  /\ item' = [old |-> Old, new |-> [Old EXCEPT !.state = "finished"], keep |-> FALSE]
  /\ watcher' = "store"
  /\ UNCHANGED <<engine, store, list, todo, kept, registry, saw, bounds, history>>

\* Await.result throws, or the script cannot be read: nothing catches it, and
\* there is no other watcher.
\* The request may have had its effect.
EngineLost ==
  /\ "lost" \in Answers /\ Turn(Asked)
  /\ \/ UNCHANGED <<engine, runs>>
     \/ Known(Current) /\ Turn(Runnable) /\ ~Old.ended /\ PostStatement
     \/ Known(Current) /\ Turn(Runnable) /\ Old.ended /\ DeleteSession(Current) /\ UNCHANGED runs
  /\ watcher' = "dead"
  /\ UNCHANGED <<store, list, todo, kept, item, registry, saw, bounds, reports, overlapped>>

\* mutant: only the file is written
StoreJobFile ==
  /\ watcher = "store"
  /\ files' = IF item.new.state = item.old.state THEN files ELSE [files EXCEPT ![Current] = item.new]
  /\ kept' = IF item.keep THEN Append(kept, Entered(Current, item.new)) ELSE kept
  /\ todo' = IF item.keep THEN Tail(todo) ELSE todo
  /\ watcher' = IF item.keep THEN "pass" ELSE "report"
  /\ UNCHANGED <<engine, jobs, list, item, registry, saw, bounds, history>>

\* update(j1), if the state is another one: the file, then the map
StoreJob ==
  /\ watcher = "store"
  /\ IF item.new.state = item.old.state
     THEN UNCHANGED store
     ELSE /\ files' = [files EXCEPT ![Current] = item.new]
          /\ jobs' = [jobs EXCEPT ![Current] = item.new]
  /\ kept' = IF item.keep THEN Append(kept, Entered(Current, item.new)) ELSE kept
  /\ todo' = IF item.keep THEN Tail(todo) ELSE todo
  /\ watcher' = IF item.keep THEN "pass" ELSE "report"
  /\ UNCHANGED <<engine, list, item, registry, saw, bounds, history>>

\* mutant: the job stays in the list
ReportJobKept ==
  /\ watcher = "report"
  /\ reports' = [reports EXCEPT ![Current] = @ + 1]
  /\ kept' = Append(kept, Entered(Current, item.new))
  /\ todo' = Tail(todo)
  /\ watcher' = "pass"
  /\ UNCHANGED <<engine, store, list, item, registry, saw, bounds, runs, overlapped>>

\* the notification, to the user and to syslog; then None
ReportJob ==
  /\ watcher = "report"
  /\ reports' = [reports EXCEPT ![Current] = @ + 1]
  /\ todo' = Tail(todo)
  /\ watcher' = "pass"
  /\ UNCHANGED <<engine, store, list, kept, item, registry, saw, bounds, runs, overlapped>>

\* mutant: the list keeps the jobs as they were before the pass
PassEndsOld ==
  /\ watcher = "pass" /\ todo = <<>>
  /\ list' = SelectSeq(list, LAMBDA e : \E i \in DOMAIN kept : kept[i].job = e.job)
  /\ watcher' = "sleep" /\ kept' = <<>> /\ item' = Nothing
  /\ UNCHANGED <<engine, store, todo, registry, saw, bounds, history>>

\* runningJobs = what flatMap made of it
PassEnds ==
  /\ watcher = "pass" /\ todo = <<>>
  /\ list' = kept
  /\ watcher' = "sleep" /\ kept' = <<>> /\ item' = Nothing
  /\ UNCHANGED <<engine, store, todo, registry, saw, bounds, history>>
-----------------------------------------------------------------------------
(* The process ends and is started again: JobStoreDir loads the files and  *)
(* enqueues every job that is not finished.                                *)

\* mutant: a script that runs is taken for one that somebody watches
LoadedNotWaiting == {j \in Job : files[j].state \notin {"none", "finished", "waiting"}}

Loaded == {j \in Job : files[j].state \notin {"none", "finished"}}

Restart ==
  /\ crashes < MaxCrashes /\ crashes' = crashes + 1
  /\ jobs' = files
  /\ \E order \in Bijection(1..Cardinality(Loaded), Loaded) :
       list' = [i \in DOMAIN order |-> Entered(order[i], files[order[i]])]
  /\ todo' = <<>> /\ kept' = <<>> /\ item' = Nothing /\ watcher' = "sleep"
  /\ registry' = Rest /\ saw' = <<>>
  /\ UNCHANGED <<engine, files, deletes, history>>

Engine == \E j \in Job : SessionStarts(j) \/ ScriptEnds(j)

Enqueue == SubmitAdd \/ EnqueueRead \/ EnqueueWrite

Registry == Enqueue \/ DeleteJob \/ \E j \in Job : SubmitSession(j) \/ DeleteFile(j)

Watcher ==
  \/ PassStarts \/ GetSession \/ AskStatement \/ RunScript \/ EndSession \/ FinishJob
  \/ RemoveEnded \/ EngineRefuses \/ EngineLost \/ StoreJob \/ ReportJob \/ PassEnds

Next == Engine \/ Registry \/ Watcher \/ Restart

Spec == Init /\ [][Next]_vars

\* The watcher polls without end, the registry finishes a request it has
\* begun, and the engine gets on with what it was asked to do.
FairSpec == Spec /\ WF_vars(Watcher) /\ WF_vars(Enqueue) /\ \A j \in Job : WF_vars(SessionStarts(j) \/ ScriptEnds(j))
-----------------------------------------------------------------------------
(* Properties                                                              *)

\* The state has its type.
TypeOK ==
  /\ session \in [Job -> {"none", "starting", "idle", "dead"}]
  /\ statement \in [Job -> {"none", "waiting", "available", "error"}]
  /\ jobs \in [Job -> Record \cup {NoJob}] /\ files \in [Job -> Record \cup {NoJob}]
  /\ list \in Seq(Entry) /\ saw \in Seq(Entry)
  /\ todo \in Seq(Entry) /\ kept \in Seq(Entry)
  /\ watcher \in {"sleep", "pass", "store", "report", "dead"}
  /\ item \in [old: Record \cup {NoJob}, new: Record \cup {NoJob}, keep: BOOLEAN]
  /\ registry \in {Rest} \cup [op: {"add", "read", "write", "delete"}, job: Job]
  /\ deletes \in 0..MaxDeletes /\ crashes \in 0..MaxCrashes
  /\ runs \in [Job -> Nat] /\ reports \in [Job -> Nat] /\ overlapped \in BOOLEAN

Holds(s, j) == \E i \in 1..Len(s) : s[i].job = j
BeingAdded(j) == registry.op \in {"read", "write"} /\ registry.job = j

\* A job that has not ended is in the list the watcher works from, through
\* refusals, deletions and restarts, as long as no submit overlaps a pass.
Watched ==
  ~overlapped =>
    \A j \in Job : jobs[j].state \notin Ended \cup {"none"} => Holds(list, j) \/ BeingAdded(j)

\* Between two passes the watcher works from the records the store shows.
Agreement ==
  ~overlapped /\ watcher = "sleep" =>
    \A i \in 1..Len(list) : list[i].record.state = jobs[list[i].job].state

\* A script is started once; a second time only if the process ended before
\* the first was recorded.
RunsBounded == ~overlapped => \A j \in Job : runs[j] <= 1 + crashes

\* The end of a job is reported once, and once more at most for each restart.
ReportsBounded == ~overlapped => \A j \in Job : reports[j] <= 1 + crashes

\* A job is reported only when the store says that it has ended.
ReportedHasEnded == watcher = "report" => jobs[Current].state \in Ended

\* A job gets to its end, unless the watcher dies or loses it.
JobEnds ==
  \A j \in Job :
    jobs[j] # NoJob ~> (jobs[j].state \in Ended \cup {"none"} \/ watcher = "dead" \/ overlapped)
=============================================================================
