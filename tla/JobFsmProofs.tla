---------------------------- MODULE JobFsmProofs ----------------------------
(***************************************************************************)
(* Theorems about JobFsm, for every set of jobs, every way the engine may  *)
(* answer and any number of deletions and restarts: the state keeps its    *)
(* type, no unfinished job falls out of the list, the list shows what the  *)
(* store shows, no script is started and no end reported twice between two *)
(* restarts, and only what has ended is reported.                          *)
(*                                                                         *)
(* As long as no submit overlaps a pass, WatchInv is inductive.  Inside a  *)
(* pass the list is of no use: what counts is the part of the pass that is *)
(* done and the part that is not, which hold every unfinished job, each at *)
(* most once, with the state that the store shows.  RunInv and ReportInv   *)
(* count on top of it.                                                     *)
(*                                                                         *)
(* After an overlap the list, what the registry has read and the pass may  *)
(* hold entries of one job that do not agree.  CopyInv says in which order *)
(* they can be, and that one which has ended has ended in the store too.   *)
(***************************************************************************)
EXTENDS JobFsm, FiniteSetTheorems, TLAPS

AtJob == watcher \in {"store", "report"}

\* The type, and what the watcher holds while it is at a job.
TypeInv ==
  /\ TypeOK
  /\ AtJob => todo # <<>> /\ item.new \in Record /\ item.old = Old

Matches(s, f) == \A i \in 1..Len(s) : s[i].record.state = f[s[i].job].state
Distinct(s) == \A i, k \in 1..Len(s) : s[i].job = s[k].job => i = k
Unfinished(j) == jobs[j].state \notin Ended \cup {"none"}

\* What the registry has in hand is in the store as it was submitted.
AddInv ==
  /\ registry.op = "add" => jobs[registry.job] = NoJob
  /\ \A j \in Job : BeingAdded(j) => jobs[j] = Submitted

\* Between two passes.
SleepInv ==
  watcher = "sleep" =>
    /\ Matches(list, jobs) /\ Distinct(list)
    /\ \A j \in Job : BeingAdded(j) => ~Holds(list, j)

\* In a pass; a job that is being reported is the one that no longer matches.
PassInv ==
  InPass =>
    /\ Matches(kept, jobs) /\ Matches(IF watcher = "report" THEN Tail(todo) ELSE todo, jobs)
    /\ Distinct(kept) /\ Distinct(todo)
    /\ \A j \in Job : ~(Holds(kept, j) /\ Holds(todo, j))
    /\ \A j \in Job : BeingAdded(j) => ~Holds(kept, j) /\ ~Holds(todo, j)
    /\ \A j \in Job : Unfinished(j) => Holds(kept, j) \/ Holds(todo, j) \/ BeingAdded(j)

\* At a job.
JobInv ==
  /\ watcher = "store" => Old.state \notin Ended /\ (~item.keep => item.new.state = "finished")
  /\ watcher = "report" => jobs[Current].state \in Ended

\* All the time.
Covered == \A j \in Job : Unfinished(j) => Holds(list, j) \/ BeingAdded(j)

WatchInv == AddInv /\ SleepInv /\ PassInv /\ JobInv /\ Covered

Good == overlapped \/ WatchInv
-----------------------------------------------------------------------------
(* Types                                                                   *)

LEMMA LoadedSize == Cardinality(Loaded) \in Nat
  <1>1. Loaded \subseteq Job
        BY DEF Loaded
  <1>2. IsFiniteSet(Loaded)
        BY <1>1, JobAssumption, FS_Subset
  <1> QED
      BY <1>2, FS_CardinalityType

\* The first entry of a list and the rest of it.
LEMMA FirstType ==
  ASSUME NEW s \in Seq(Entry), s # <<>>
  PROVE  Head(s).job \in Job /\ Head(s).record \in Record /\ Tail(s) \in Seq(Entry)
  <1>1. Head(s) \in Entry /\ Tail(s) \in Seq(Entry)
        OBVIOUS
  <1> QED
      BY <1>1 DEF Entry

\* The job the watcher is at.
LEMMA CurrentType ==
  ASSUME TypeInv, todo # <<>>
  PROVE  Current \in Job /\ Old \in Record /\ Tail(todo) \in Seq(Entry)
  BY FirstType DEF TypeInv, TypeOK, Current, Old

LEMMA TypeInit == Init => TypeInv
  <1> SUFFICES ASSUME Init PROVE TypeInv
      OBVIOUS
  <1>1. /\ session \in [Job -> {"none", "starting", "idle", "dead"}]
        /\ statement \in [Job -> {"none", "waiting", "available", "error"}]
        /\ jobs \in [Job -> Record \cup {NoJob}] /\ files \in [Job -> Record \cup {NoJob}]
        /\ runs \in [Job -> Nat] /\ reports \in [Job -> Nat]
        BY DEF Init
  <1>2. /\ list \in Seq(Entry) /\ saw \in Seq(Entry)
        /\ todo \in Seq(Entry) /\ kept \in Seq(Entry)
        BY DEF Init
  <1>3. item \in [old: Record \cup {NoJob}, new: Record \cup {NoJob}, keep: BOOLEAN]
        BY DEF Init, Nothing
  <1>4. deletes \in 0..MaxDeletes /\ crashes \in 0..MaxCrashes
        BY JobAssumption DEF Init
  <1> QED
      BY <1>1, <1>2, <1>3, <1>4 DEF Init, TypeInv, TypeOK, AtJob

\* The watcher has learnt what a job becomes.
LEMMA TypeLearnt ==
  ASSUME TypeInv, todo # <<>>, NEW r \in Record, Becomes(r),
         session' \in [Job -> {"none", "starting", "idle", "dead"}] \/ session' = session,
         statement' \in [Job -> {"none", "waiting", "available", "error"}] \/ statement' = statement,
         runs' \in [Job -> Nat] \/ runs' = runs,
         UNCHANGED <<jobs, files, list, todo, kept, registry, saw, deletes, crashes, reports, overlapped>>
  PROVE  TypeInv'
  <1>1. item' = [old |-> Old, new |-> r, keep |-> TRUE] /\ watcher' = "store" /\ Old \in Record
        BY CurrentType DEF Becomes
  <1>2. item' \in [old: Record \cup {NoJob}, new: Record \cup {NoJob}, keep: BOOLEAN]
        BY <1>1
  <1>3. Old' = Old
        BY DEF Old
  <1> QED
      BY <1>1, <1>2, <1>3 DEF TypeInv, TypeOK, AtJob

LEMMA TypeStep == TypeInv /\ [Next]_vars => TypeInv'
  <1> SUFFICES ASSUME TypeInv, [Next]_vars PROVE TypeInv'
      OBVIOUS
  <1>1. ASSUME NEW j \in Job, SessionStarts(j) PROVE TypeInv'
        BY <1>1 DEF SessionStarts, TypeInv, TypeOK, AtJob, Old, Current, store, watch, bounds, history
  <1>2. ASSUME NEW j \in Job, ScriptEnds(j) PROVE TypeInv'
        BY <1>2 DEF ScriptEnds, TypeInv, TypeOK, AtJob, Old, Current, store, watch, bounds, history
  <1>3. ASSUME NEW j \in Job, SubmitSession(j) PROVE TypeInv'
        BY <1>3 DEF SubmitSession, TypeInv, TypeOK, AtJob, Old, store, watch, bounds, history
  <1>4. CASE SubmitAdd
    <2>1. registry \in [op: {"add", "read", "write", "delete"}, job: Job]
          BY <1>4 DEF SubmitAdd, TypeInv, TypeOK, Rest
    <2>2. registry' \in [op: {"add", "read", "write", "delete"}, job: Job]
          BY <1>4, <2>1 DEF SubmitAdd
    <2>3. Submitted \in Record
          BY DEF Submitted, Record, States
    <2> QED
        BY <1>4, <2>2, <2>3 DEF SubmitAdd, TypeInv, TypeOK, AtJob, Old, engine, watch, bounds, history
  <1>5. CASE EnqueueRead
    <2>1. registry \in [op: {"add", "read", "write", "delete"}, job: Job]
          BY <1>5 DEF EnqueueRead, TypeInv, TypeOK, Rest
    <2>2. registry' \in [op: {"add", "read", "write", "delete"}, job: Job]
          BY <1>5, <2>1 DEF EnqueueRead
    <2> QED
        BY <1>5, <2>2 DEF EnqueueRead, TypeInv, TypeOK, AtJob, Old, engine, store, watch, bounds, history
  <1>6. CASE EnqueueWrite
        BY <1>6 DEF EnqueueWrite, TypeInv, TypeOK, AtJob, Old, engine, store, watch, bounds, Submitted, Entered, Entry, Record, States, Rest, InPass
  <1>7. ASSUME NEW j \in Job, DeleteFile(j) PROVE TypeInv'
        BY <1>7, JobAssumption DEF DeleteFile, TypeInv, TypeOK, AtJob, Old, engine, watch, history, Rest
  <1>8. CASE DeleteJob
        BY <1>8 DEF DeleteJob, DeleteSession, TypeInv, TypeOK, AtJob, Old, engine, store, watch, bounds, history, Rest
  <1>9. CASE PassStarts
        BY <1>9 DEF PassStarts, TypeInv, TypeOK, AtJob, engine, store, bounds, history
  <1>10. CASE GetSession
    <2>1. FromSession(Old, Current) \in Record
          BY <1>10, CurrentType DEF GetSession, Answered, Known, Turn, FromSession, TypeInv, TypeOK, Record, States
    <2> QED
        BY <1>10, <2>1, TypeLearnt DEF GetSession, Answered, Turn, engine, store, bounds, history
  <1>11. CASE AskStatement
    <2>1. FromSession(Old, Current) \in Record
          BY <1>11, CurrentType DEF AskStatement, Answered, Known, Turn, FromSession, TypeInv, TypeOK, Record, States
    <2>2. statement[Current] # "none" => FromStatement(Old, statement[Current]) \in Record
          BY <1>11, CurrentType DEF AskStatement, Turn, FromStatement, TypeInv, TypeOK, Record, States
    <2>3. PICK r \in Record : Becomes(r)
          BY <1>11, <2>1, <2>2 DEF AskStatement
    <2> QED
        BY <1>11, <2>3, TypeLearnt DEF AskStatement, Turn, engine, store, bounds, history
  <1>12. CASE RunScript
    <2>1. Posted \in Record
          BY DEF Posted, FromStatement, Record, States
    <2>2. /\ statement' = [statement EXCEPT ![Current] = "waiting"]
          /\ runs' = [runs EXCEPT ![Current] = @ + 1] /\ session' = session
          /\ todo # <<>> /\ Becomes(Posted)
          /\ UNCHANGED <<jobs, files, list, todo, kept, registry, saw, deletes, crashes, reports, overlapped>>
          BY <1>12 DEF RunScript, PostStatement, Turn, store, bounds
    <2>3. statement' \in [Job -> {"none", "waiting", "available", "error"}]
          BY <2>2 DEF TypeInv, TypeOK
    <2>4. runs \in [Job -> Nat] /\ runs[Current] + 1 \in Nat
          BY <2>2, CurrentType DEF TypeInv, TypeOK
    <2>5. runs' \in [Job -> Nat]
          BY <2>2, <2>4
    <2> QED
        BY <2>1, <2>2, <2>3, <2>5, TypeLearnt
  <1>13. CASE EndSession
    <2>1. [Old EXCEPT !.state = "deleted"] \in Record
          BY <1>13, CurrentType DEF EndSession, Turn, Record, States
    <2>2. /\ session' \in [Job -> {"none", "starting", "idle", "dead"}]
          /\ statement' \in [Job -> {"none", "waiting", "available", "error"}]
          BY <1>13 DEF EndSession, DeleteSession, TypeInv, TypeOK
    <2> QED
        BY <1>13, <2>1, <2>2, TypeLearnt DEF EndSession, Turn, store, bounds, history, TypeInv, TypeOK
  <1>14. CASE FinishJob
    <2>1. [Old EXCEPT !.state = "finished"] \in Record
          BY <1>14, CurrentType DEF FinishJob, Turn, Record, States
    <2> QED
        BY <1>14, <2>1, TypeLearnt DEF FinishJob, Turn, engine, store, bounds, history
  <1>15. CASE RemoveEnded
         BY <1>15, CurrentType DEF RemoveEnded, Turn, TypeInv, TypeOK, AtJob, Old, Current, engine, store, bounds, history
  <1>16. CASE EngineRefuses
         BY <1>16, CurrentType DEF EngineRefuses, Turn, TypeInv, TypeOK, AtJob, Old, Current, engine, store, bounds, history, Record, States
  <1>17. CASE EngineLost
    <2>1. /\ session' \in [Job -> {"none", "starting", "idle", "dead"}]
          /\ statement' \in [Job -> {"none", "waiting", "available", "error"}]
          BY <1>17 DEF EngineLost, PostStatement, DeleteSession, TypeInv, TypeOK, engine
    <2>2. runs' \in [Job -> Nat]
          BY <1>17 DEF EngineLost, PostStatement, TypeInv, TypeOK
    <2> QED
        BY <1>17, <2>1, <2>2 DEF EngineLost, TypeInv, TypeOK, AtJob, store, bounds
  <1>18. CASE StoreJob
    <2>1. /\ todo # <<>> /\ item.new \in Record
          /\ Current \in Job /\ Old \in Record /\ Tail(todo) \in Seq(Entry)
          BY <1>18, CurrentType DEF StoreJob, TypeInv, AtJob
    <2>2. jobs' \in [Job -> Record \cup {NoJob}] /\ files' \in [Job -> Record \cup {NoJob}]
          BY <1>18, <2>1 DEF StoreJob, TypeInv, TypeOK, store
    <2>3. Entered(Current, item.new) \in Entry
          BY <2>1 DEF Entered, Entry
    <2>4. kept' \in Seq(Entry) /\ todo' \in Seq(Entry)
          BY <1>18, <2>1, <2>3 DEF StoreJob, TypeInv, TypeOK
    <2>5. AtJob' => todo' # <<>> /\ item'.new \in Record /\ item'.old = Old'
          BY <1>18, <2>1 DEF StoreJob, TypeInv, AtJob, Old
    <2> QED
        BY <1>18, <2>2, <2>4, <2>5 DEF StoreJob, TypeInv, TypeOK, engine, bounds, history
  <1>19. CASE ReportJob
    <2>1. /\ watcher = "report" /\ watcher' = "pass" /\ todo # <<>> /\ todo' = Tail(todo)
          /\ reports' = [reports EXCEPT ![Current] = @ + 1]
          /\ UNCHANGED <<session, statement, jobs, files, list, kept, item, registry, saw, deletes, crashes, runs, overlapped>>
          BY <1>19 DEF ReportJob, TypeInv, AtJob, engine, store, bounds
    <2>2. todo' \in Seq(Entry) /\ reports' \in [Job -> Nat]
          BY <2>1, CurrentType DEF TypeInv, TypeOK
    <2> QED
        BY <2>1, <2>2 DEF TypeInv, TypeOK, AtJob
  <1>20. CASE PassEnds
         BY <1>20 DEF PassEnds, TypeInv, TypeOK, AtJob, Nothing, engine, store, bounds, history
  <1>21. CASE Restart
    <2>1. PICK order \in Bijection(1..Cardinality(Loaded), Loaded) :
                 list' = [i \in DOMAIN order |-> Entered(order[i], files[order[i]])]
          BY <1>21 DEF Restart
    <2>2. order \in [1..Cardinality(Loaded) -> Loaded]
          BY <2>1 DEF Bijection, Injection, Surjection
    <2>3. \A j \in Loaded : Entered(j, files[j]) \in Entry
          BY DEF TypeInv, TypeOK, Loaded, Entered, Entry, NoJob
    <2>4. list' \in Seq(Entry)
          BY <2>1, <2>2, <2>3, LoadedSize
    <2> QED
        BY <1>21, <2>4, JobAssumption DEF Restart, TypeInv, TypeOK, AtJob, Nothing, engine, history, Rest
  <1>22. CASE UNCHANGED vars
         BY <1>22 DEF vars, TypeInv, TypeOK, AtJob, Old, engine, store, watch, bounds, history
  <1> QED
      BY <1>1, <1>2, <1>3, <1>4, <1>5, <1>6, <1>7, <1>8, <1>9, <1>10, <1>11, <1>12, <1>13, <1>14,
         <1>15, <1>16, <1>17, <1>18, <1>19, <1>20, <1>21, <1>22
      DEF Next, Engine, Registry, Enqueue, Watcher

\* The state of the job service has its type: in particular every entry of the
\* lists carries a record of a state the watcher knows.
THEOREM TypeCorrect == Spec => []TypeOK
  <1>1. TypeInv => TypeOK
        BY DEF TypeInv
  <1> QED
      BY <1>1, TypeInit, TypeStep, PTL DEF Spec
-----------------------------------------------------------------------------
(* Lists                                                                   *)

LEMMA FirstAndRest ==
  ASSUME NEW s \in Seq(Entry), s # <<>>, NEW f
  PROVE  /\ \A j : Holds(s, j) <=> j = Head(s).job \/ Holds(Tail(s), j)
         /\ Distinct(s) => Distinct(Tail(s)) /\ ~Holds(Tail(s), Head(s).job)
         /\ Matches(s, f) => Head(s).record.state = f[Head(s).job].state /\ Matches(Tail(s), f)
  <1>1. /\ Len(s) \in Nat /\ Len(s) >= 1 /\ Len(Tail(s)) = Len(s) - 1 /\ Head(s) = s[1]
        /\ \A i \in 1..Len(Tail(s)) : Tail(s)[i] = s[i + 1]
        OBVIOUS
  <1>2. ASSUME NEW j, Holds(s, j) PROVE j = Head(s).job \/ Holds(Tail(s), j)
    <2>1. PICK i \in 1..Len(s) : s[i].job = j
          BY <1>2 DEF Holds
    <2>2. CASE i = 1
          BY <1>1, <2>1, <2>2
    <2>3. CASE i # 1
      <3>1. PICK k \in 1..Len(Tail(s)) : i = k + 1
        <4>1. i - 1 \in 1..Len(Tail(s)) /\ i = (i - 1) + 1
              BY <1>1, <2>3
        <4> QED
            BY <4>1
      <3>2. Tail(s)[k].job = j
            BY <1>1, <2>1, <3>1
      <3> QED
          BY <3>2 DEF Holds
    <2> QED
        BY <2>2, <2>3
  <1>3. ASSUME NEW j, j = Head(s).job \/ Holds(Tail(s), j) PROVE Holds(s, j)
    <2>1. CASE j = Head(s).job
          BY <1>1, <2>1 DEF Holds
    <2>2. CASE Holds(Tail(s), j)
      <3>1. PICK i \in 1..Len(Tail(s)) : Tail(s)[i].job = j
            BY <2>2 DEF Holds
      <3>2. i + 1 \in 1..Len(s) /\ s[i + 1].job = j
            BY <1>1, <3>1
      <3> QED
          BY <3>2 DEF Holds
    <2> QED
        BY <1>3, <2>1, <2>2
  <1>4. Distinct(s) => Distinct(Tail(s)) /\ ~Holds(Tail(s), Head(s).job)
    <2>1. SUFFICES ASSUME Distinct(s) PROVE Distinct(Tail(s)) /\ ~Holds(Tail(s), Head(s).job)
          OBVIOUS
    <2>2. ASSUME NEW i \in 1..Len(Tail(s)), NEW k \in 1..Len(Tail(s)), Tail(s)[i].job = Tail(s)[k].job
          PROVE  i = k
      <3>1. i + 1 \in 1..Len(s) /\ k + 1 \in 1..Len(s) /\ s[i + 1].job = s[k + 1].job
            BY <1>1, <2>2
      <3> QED
          BY <2>1, <3>1 DEF Distinct
    <2>3. ASSUME NEW i \in 1..Len(Tail(s)) PROVE Tail(s)[i].job # Head(s).job
      <3>1. i + 1 \in 1..Len(s) /\ 1 \in 1..Len(s) /\ i + 1 # 1
            BY <1>1, <2>3
      <3> QED
          BY <1>1, <2>1, <2>3, <3>1 DEF Distinct
    <2> QED
        BY <2>2, <2>3 DEF Distinct, Holds
  <1>5. Matches(s, f) => Head(s).record.state = f[Head(s).job].state /\ Matches(Tail(s), f)
    <2>1. SUFFICES ASSUME Matches(s, f)
                   PROVE  Head(s).record.state = f[Head(s).job].state /\ Matches(Tail(s), f)
          OBVIOUS
    <2>2. 1 \in 1..Len(s) /\ \A i \in 1..Len(Tail(s)) : i + 1 \in 1..Len(s)
          BY <1>1
    <2> QED
        BY <1>1, <2>1, <2>2 DEF Matches
  <1> QED
      BY <1>2, <1>3, <1>4, <1>5

LEMMA OneMore ==
  ASSUME NEW s \in Seq(Entry), NEW e \in Entry, NEW f
  PROVE  /\ \A j : Holds(Append(s, e), j) <=> Holds(s, j) \/ e.job = j
         /\ Distinct(s) /\ ~Holds(s, e.job) => Distinct(Append(s, e))
         /\ Matches(s, f) /\ e.record.state = f[e.job].state => Matches(Append(s, e), f)
  <1> DEFINE t == Append(s, e)
  <1>1. /\ Len(s) \in Nat /\ Len(t) = Len(s) + 1 /\ t[Len(s) + 1] = e
        /\ \A i \in 1..Len(s) : t[i] = s[i]
        OBVIOUS
  <1> HIDE DEF t
  <1>2. \A i : i \in 1..Len(t) <=> i \in 1..Len(s) \/ i = Len(s) + 1
        BY <1>1
  <1>3. \A j : Holds(t, j) <=> Holds(s, j) \/ e.job = j
        BY <1>1, <1>2 DEF Holds
  <1>4. Distinct(s) /\ ~Holds(s, e.job) => Distinct(t)
        BY <1>1, <1>2 DEF Distinct, Holds
  <1>5. Matches(s, f) /\ e.record.state = f[e.job].state => Matches(t, f)
        BY <1>1, <1>2 DEF Matches
  <1> QED
      BY <1>3, <1>4, <1>5 DEF t

\* A change of the store that the list does not hold.
LEMMA Elsewhere ==
  ASSUME NEW s, NEW f, NEW g, Matches(s, f),
         \A j : Holds(s, j) => g[j] = f[j]
  PROVE  Matches(s, g)
  BY DEF Matches, Holds

LEMMA HeldIsJob ==
  ASSUME NEW s \in Seq(Entry), NEW j, Holds(s, j)
  PROVE  j \in Job
  <1>1. \A i \in 1..Len(s) : s[i] \in Entry
        OBVIOUS
  <1> QED
      BY <1>1 DEF Holds, Entry

\* What a list that matches the store holds is in the store.
LEMMA HeldIsStored ==
  ASSUME NEW s \in Seq(Entry), NEW f, NEW j, Matches(s, f), Holds(s, j)
  PROVE  f[j] # NoJob
  <1>1. PICK i \in 1..Len(s) : s[i].job = j
        BY DEF Holds
  <1>2. s[i] \in Entry
        OBVIOUS
  <1>3. s[i].record.state \in States
        BY <1>2 DEF Entry, Record
  <1> QED
      BY <1>1, <1>3 DEF Matches, NoJob, States
-----------------------------------------------------------------------------
(* The watcher's list                                                      *)

LEMMA GoodInit == Init => Good
  <1> SUFFICES ASSUME Init PROVE WatchInv
      BY DEF Good
  <1>1. \A j \in Job : ~BeingAdded(j) /\ ~Unfinished(j)
        BY DEF Init, BeingAdded, Unfinished, Rest, NoJob
  <1>2. AddInv /\ PassInv /\ JobInv
        BY <1>1 DEF Init, AddInv, PassInv, InPass, JobInv, Rest
  <1>3. SleepInv /\ Covered
        BY <1>1 DEF Init, SleepInv, Covered, Matches, Distinct
  <1> QED
      BY <1>2, <1>3 DEF WatchInv

\* Steps that touch neither the watcher nor the store.
LEMMA Aside ==
  ASSUME WatchInv, UNCHANGED <<jobs, list, todo, kept, watcher, item>>,
         \A j \in Job : BeingAdded(j)' <=> BeingAdded(j),
         registry'.op = "add" => jobs[registry'.job] = NoJob
  PROVE  WatchInv'
  <1>1. AddInv'
        BY DEF WatchInv, AddInv
  <1>2. SleepInv'
        BY DEF WatchInv, SleepInv, Holds
  <1>3. PassInv'
        BY DEF WatchInv, PassInv, InPass, Holds, Unfinished
  <1>4. JobInv' /\ Covered'
        BY DEF WatchInv, JobInv, Old, Current, Covered, Holds, Unfinished
  <1> QED
      BY <1>1, <1>2, <1>3, <1>4 DEF WatchInv

\* The watcher has learnt what becomes of a job that is in its turn.
LEMMA Learnt ==
  ASSUME WatchInv, UNCHANGED <<jobs, list, todo, kept, registry>>,
         watcher = "pass", watcher' = "store", Old.state \notin Ended,
         ~item'.keep => item'.new.state = "finished"
  PROVE  WatchInv'
  <1>1. AddInv' /\ SleepInv' /\ Covered'
        BY DEF WatchInv, AddInv, SleepInv, Covered, BeingAdded, Holds, Unfinished
  <1>2. PassInv'
        BY DEF WatchInv, PassInv, InPass, BeingAdded, Holds, Unfinished
  <1>3. JobInv'
        BY DEF JobInv, Old
  <1> QED
      BY <1>1, <1>2, <1>3 DEF WatchInv

\* In a pass the job in its turn is in the store with the state it has in the
\* list, and it is not the one that the registry has in hand.
LEMMA AtTurn ==
  ASSUME TypeInv, WatchInv, InPass, watcher # "report", todo # <<>>
  PROVE  /\ Current \in Job /\ jobs[Current] # NoJob /\ jobs[Current].state = Old.state
         /\ ~BeingAdded(Current) /\ ~(registry.op = "add" /\ registry.job = Current)
         /\ ~Holds(kept, Current) /\ ~Holds(Tail(todo), Current)
  <1>1. todo \in Seq(Entry) /\ Current \in Job
        BY CurrentType DEF TypeInv, TypeOK
  <1>2. Matches(todo, jobs) /\ Distinct(todo)
        BY DEF WatchInv, PassInv
  <1>3. Holds(todo, Current) /\ jobs[Current].state = Old.state /\ ~Holds(Tail(todo), Current)
        BY <1>1, <1>2, FirstAndRest DEF Current, Old
  <1>4. jobs[Current] # NoJob
        BY <1>1, <1>2, <1>3, HeldIsStored
  <1> QED
      BY <1>1, <1>3, <1>4 DEF WatchInv, PassInv, AddInv

\* The store follows what the watcher has learnt.
LEMMA StoreStep ==
  ASSUME TypeInv, WatchInv, StoreJob
  PROVE  WatchInv'
  <1> DEFINE e == Entered(Current, item.new)
             rest == Tail(todo)
  <1>1. /\ watcher = "store" /\ todo # <<>> /\ item.old = Old /\ item.new \in Record
        /\ Old \in Record /\ Old.state \notin Ended
        /\ todo \in Seq(Entry) /\ kept \in Seq(Entry) /\ rest \in Seq(Entry)
        /\ jobs \in [Job -> Record \cup {NoJob}]
        /\ UNCHANGED <<list, registry>>
        BY CurrentType DEF StoreJob, TypeInv, TypeOK, AtJob, WatchInv, JobInv
  <1>2. /\ Current \in Job /\ jobs[Current] # NoJob /\ jobs[Current].state = Old.state
        /\ ~BeingAdded(Current) /\ ~(registry.op = "add" /\ registry.job = Current)
        /\ ~Holds(kept, Current) /\ ~Holds(rest, Current)
        BY <1>1, AtTurn DEF InPass
  <1>3. /\ jobs'[Current].state = item.new.state
        /\ \A j \in Job : j # Current => jobs'[j] = jobs[j]
    <2>1. CASE item.new.state = item.old.state
          BY <1>1, <1>2, <2>1 DEF StoreJob, store
    <2>2. CASE item.new.state # item.old.state
          BY <1>1, <1>2, <2>2 DEF StoreJob
    <2> QED
        BY <2>1, <2>2
  <1>4. \A j \in Job : j # Current => (Unfinished(j)' <=> Unfinished(j))
        BY <1>3 DEF Unfinished
  <1>5. Unfinished(Current)
        BY <1>1, <1>2 DEF Unfinished, Record, States
  <1>6. /\ Matches(kept, jobs) /\ Matches(todo, jobs) /\ Distinct(kept) /\ Distinct(todo)
        /\ \A j \in Job : ~(Holds(kept, j) /\ Holds(todo, j))
        /\ \A j \in Job : BeingAdded(j) => ~Holds(kept, j) /\ ~Holds(todo, j)
        /\ \A j \in Job : Unfinished(j) => Holds(kept, j) \/ Holds(todo, j) \/ BeingAdded(j)
        BY <1>1 DEF WatchInv, PassInv, InPass
  <1>7. /\ \A j : Holds(todo, j) <=> j = Current \/ Holds(rest, j)
        /\ Distinct(rest) /\ Matches(rest, jobs)
        BY <1>1, <1>6, FirstAndRest DEF Current
  <1>8. Matches(kept, jobs') /\ Matches(rest, jobs')
        BY <1>1, <1>2, <1>3, <1>6, <1>7, Elsewhere, HeldIsJob
  <1>9. \A j \in Job : BeingAdded(j)' <=> BeingAdded(j)
        BY <1>1 DEF BeingAdded
  <1>10. AddInv' /\ Covered'
    <2>1. AddInv'
      <3>1. registry.op = "add" => registry.job \in Job
            BY DEF TypeInv, TypeOK, Rest
      <3>2. registry.op = "add" => jobs'[registry.job] = NoJob
            BY <1>2, <1>3, <3>1 DEF WatchInv, AddInv
      <3>3. \A j \in Job : BeingAdded(j) => jobs'[j] = Submitted
            BY <1>2, <1>3 DEF WatchInv, AddInv
      <3> QED
          BY <1>1, <1>9, <3>2, <3>3 DEF AddInv, Submitted, NoJob
    <2>2. Covered'
          BY <1>1, <1>2, <1>4, <1>5, <1>9 DEF WatchInv, Covered, Holds
    <2> QED
        BY <2>1, <2>2
  <1> HIDE DEF e, rest
  <1>11. CASE item.keep
    <2>1. watcher' = "pass" /\ kept' = Append(kept, e) /\ todo' = rest
          BY <1>11, <1>1 DEF StoreJob, e, rest
    <2>2. e \in Entry /\ e.job = Current /\ e.record.state = jobs'[e.job].state
          BY <1>1, <1>2, <1>3 DEF e, Entered, Entry
    <2>3. /\ \A j : Holds(kept', j) <=> Holds(kept, j) \/ j = Current
          /\ Distinct(kept') /\ Matches(kept', jobs')
          BY <1>1, <1>2, <1>6, <1>8, <2>1, <2>2, OneMore
    <2>4. \A j : Holds(kept, j)' <=> Holds(kept', j)
          BY DEF Holds
    <2>5. \A j : Holds(todo, j)' <=> Holds(rest, j)
          BY <2>1 DEF Holds
    <2>6. PassInv'
      <3>1. Matches(kept, jobs)' /\ Distinct(kept)' /\ Matches(todo, jobs)' /\ Distinct(todo)'
            BY <1>7, <1>8, <2>1, <2>3 DEF Matches, Distinct
      <3>2. \A j \in Job : ~(Holds(kept, j)' /\ Holds(todo, j)')
            BY <1>2, <1>6, <1>7, <2>3, <2>4, <2>5
      <3>3. \A j \in Job : BeingAdded(j)' => ~Holds(kept, j)' /\ ~Holds(todo, j)'
            BY <1>2, <1>6, <1>7, <1>9, <2>3, <2>4, <2>5
      <3>4. \A j \in Job : Unfinished(j)' => Holds(kept, j)' \/ Holds(todo, j)' \/ BeingAdded(j)'
            BY <1>4, <1>6, <1>7, <1>9, <2>3, <2>4, <2>5
      <3> QED
          BY <2>1, <3>1, <3>2, <3>3, <3>4 DEF PassInv
    <2> QED
        BY <1>10, <2>1, <2>6 DEF WatchInv, SleepInv, JobInv
  <1>12. CASE ~item.keep
    <2>1. watcher' = "report" /\ kept' = kept /\ todo' = todo
          BY <1>12, <1>1 DEF StoreJob
    <2>2. jobs'[Current].state = "finished"
          BY <1>12, <1>1, <1>3 DEF WatchInv, JobInv
    <2>3. \A j : (Holds(kept, j)' <=> Holds(kept, j)) /\ (Holds(todo, j)' <=> Holds(todo, j))
          BY <2>1 DEF Holds
    <2>4. PassInv'
      <3>1. Matches(kept, jobs)' /\ Distinct(kept)' /\ Matches(Tail(todo), jobs)' /\ Distinct(todo)'
            BY <1>6, <1>8, <2>1 DEF Matches, Distinct, rest
      <3>2. \A j \in Job : Unfinished(j)' => Holds(kept, j)' \/ Holds(todo, j)' \/ BeingAdded(j)'
            BY <1>4, <1>5, <1>6, <1>9, <2>3
      <3> QED
          BY <1>6, <1>9, <2>1, <2>3, <3>1, <3>2 DEF PassInv
    <2>5. JobInv'
          BY <2>1, <2>2 DEF JobInv, Current, Ended
    <2> QED
        BY <1>10, <2>1, <2>4, <2>5 DEF WatchInv, SleepInv
  <1> QED
      BY <1>11, <1>12

\* The report takes a job that has ended off the pass.
LEMMA ReportStep ==
  ASSUME TypeInv, WatchInv, ReportJob
  PROVE  WatchInv'
  <1>1. /\ watcher = "report" /\ watcher' = "pass" /\ todo # <<>> /\ todo' = Tail(todo)
        /\ todo \in Seq(Entry)
        /\ UNCHANGED <<jobs, list, kept, registry>>
        BY DEF ReportJob, TypeInv, TypeOK, AtJob, store
  <1>2. /\ Matches(kept, jobs) /\ Matches(Tail(todo), jobs) /\ Distinct(kept) /\ Distinct(todo)
        /\ \A j \in Job : ~(Holds(kept, j) /\ Holds(todo, j))
        /\ \A j \in Job : BeingAdded(j) => ~Holds(kept, j) /\ ~Holds(todo, j)
        /\ \A j \in Job : Unfinished(j) => Holds(kept, j) \/ Holds(todo, j) \/ BeingAdded(j)
        BY <1>1 DEF WatchInv, PassInv, InPass
  <1>3. /\ \A j : Holds(todo, j) <=> j = Current \/ Holds(Tail(todo), j)
        /\ Distinct(Tail(todo))
        BY <1>1, <1>2, FirstAndRest DEF Current
  <1>4. ~Unfinished(Current)
        BY <1>1 DEF WatchInv, JobInv, Unfinished
  <1>5. ASSUME NEW j \in Job
        PROVE  /\ Holds(kept, j)' <=> Holds(kept, j)
               /\ Holds(todo, j)' <=> Holds(Tail(todo), j)
               /\ Holds(list, j)' <=> Holds(list, j)
               /\ BeingAdded(j)' <=> BeingAdded(j)
               /\ Unfinished(j)' <=> Unfinished(j)
    <2>1. (Holds(kept, j)' <=> Holds(kept, j)) /\ (Holds(list, j)' <=> Holds(list, j))
          BY <1>1 DEF Holds
    <2>2. Holds(todo, j)' <=> Holds(Tail(todo), j)
          BY <1>1 DEF Holds
    <2>3. (BeingAdded(j)' <=> BeingAdded(j)) /\ (Unfinished(j)' <=> Unfinished(j))
          BY <1>1 DEF BeingAdded, Unfinished
    <2> QED
        BY <2>1, <2>2, <2>3
  <1>6. PassInv'
    <2>1. Matches(kept, jobs)' /\ Matches(todo, jobs)' /\ Distinct(kept)' /\ Distinct(todo)'
          BY <1>1, <1>2, <1>3 DEF Matches, Distinct
    <2>2. \A j \in Job : Unfinished(j)' => Holds(kept, j)' \/ Holds(todo, j)' \/ BeingAdded(j)'
          BY <1>2, <1>3, <1>4, <1>5
    <2> QED
        BY <1>1, <1>2, <1>3, <1>5, <2>1, <2>2 DEF PassInv
  <1>7. AddInv' /\ Covered'
        BY <1>1, <1>5 DEF WatchInv, AddInv, Covered
  <1> QED
      BY <1>1, <1>6, <1>7 DEF WatchInv, SleepInv, JobInv

\* A submitted job gets to the end of the list.
LEMMA EnqueueStep ==
  ASSUME TypeInv, WatchInv, EnqueueWrite, ~overlapped'
  PROVE  WatchInv'
  <1> DEFINE e == Entered(registry.job, Submitted)
  <1>1. /\ registry.op = "write" /\ registry.job \in Job /\ registry' = Rest
        /\ UNCHANGED <<jobs, watcher, todo, kept, item>>
        /\ ~InPass /\ list = saw /\ list \in Seq(Entry)
    <2>1. registry.op = "write" /\ registry.job \in Job /\ list \in Seq(Entry)
          BY DEF EnqueueWrite, TypeInv, TypeOK, Rest
    <2>2. registry' = Rest /\ UNCHANGED <<jobs, watcher, todo, kept, item>>
          BY DEF EnqueueWrite, store, watch
    <2>3. overlapped' = (overlapped \/ InPass \/ list # saw)
          BY DEF EnqueueWrite
    <2>4. ~(overlapped \/ InPass \/ list # saw)
          BY <2>3, Zenon
    <2> QED
        BY <2>1, <2>2, <2>4
  <1>2. list' = Append(list, e) /\ e \in Entry /\ e.job = registry.job
        BY <1>1 DEF EnqueueWrite, Entered, Entry, Submitted, Record, States
  <1>3. BeingAdded(registry.job) /\ jobs[registry.job] = Submitted
        BY <1>1 DEF BeingAdded, WatchInv, AddInv
  <1>4. e.record.state = jobs[e.job].state
        BY <1>2, <1>3 DEF Entered
  <1> HIDE DEF e
  <1>5. \A j \in Job : ~BeingAdded(j)'
        BY <1>1 DEF BeingAdded, Rest
  <1>6. AddInv'
        BY <1>1, <1>5 DEF AddInv, Rest
  <1>7. SleepInv'
    <2>1. SUFFICES ASSUME watcher = "sleep"
                   PROVE  Matches(list, jobs)' /\ Distinct(list)'
          BY <1>1, <1>5 DEF SleepInv
    <2>2. Matches(list, jobs) /\ Distinct(list) /\ ~Holds(list, e.job)
          BY <1>1, <1>2, <1>3, <2>1 DEF WatchInv, SleepInv
    <2>3. Matches(list', jobs) /\ Distinct(list')
          BY <1>1, <1>2, <1>4, <2>2, OneMore
    <2> QED
        BY <1>1, <2>3 DEF Matches, Distinct
  <1>8. Covered'
    <2>1. \A j : Holds(list', j) <=> Holds(list, j) \/ j = registry.job
          BY <1>1, <1>2, OneMore
    <2>2. \A j \in Job : BeingAdded(j) => j = registry.job
          BY DEF BeingAdded
    <2>3. \A j \in Job : (Unfinished(j)' <=> Unfinished(j)) /\ (Holds(list, j)' <=> Holds(list', j))
          BY <1>1 DEF Unfinished, Holds
    <2> QED
        BY <2>1, <2>2, <2>3 DEF WatchInv, Covered
  <1> QED
      BY <1>1, <1>6, <1>7, <1>8 DEF WatchInv, PassInv, InPass, JobInv

\* After a restart the list is made of the files, and so is the map.
LEMMA RestartStep ==
  ASSUME TypeInv, Restart
  PROVE  WatchInv'
  <1>1. PICK order \in Bijection(1..Cardinality(Loaded), Loaded) :
               list' = [i \in DOMAIN order |-> Entered(order[i], files[order[i]])]
        BY DEF Restart
  <1> DEFINE n == Cardinality(Loaded)
  <1>2. n \in Nat
        BY LoadedSize
  <1> HIDE DEF n
  <1>3. /\ order \in [1..n -> Loaded]
        /\ \A i, k \in 1..n : order[i] = order[k] => i = k
        /\ \A j \in Loaded : \E i \in 1..n : order[i] = j
    <2>1. order \in Injection(1..n, Loaded) /\ order \in Surjection(1..n, Loaded)
          BY <1>1 DEF Bijection, n
    <2>2. order \in [1..n -> Loaded] /\ \A i, k \in 1..n : order[i] = order[k] => i = k
          BY <2>1 DEF Injection, IsInjective
    <2>3. \A j \in Loaded : \E i \in 1..n : order[i] = j
          BY <2>1 DEF Surjection
    <2> QED
        BY <2>2, <2>3
  <1>4. /\ Len(list') = n
        /\ \A i \in 1..n : list'[i].job = order[i] /\ list'[i].record = files[order[i]]
        BY <1>1, <1>2, <1>3 DEF Entered
  <1>5. /\ watcher' = "sleep" /\ registry' = Rest /\ jobs' = files
        BY DEF Restart
  <1>6. Matches(list, jobs)' /\ Distinct(list)'
        BY <1>3, <1>4, <1>5 DEF Matches, Distinct
  <1>7. \A j \in Job : ~BeingAdded(j)'
        BY <1>5 DEF BeingAdded, Rest
  <1>8. Covered'
    <2>1. ASSUME NEW j \in Job, Unfinished(j)' PROVE Holds(list, j)'
      <3>1. j \in Loaded
            BY <1>5, <2>1 DEF Unfinished, Loaded, Ended
      <3>2. PICK i \in 1..n : order[i] = j
            BY <1>3, <3>1
      <3> QED
          BY <1>4, <3>2 DEF Holds
    <2> QED
        BY <2>1 DEF Covered
  <1>9. AddInv' /\ SleepInv' /\ PassInv' /\ JobInv'
        BY <1>5, <1>6, <1>7 DEF AddInv, SleepInv, PassInv, InPass, JobInv, Rest
  <1> QED
      BY <1>8, <1>9 DEF WatchInv

LEMMA GoodStep == TypeInv /\ Good /\ [Next]_vars => Good'
  <1>1. [Next]_vars /\ overlapped => overlapped'
        BY DEF vars, Next, Engine, Registry, Enqueue, Watcher, SessionStarts, ScriptEnds, SubmitSession,
           SubmitAdd, EnqueueRead, EnqueueWrite, DeleteFile, DeleteJob, PassStarts, GetSession,
           AskStatement, RunScript, EndSession, FinishJob, RemoveEnded, EngineRefuses, EngineLost,
           StoreJob, ReportJob, PassEnds, Restart, history
  <1> SUFFICES ASSUME TypeInv, WatchInv, [Next]_vars, ~overlapped' PROVE WatchInv'
      BY <1>1 DEF Good
  <1>2. ASSUME NEW j \in Job, SessionStarts(j) \/ ScriptEnds(j) PROVE WatchInv'
    <2>1. UNCHANGED <<jobs, list, todo, kept, watcher, item, registry>>
          BY <1>2 DEF SessionStarts, ScriptEnds, store, watch
    <2> QED
        BY <2>1, Aside DEF BeingAdded, WatchInv, AddInv
  <1>3. ASSUME NEW j \in Job, SubmitSession(j) PROVE WatchInv'
    <2>1. /\ UNCHANGED <<jobs, list, todo, kept, watcher, item>>
          /\ registry.op = "rest" /\ jobs[j] = NoJob
          /\ registry' = registry \/ registry' = [op |-> "add", job |-> j]
          BY <1>3 DEF SubmitSession, store, watch, Rest
    <2> QED
        BY <2>1, Aside DEF BeingAdded
  <1>4. CASE SubmitAdd
    <2>1. /\ registry.op = "add" /\ registry'.op = "read" /\ registry'.job = registry.job
          /\ registry.job \in Job /\ jobs[registry.job] = NoJob
          /\ jobs'[registry.job] = Submitted
          /\ \A j \in Job : j # registry.job => jobs'[j] = jobs[j]
          /\ UNCHANGED <<list, todo, kept, watcher, item>>
          BY <1>4 DEF SubmitAdd, watch, TypeInv, TypeOK, Rest, WatchInv, AddInv
    <2>2. \A j \in Job : BeingAdded(j)' <=> j = registry.job
          BY <2>1 DEF BeingAdded
    <2>3. \A j \in Job : ~BeingAdded(j)
          BY <2>1 DEF BeingAdded
    <2>4. \A s \in Seq(Entry) :
             Matches(s, jobs) => ~Holds(s, registry.job) /\ Matches(s, jobs')
          BY <2>1, HeldIsStored, HeldIsJob, Elsewhere
    <2>5. /\ list \in Seq(Entry) /\ kept \in Seq(Entry) /\ todo \in Seq(Entry)
          /\ AtJob => Current \in Job /\ todo # <<>> /\ Tail(todo) \in Seq(Entry)
          BY CurrentType DEF TypeInv, TypeOK
    <2>6. AddInv'
          BY <2>1, <2>2 DEF AddInv
    <2>7. SleepInv'
      <3>1. SUFFICES ASSUME watcher = "sleep"
                     PROVE  /\ Matches(list, jobs)' /\ Distinct(list)'
                            /\ \A j \in Job : BeingAdded(j)' => ~Holds(list, j)'
            BY <2>1 DEF SleepInv
      <3>2. Matches(list, jobs') /\ ~Holds(list, registry.job) /\ Distinct(list)
            BY <2>4, <2>5, <3>1 DEF WatchInv, SleepInv
      <3>3. Matches(list, jobs)' /\ Distinct(list)'
            BY <2>1, <3>2 DEF Matches, Distinct
      <3>4. ~Holds(list, registry.job)'
            BY <2>1, <3>2 DEF Holds
      <3> QED
          BY <2>1, <2>2, <3>3, <3>4
    <2>8. ~(AtJob /\ Current = registry.job)
      <3>1. CASE watcher = "store"
            BY <2>1, <2>5, <3>1, AtTurn DEF AtJob, InPass
      <3>2. CASE watcher = "report"
            BY <2>1, <3>2 DEF WatchInv, JobInv, NoJob, Ended
      <3> QED
          BY <3>1, <3>2 DEF AtJob
    <2>9. InPass => ~Holds(todo, registry.job) /\ ~Holds(kept, registry.job)
      <3>1. SUFFICES ASSUME InPass PROVE ~Holds(todo, registry.job)
            BY <2>4, <2>5 DEF WatchInv, PassInv
      <3>2. CASE watcher = "report"
            BY <2>4, <2>5, <2>8, <3>1, <3>2, FirstAndRest DEF WatchInv, PassInv, AtJob, Current
      <3>3. CASE watcher # "report"
            BY <2>4, <2>5, <3>1, <3>3 DEF WatchInv, PassInv
      <3> QED
          BY <3>2, <3>3
    <2>10. PassInv'
      <3>1. SUFFICES ASSUME InPass PROVE PassInv'
            BY <2>1 DEF PassInv, InPass
      <3>2. Matches(kept, jobs') /\ Matches(IF watcher = "report" THEN Tail(todo) ELSE todo, jobs')
            BY <2>4, <2>5, <3>1 DEF WatchInv, PassInv, AtJob
      <3>3. \A j \in Job : Unfinished(j)' => Holds(kept, j) \/ Holds(todo, j) \/ BeingAdded(j)'
            BY <2>1, <2>2, <2>3, <3>1 DEF WatchInv, PassInv, Unfinished
      <3>4. /\ Matches(kept, jobs)' /\ Matches(IF watcher = "report" THEN Tail(todo) ELSE todo, jobs)'
            /\ Distinct(kept)' /\ Distinct(todo)'
            BY <2>1, <3>1, <3>2 DEF WatchInv, PassInv, Matches, Distinct
      <3>5. \A j : (Holds(kept, j)' <=> Holds(kept, j)) /\ (Holds(todo, j)' <=> Holds(todo, j))
            BY <2>1 DEF Holds
      <3> QED
          BY <2>1, <2>2, <2>9, <3>1, <3>3, <3>4, <3>5 DEF WatchInv, PassInv
    <2>11. JobInv'
          BY <2>1, <2>5, <2>8 DEF WatchInv, JobInv, AtJob, Current, Old
    <2>12. Covered'
          BY <2>1, <2>2, <2>3 DEF WatchInv, Covered, Unfinished, Holds
    <2> QED
        BY <2>6, <2>7, <2>10, <2>11, <2>12 DEF WatchInv
  <1>5. CASE EnqueueRead
    <2>1. /\ UNCHANGED <<jobs, list, todo, kept, watcher, item>>
          /\ registry.op = "read" /\ registry'.op = "write" /\ registry'.job = registry.job
          BY <1>5 DEF EnqueueRead, store, watch, TypeInv, TypeOK, Rest
    <2> QED
        BY <2>1, Aside DEF BeingAdded
  <1>6. CASE EnqueueWrite
        BY <1>6, EnqueueStep
  <1>7. ASSUME NEW j \in Job, DeleteFile(j) PROVE WatchInv'
    <2>1. /\ UNCHANGED <<jobs, list, todo, kept, watcher, item>>
          /\ registry.op = "rest" /\ registry'.op = "delete"
          BY <1>7 DEF DeleteFile, watch, Rest
    <2> QED
        BY <2>1, Aside DEF BeingAdded
  <1>8. CASE DeleteJob
    <2>1. /\ UNCHANGED <<jobs, list, todo, kept, watcher, item>>
          /\ registry.op = "delete" /\ registry'.op = "rest"
          BY <1>8 DEF DeleteJob, store, watch, Rest
    <2> QED
        BY <2>1, Aside DEF BeingAdded
  <1>9. CASE PassStarts
    <2>1. /\ watcher = "sleep" /\ watcher' = "pass" /\ todo' = list /\ kept' = <<>>
          /\ UNCHANGED <<jobs, list, item, registry>>
          BY <1>9 DEF PassStarts, store
    <2>2. \A j \in Job : /\ Holds(todo, j)' <=> Holds(list, j)
                         /\ ~Holds(kept, j)'
          BY <2>1 DEF Holds
    <2>3. \A j \in Job : (BeingAdded(j)' <=> BeingAdded(j)) /\ (Unfinished(j)' <=> Unfinished(j))
          BY <2>1 DEF BeingAdded, Unfinished
    <2>4. Matches(todo, jobs)' /\ Distinct(todo)' /\ Matches(kept, jobs)' /\ Distinct(kept)'
          BY <2>1 DEF WatchInv, SleepInv, Matches, Distinct
    <2>5. PassInv'
          BY <2>1, <2>2, <2>3, <2>4 DEF WatchInv, SleepInv, Covered, PassInv
    <2> QED
        BY <2>1, <2>3, <2>5 DEF WatchInv, AddInv, SleepInv, JobInv, Covered, Holds
  <1>10. CASE GetSession \/ AskStatement \/ RunScript \/ EndSession \/ FinishJob
    <2>1. /\ watcher = "pass" /\ watcher' = "store" /\ item'.keep /\ Old.state \notin Ended
          /\ UNCHANGED <<jobs, list, todo, kept, registry>>
          BY <1>10 DEF GetSession, AskStatement, RunScript, EndSession, FinishJob, Becomes, Turn,
             Runnable, Ended, Old, store
    <2> QED
        BY <2>1, Learnt
  <1>11. CASE RemoveEnded
    <2>1. /\ watcher = "pass" /\ watcher' = "report" /\ todo # <<>> /\ Old.state \in Ended
          /\ UNCHANGED <<jobs, list, todo, kept, registry>>
          BY <1>11 DEF RemoveEnded, Turn, Old, store
    <2>2. todo \in Seq(Entry) /\ Matches(todo, jobs)
          BY <2>1 DEF TypeInv, TypeOK, WatchInv, PassInv, InPass
    <2>3. Matches(Tail(todo), jobs) /\ jobs[Current].state \in Ended
          BY <2>1, <2>2, FirstAndRest DEF Current, Old
    <2>4. PassInv'
          BY <2>1, <2>3 DEF WatchInv, PassInv, InPass, BeingAdded, Holds, Unfinished, Matches, Distinct
    <2>5. AddInv' /\ JobInv' /\ SleepInv' /\ Covered'
          BY <2>1, <2>3 DEF WatchInv, AddInv, JobInv, SleepInv, Covered, BeingAdded, Holds, Unfinished, Current
    <2> QED
        BY <2>4, <2>5 DEF WatchInv
  <1>12. CASE EngineRefuses
    <2>1. /\ watcher = "pass" /\ watcher' = "store" /\ Old.state \notin Ended
          /\ item'.new = [Old EXCEPT !.state = "finished"]
          /\ todo # <<>> /\ UNCHANGED <<jobs, list, todo, kept, registry>>
          BY <1>12 DEF EngineRefuses, Turn, Asked, Runnable, Ended, Old, store
    <2>2. item'.new.state = "finished"
          BY <2>1, CurrentType DEF Record
    <2> QED
        BY <2>1, <2>2, Learnt
  <1>13. CASE EngineLost
    <2>1. watcher' = "dead" /\ UNCHANGED <<jobs, list, registry>>
          BY <1>13 DEF EngineLost, store
    <2> QED
        BY <2>1 DEF WatchInv, AddInv, SleepInv, PassInv, InPass, JobInv, Covered, BeingAdded, Holds, Unfinished
  <1>14. CASE StoreJob
         BY <1>14, StoreStep
  <1>15. CASE ReportJob
         BY <1>15, ReportStep
  <1>16. CASE PassEnds
    <2>1. /\ watcher = "pass" /\ watcher' = "sleep" /\ todo = <<>> /\ list' = kept
          /\ UNCHANGED <<jobs, registry>>
          BY <1>16 DEF PassEnds, store
    <2>2. \A j \in Job : (Holds(list, j)' <=> Holds(kept, j)) /\ ~Holds(todo, j)
          BY <2>1 DEF Holds
    <2>3. \A j \in Job : (BeingAdded(j)' <=> BeingAdded(j)) /\ (Unfinished(j)' <=> Unfinished(j))
          BY <2>1 DEF BeingAdded, Unfinished
    <2>4. Matches(list, jobs)' /\ Distinct(list)'
          BY <2>1 DEF WatchInv, PassInv, InPass, Matches, Distinct
    <2>5. SleepInv' /\ Covered'
          BY <2>1, <2>2, <2>3, <2>4 DEF WatchInv, PassInv, InPass, SleepInv, Covered
    <2> QED
        BY <2>1, <2>3, <2>5 DEF WatchInv, AddInv, PassInv, InPass, JobInv
  <1>17. CASE Restart
         BY <1>17, RestartStep
  <1>18. CASE UNCHANGED vars
    <2>1. UNCHANGED <<jobs, list, todo, kept, watcher, item, registry>>
          BY <1>18 DEF vars, store, watch
    <2> QED
        BY <2>1, Aside DEF BeingAdded, WatchInv, AddInv
  <1> QED
      BY <1>2, <1>3, <1>4, <1>5, <1>6, <1>7, <1>8, <1>9, <1>10, <1>11, <1>12, <1>13, <1>14, <1>15,
         <1>16, <1>17, <1>18
      DEF Next, Engine, Registry, Enqueue, Watcher

LEMMA Invariant == Spec => [](TypeInv /\ Good)
  <1>1. TypeInv /\ Good /\ [Next]_vars => (TypeInv /\ Good)'
        BY TypeStep, GoodStep
  <1> QED
      BY <1>1, TypeInit, GoodInit, PTL DEF Spec
-----------------------------------------------------------------------------
(* The theorems                                                            *)

\* No job that the store shows as unfinished falls out of the list the watcher
\* works from, through refusals, deletions, deaths of the watcher and restarts,
\* as long as no submit overlaps with a pass.
THEOREM AlwaysWatched == Spec => []Watched
  <1>1. Good => Watched
        BY DEF Good, WatchInv, Covered, Watched, Unfinished
  <1> QED
      BY <1>1, Invariant, PTL

\* Between two passes the list says of every job what the store says.
THEOREM AlwaysAgreement == Spec => []Agreement
  <1>1. Good => Agreement
        BY DEF Good, WatchInv, SleepInv, Matches, Agreement
  <1> QED
      BY <1>1, Invariant, PTL
-----------------------------------------------------------------------------
(* The entries of a list, as a set                                          *)

\* The entries of a list.
Ent(s) == {s[i] : i \in 1..Len(s)}

LEMMA EntriesType == \A s \in Seq(Entry) : Ent(s) \subseteq Entry
  BY DEF Ent

LEMMA EntriesEmpty == Ent(<<>>) = {}
  BY DEF Ent

LEMMA EntriesHeld ==
  ASSUME NEW s \in Seq(Entry), NEW j PROVE Holds(s, j) <=> \E e \in Ent(s) : e.job = j
  BY DEF Ent, Holds

LEMMA EntriesAppend ==
  ASSUME NEW s \in Seq(Entry), NEW e \in Entry
  PROVE  Ent(Append(s, e)) = Ent(s) \cup {e}
  <1> DEFINE t == Append(s, e)
  <1>1. /\ Len(s) \in Nat /\ Len(t) = Len(s) + 1 /\ t[Len(s) + 1] = e
        /\ \A i \in 1..Len(s) : t[i] = s[i]
        OBVIOUS
  <1> HIDE DEF t
  <1>2. ASSUME NEW x \in Ent(t) PROVE x \in Ent(s) \cup {e}
    <2>1. PICK i \in 1..Len(t) : x = t[i]
          BY DEF Ent
    <2>2. i \in 1..Len(s) \/ i = Len(s) + 1
          BY <1>1
    <2> QED
        BY <1>1, <2>1, <2>2 DEF Ent
  <1>3. ASSUME NEW x \in Ent(s) PROVE x \in Ent(t)
    <2>1. PICK i \in 1..Len(s) : x = s[i]
          BY DEF Ent
    <2>2. i \in 1..Len(t) /\ x = t[i]
          BY <1>1, <2>1
    <2> QED
        BY <2>2 DEF Ent
  <1>4. e \in Ent(t)
    <2>1. Len(t) \in 1..Len(t) /\ t[Len(t)] = e
          BY <1>1
    <2> QED
        BY <2>1 DEF Ent
  <1> QED
      BY <1>2, <1>3, <1>4 DEF t

\* A list that holds every job once has one entry of it.
LEMMA EntriesOnce ==
  ASSUME NEW s, Distinct(s), NEW a \in Ent(s), NEW b \in Ent(s), a.job = b.job
  PROVE  a = b
  BY DEF Ent, Distinct

LEMMA EntriesFirst ==
  ASSUME NEW s \in Seq(Entry), s # <<>>
  PROVE  /\ Ent(s) = {Head(s)} \cup Ent(Tail(s))
         /\ Distinct(s) => \A e \in Ent(Tail(s)) : e.job # Head(s).job
  <1> DEFINE t == Tail(s)
  <1>1. /\ t \in Seq(Entry) /\ Len(s) \in Nat /\ Len(s) >= 1 /\ Len(t) = Len(s) - 1 /\ Head(s) = s[1]
        /\ \A i \in 1..Len(t) : t[i] = s[i + 1]
        OBVIOUS
  <1> HIDE DEF t
  <1>2. ASSUME NEW x \in Ent(t) PROVE x \in Ent(s)
    <2>1. PICK i \in 1..Len(t) : x = t[i]
          BY DEF Ent
    <2>2. i + 1 \in 1..Len(s) /\ x = s[i + 1]
          BY <1>1, <2>1
    <2> QED
        BY <2>2 DEF Ent
  <1>3. ASSUME NEW x \in Ent(s) PROVE x \in {Head(s)} \cup Ent(t)
    <2>1. PICK i \in 1..Len(s) : x = s[i]
          BY DEF Ent
    <2>2. CASE i = 1
          BY <1>1, <2>1, <2>2
    <2>3. CASE i # 1
      <3>1. i - 1 \in 1..Len(t) /\ t[i - 1] = s[(i - 1) + 1] /\ (i - 1) + 1 = i
            BY <1>1, <2>1, <2>3
      <3> QED
          BY <2>1, <3>1 DEF Ent
    <2> QED
        BY <2>2, <2>3
  <1>4. Head(s) \in Ent(s)
    <2>1. 1 \in 1..Len(s)
          BY <1>1
    <2> QED
        BY <1>1, <2>1 DEF Ent
  <1>5. ASSUME Distinct(s), NEW e \in Ent(t) PROVE e.job # Head(s).job
        BY <1>1, <1>5, FirstAndRest, EntriesHeld DEF t
  <1> QED
      BY <1>2, <1>3, <1>4, <1>5 DEF t
-----------------------------------------------------------------------------
(* How often a job is started and reported                                  *)

\* The entries of the pass that the watcher is not done with, nor at.
Ahead == Ent(IF AtJob THEN Tail(todo) ELSE todo)

\* How often the script of a job was started: not since the last restart, if
\* the watcher is going to start it when its turn comes.
RunInv ==
  /\ \A j \in Job : runs[j] <= 1 + crashes /\ (jobs[j] = NoJob \/ BeingAdded(j) => runs[j] <= crashes)
  /\ watcher = "sleep" => \A e \in Ent(list) : ~e.record.ended => runs[e.job] <= crashes
  /\ InPass => \A e \in Ent(kept) \cup Ahead : ~e.record.ended => runs[e.job] <= crashes
  /\ watcher = "store" /\ ~item.new.ended => runs[Current] <= crashes

\* How often the end of a job was reported: not since the last restart, if the
\* job is still in the list.
ReportInv ==
  /\ \A j \in Job : reports[j] <= 1 + crashes /\ (jobs[j] = NoJob \/ BeingAdded(j) => reports[j] <= crashes)
  /\ watcher = "sleep" => \A e \in Ent(list) : reports[e.job] <= crashes
  /\ InPass => \A e \in Ent(kept) \cup Ent(todo) : reports[e.job] <= crashes

Counted == overlapped \/ (RunInv /\ ReportInv)

LEMMA CountedInit == Init => Counted
  <1> SUFFICES ASSUME Init PROVE RunInv /\ ReportInv
      BY DEF Counted
  <1>1. /\ runs = [j \in Job |-> 0] /\ reports = [j \in Job |-> 0] /\ crashes = 0
        /\ list = <<>> /\ watcher = "sleep"
        BY DEF Init
  <1> QED
      BY <1>1, EntriesEmpty DEF RunInv, ReportInv, InPass

\* Types of what is counted.
LEMMA CountType ==
  ASSUME TypeInv
  PROVE  /\ crashes \in Nat /\ runs \in [Job -> Nat] /\ reports \in [Job -> Nat]
         /\ Ent(list) \subseteq Entry /\ Ent(kept) \subseteq Entry /\ Ent(todo) \subseteq Entry
         /\ \A e \in Entry : e.job \in Job /\ runs[e.job] \in Nat /\ reports[e.job] \in Nat
  <1>1. /\ crashes \in Nat /\ runs \in [Job -> Nat] /\ reports \in [Job -> Nat]
        BY JobAssumption DEF TypeInv, TypeOK
  <1>2. Ent(list) \subseteq Entry /\ Ent(kept) \subseteq Entry /\ Ent(todo) \subseteq Entry
        BY EntriesType DEF TypeInv, TypeOK
  <1>3. \A e \in Entry : e.job \in Job
        BY DEF Entry
  <1> QED
      BY <1>1, <1>2, <1>3

\* A step that counts nothing and does not touch the lists.
LEMMA CountAside ==
  ASSUME RunInv, ReportInv, UNCHANGED <<list, todo, kept, watcher, item, runs, reports, crashes>>,
         \A j \in Job : jobs'[j] = NoJob \/ BeingAdded(j)' => jobs[j] = NoJob \/ BeingAdded(j)
  PROVE  RunInv' /\ ReportInv'
  <1>1. RunInv'
        BY DEF RunInv, InPass, Ahead, AtJob, Ent, Current
  <1>2. ReportInv'
        BY DEF ReportInv, InPass, Ent
  <1> QED
      BY <1>1, <1>2

\* The watcher has learnt what becomes of a job whose script it does not start.
LEMMA CountLearnt ==
  ASSUME TypeInv, RunInv, ReportInv, watcher = "pass", watcher' = "store", todo # <<>>,
         UNCHANGED <<jobs, list, todo, kept, registry, runs, reports, crashes>>,
         ~item'.new.ended => ~Old.ended
  PROVE  RunInv' /\ ReportInv'
  <1>1. Ent(todo) = {Head(todo)} \cup Ent(Tail(todo))
        BY EntriesFirst DEF TypeInv, TypeOK
  <1>2. Ahead = Ent(todo) /\ Ahead' = Ent(Tail(todo))
        BY DEF Ahead, AtJob
  <1>3. ~item'.new.ended => runs[Current] <= crashes
        BY <1>1, <1>2 DEF RunInv, InPass, Current, Old
  <1>4. RunInv'
        BY <1>1, <1>2, <1>3 DEF RunInv, InPass, Current, BeingAdded, Ent
  <1>5. ReportInv'
        BY DEF ReportInv, InPass, BeingAdded, Ent
  <1> QED
      BY <1>4, <1>5

\* The watcher starts a script, of a job of which none was started since the
\* last restart; if it lives on, it knows.
LEMMA CountRun ==
  ASSUME TypeInv, WatchInv, RunInv, ReportInv, watcher = "pass", todo # <<>>, ~Old.ended,
         runs' = [runs EXCEPT ![Current] = @ + 1],
         watcher' = "dead" \/ (watcher' = "store" /\ item'.new.ended),
         UNCHANGED <<jobs, list, todo, kept, registry, reports, crashes>>
  PROVE  RunInv' /\ ReportInv'
  <1>1. /\ Ent(todo) = {Head(todo)} \cup Ent(Tail(todo))
        /\ Distinct(todo) => \A e \in Ent(Tail(todo)) : e.job # Head(todo).job
        BY EntriesFirst DEF TypeInv, TypeOK
  <1>2. Ahead = Ent(todo)
        BY DEF Ahead, AtJob
  <1>3. runs[Current] <= crashes
        BY <1>1, <1>2 DEF RunInv, InPass, Current, Old
  <1>4. /\ Current \in Job /\ jobs[Current] # NoJob /\ ~BeingAdded(Current)
        /\ ~Holds(kept, Current) /\ ~Holds(Tail(todo), Current)
        BY AtTurn DEF InPass
  <1>5. runs'[Current] <= 1 + crashes /\ \A j \in Job : j # Current => runs'[j] = runs[j]
        BY <1>3, <1>4, CountType
  <1>6. \A e \in Ent(kept) \cup Ent(Tail(todo)) : e.job # Current
        BY <1>4, CurrentType, EntriesHeld DEF TypeInv, TypeOK
  <1>7. watcher' = "store" => Ahead' = Ent(Tail(todo))
        BY DEF Ahead, AtJob
  <1>8. \A j \in Job : (jobs[j] = NoJob \/ BeingAdded(j))' => j # Current
        BY <1>4 DEF BeingAdded
  <1>9. \A j \in Job : runs'[j] <= 1 + crashes' /\ ((jobs[j] = NoJob \/ BeingAdded(j))' => runs'[j] <= crashes')
        BY <1>5, <1>8 DEF RunInv, BeingAdded
  <1>10. InPass' => \A e \in (Ent(kept) \cup Ahead)' : ~e.record.ended => runs'[e.job] <= crashes'
    <2>1. SUFFICES ASSUME InPass', NEW e \in Ent(kept) \cup Ent(Tail(todo)), ~e.record.ended
                   PROVE  runs'[e.job] <= crashes'
          BY <1>7 DEF InPass, Ent
    <2>2. e \in Ent(kept) \cup Ahead
          BY <1>1, <1>2
    <2>3. e.job \in Job /\ e.job # Current
          BY <1>6, <1>1, CountType
    <2> QED
        BY <1>5, <2>1, <2>2, <2>3 DEF RunInv, InPass
  <1>11. RunInv'
         BY <1>9, <1>10 DEF RunInv
  <1>12. ReportInv'
         BY DEF ReportInv, InPass, BeingAdded, Ent
  <1> QED
      BY <1>11, <1>12

LEMMA CountStore ==
  ASSUME TypeInv, WatchInv, RunInv, ReportInv, StoreJob
  PROVE  RunInv' /\ ReportInv'
  <1> DEFINE e == Entered(Current, item.new)
             rest == Tail(todo)
  <1>1. /\ watcher = "store" /\ watcher' = (IF item.keep THEN "pass" ELSE "report") /\ todo # <<>>
        /\ kept' = (IF item.keep THEN Append(kept, e) ELSE kept)
        /\ todo' = (IF item.keep THEN rest ELSE todo)
        /\ UNCHANGED <<list, registry, runs, reports, crashes>>
        /\ kept \in Seq(Entry) /\ todo \in Seq(Entry) /\ item.new \in Record /\ Current \in Job
        BY CurrentType DEF StoreJob, TypeInv, TypeOK, AtJob, bounds, history
  <1>2. e \in Entry /\ e.job = Current /\ e.record = item.new
        BY <1>1 DEF Entered, Entry
  <1> HIDE DEF e
  <1>3. jobs[Current] # NoJob /\ ~BeingAdded(Current)
        BY <1>1, AtTurn DEF InPass
  <1>4. \A j \in Job : jobs'[j] = NoJob \/ BeingAdded(j)' => jobs[j] = NoJob \/ BeingAdded(j)
    <2>1. jobs' = jobs \/ jobs' = [jobs EXCEPT ![Current] = item.new]
          BY DEF StoreJob, store
    <2>2. \A j \in Job : j # Current => jobs'[j] = jobs[j]
          BY <2>1, <1>1 DEF TypeInv, TypeOK
    <2>3. jobs'[Current] = jobs[Current] \/ jobs'[Current] = item.new
          BY <2>1, <1>1 DEF TypeInv, TypeOK
    <2>4. item.new # NoJob
          BY <1>1 DEF Record, States, NoJob
    <2> QED
        BY <1>1, <1>3, <2>2, <2>3, <2>4 DEF BeingAdded
  <1>5. /\ Ent(todo) = {Head(todo)} \cup Ent(rest)
        /\ Ent(Append(kept, e)) = Ent(kept) \cup {e}
        BY <1>1, <1>2, EntriesFirst, EntriesAppend
  <1>6. Ahead = Ent(rest) /\ Ahead' = Ent(rest)
        BY <1>1 DEF Ahead, AtJob
  <1>7. Ent(kept)' \subseteq Ent(kept) \cup {e} /\ Ent(todo)' \subseteq Ent(todo)
    <2>1. Ent(kept)' = Ent(kept') /\ Ent(todo)' = Ent(todo')
          BY DEF Ent
    <2> QED
        BY <1>1, <1>5, <2>1
  <1>8. RunInv'
    <2>1. ~e.record.ended => runs[e.job] <= crashes
          BY <1>1, <1>2 DEF RunInv
    <2>2. \A x \in Ent(kept)' \cup Ahead' : ~x.record.ended => runs'[x.job] <= crashes'
          BY <1>1, <1>6, <1>7, <2>1 DEF RunInv, InPass
    <2>3. watcher' # "sleep" /\ watcher' # "store"
          BY <1>1
    <2> QED
        BY <1>1, <1>4, <2>2, <2>3 DEF RunInv
  <1>9. ReportInv'
    <2>1. reports[e.job] <= crashes
          BY <1>1, <1>2, <1>5 DEF ReportInv, InPass, Current
    <2>2. \A x \in Ent(kept)' \cup Ent(todo)' : reports'[x.job] <= crashes'
          BY <1>1, <1>7, <2>1 DEF ReportInv, InPass
    <2> QED
        BY <1>1, <1>4, <2>2 DEF ReportInv
  <1> QED
      BY <1>8, <1>9

LEMMA CountReport ==
  ASSUME TypeInv, WatchInv, RunInv, ReportInv, ReportJob
  PROVE  RunInv' /\ ReportInv'
  <1>1. /\ watcher = "report" /\ watcher' = "pass" /\ todo # <<>> /\ todo' = Tail(todo)
        /\ reports' = [reports EXCEPT ![Current] = @ + 1]
        /\ todo \in Seq(Entry) /\ kept \in Seq(Entry) /\ Tail(todo) \in Seq(Entry) /\ Current \in Job
        /\ UNCHANGED <<jobs, list, kept, registry, runs, crashes>>
        BY CurrentType DEF ReportJob, TypeInv, TypeOK, AtJob, store, bounds
  <1>2. Distinct(todo) /\ ~(Holds(kept, Current) /\ Holds(todo, Current))
        BY <1>1 DEF WatchInv, PassInv, InPass
  <1>3. /\ Ent(todo) = {Head(todo)} \cup Ent(Tail(todo))
        /\ \A e \in Ent(Tail(todo)) : e.job # Current
        BY <1>1, <1>2, EntriesFirst DEF Current
  <1>4. \A e \in Ent(kept) : e.job # Current
        BY <1>1, <1>2, <1>3, EntriesHeld DEF Current
  <1>5. jobs[Current].state \in Ended /\ ~BeingAdded(Current)
    <2>1. Holds(todo, Current)
          BY <1>1, <1>3, EntriesHeld DEF Current
    <2> QED
        BY <1>1, <2>1 DEF WatchInv, PassInv, InPass, JobInv
  <1>6. jobs[Current] # NoJob
        BY <1>5 DEF NoJob, Ended
  <1>7. reports[Current] <= crashes
        BY <1>1, <1>3 DEF ReportInv, InPass, Current
  <1>8. reports'[Current] <= 1 + crashes /\ \A j \in Job : j # Current => reports'[j] = reports[j]
        BY <1>1, <1>7, CountType
  <1>9. RunInv'
    <2>1. Ahead' = Ahead /\ Ent(kept)' = Ent(kept)
          BY <1>1 DEF Ahead, AtJob, Ent
    <2> QED
        BY <1>1, <2>1 DEF RunInv, InPass, BeingAdded
  <1>10. ReportInv'
    <2>1. \A j \in Job : reports'[j] <= 1 + crashes' /\ (jobs'[j] = NoJob \/ BeingAdded(j)' => reports'[j] <= crashes')
          BY <1>1, <1>5, <1>6, <1>8 DEF ReportInv, BeingAdded
    <2>2. Ent(kept)' = Ent(kept) /\ Ent(todo)' = Ent(Tail(todo))
          BY <1>1 DEF Ent
    <2>3. ASSUME NEW e \in Ent(kept)' \cup Ent(todo)' PROVE reports'[e.job] <= crashes'
      <3>1. e.job \in Job /\ e.job # Current
            BY <1>3, <1>4, <2>2, CountType
      <3> QED
          BY <1>1, <1>3, <1>8, <2>2, <3>1 DEF ReportInv, InPass
    <2> QED
        BY <1>1, <2>1, <2>3 DEF ReportInv
  <1> QED
      BY <1>9, <1>10

\* A job enters the list: it was not started, nor reported, since the last restart.
LEMMA CountEnqueue ==
  ASSUME TypeInv, RunInv, ReportInv, EnqueueWrite, ~overlapped'
  PROVE  RunInv' /\ ReportInv'
  <1> DEFINE e == Entered(registry.job, Submitted)
  <1>1. /\ registry.op = "write" /\ registry.job \in Job /\ registry' = Rest
        /\ UNCHANGED <<jobs, watcher, todo, kept, item, runs, reports, crashes>>
        /\ list' = Append(saw, e) /\ list \in Seq(Entry)
    <2>1. registry.op = "write" /\ registry.job \in Job /\ list \in Seq(Entry)
          BY DEF EnqueueWrite, TypeInv, TypeOK, Rest
    <2> QED
        BY <2>1 DEF EnqueueWrite, store, watch, bounds
  <1>2. ~InPass /\ list = saw
    <2>1. overlapped' = (overlapped \/ InPass \/ list # saw)
          BY DEF EnqueueWrite
    <2>2. ~(overlapped \/ InPass \/ list # saw)
          BY <2>1, Zenon
    <2> QED
        BY <2>2
  <1>3. e \in Entry /\ e.job = registry.job
        BY <1>1 DEF Entered, Entry, Submitted, Record, States
  <1> HIDE DEF e
  <1>4. runs[e.job] <= crashes /\ reports[e.job] <= crashes
        BY <1>1, <1>3 DEF RunInv, ReportInv, BeingAdded
  <1>5. Ent(list') = Ent(list) \cup {e}
        BY <1>1, <1>2, <1>3, EntriesAppend
  <1>6. ~InPass' /\ watcher' # "store" /\ \A j \in Job : ~BeingAdded(j)'
        BY <1>1, <1>2 DEF InPass, BeingAdded, Rest
  <1>7. \A x \in Ent(list)' : x \in Ent(list) \cup {e}
        BY <1>5 DEF Ent
  <1>8. RunInv'
        BY <1>1, <1>4, <1>6, <1>7 DEF RunInv
  <1>9. ReportInv'
        BY <1>1, <1>4, <1>6, <1>7 DEF ReportInv
  <1> QED
      BY <1>8, <1>9

LEMMA CountedStep == TypeInv /\ Good /\ Counted /\ [Next]_vars => Counted'
  <1>1. [Next]_vars /\ overlapped => overlapped'
        BY DEF vars, Next, Engine, Registry, Enqueue, Watcher, SessionStarts, ScriptEnds, SubmitSession,
           SubmitAdd, EnqueueRead, EnqueueWrite, DeleteFile, DeleteJob, PassStarts, GetSession,
           AskStatement, RunScript, EndSession, FinishJob, RemoveEnded, EngineRefuses, EngineLost,
           StoreJob, ReportJob, PassEnds, Restart, history
  <1> SUFFICES ASSUME TypeInv, WatchInv, RunInv, ReportInv, [Next]_vars, ~overlapped'
               PROVE  RunInv' /\ ReportInv'
      BY <1>1 DEF Good, Counted
  <1>2. ASSUME NEW j \in Job, SessionStarts(j) \/ ScriptEnds(j) PROVE RunInv' /\ ReportInv'
    <2>1. UNCHANGED <<jobs, list, todo, kept, watcher, item, registry, runs, reports, crashes>>
          BY <1>2 DEF SessionStarts, ScriptEnds, store, watch, bounds, history
    <2> QED
        BY <2>1, CountAside DEF BeingAdded
  <1>3. ASSUME NEW j \in Job, SubmitSession(j) PROVE RunInv' /\ ReportInv'
    <2>1. /\ UNCHANGED <<jobs, list, todo, kept, watcher, item, runs, reports, crashes>>
          /\ registry' = registry \/ registry' = [op |-> "add", job |-> j]
          BY <1>3 DEF SubmitSession, store, watch, bounds, history
    <2> QED
        BY <2>1, CountAside DEF BeingAdded
  <1>4. CASE SubmitAdd
    <2>1. /\ registry.op = "add" /\ registry'.op = "read" /\ registry'.job = registry.job
          /\ registry.job \in Job /\ jobs[registry.job] = NoJob
          /\ \A j \in Job : j # registry.job => jobs'[j] = jobs[j]
          /\ UNCHANGED <<list, todo, kept, watcher, item, runs, reports, crashes>>
          BY <1>4 DEF SubmitAdd, watch, bounds, history, TypeInv, TypeOK, Rest, WatchInv, AddInv
    <2> QED
        BY <2>1, CountAside DEF BeingAdded
  <1>5. CASE EnqueueRead
    <2>1. /\ UNCHANGED <<jobs, list, todo, kept, watcher, item, runs, reports, crashes>>
          /\ registry.op = "read" /\ registry'.op = "write" /\ registry'.job = registry.job
          BY <1>5 DEF EnqueueRead, store, watch, bounds, history, TypeInv, TypeOK, Rest
    <2> QED
        BY <2>1, CountAside DEF BeingAdded
  <1>6. CASE EnqueueWrite
        BY <1>6, CountEnqueue
  <1>7. CASE DeleteJob \/ \E j \in Job : DeleteFile(j)
    <2>1. /\ UNCHANGED <<jobs, list, todo, kept, watcher, item, runs, reports, crashes>>
          /\ registry'.op \in {"rest", "delete"}
          BY <1>7 DEF DeleteJob, DeleteFile, store, watch, bounds, history, Rest
    <2> QED
        BY <2>1, CountAside DEF BeingAdded
  <1>8. CASE PassStarts
    <2>1. /\ watcher = "sleep" /\ watcher' = "pass" /\ todo' = list /\ kept' = <<>>
          /\ UNCHANGED <<jobs, list, item, registry, runs, reports, crashes>>
          BY <1>8 DEF PassStarts, store, bounds, history
    <2>2. Ent(kept)' = {} /\ Ent(todo)' = Ent(list) /\ Ahead' = Ent(list)
          BY <2>1, EntriesEmpty DEF Ent, Ahead, AtJob
    <2>3. RunInv'
          BY <2>1, <2>2 DEF RunInv, BeingAdded
    <2>4. ReportInv'
          BY <2>1, <2>2 DEF ReportInv, BeingAdded
    <2> QED
        BY <2>3, <2>4
  <1>9. CASE GetSession \/ AskStatement \/ EndSession \/ FinishJob \/ EngineRefuses
    <2>1. /\ watcher = "pass" /\ watcher' = "store" /\ todo # <<>>
          /\ UNCHANGED <<jobs, list, todo, kept, registry, runs, reports, crashes>>
          BY <1>9 DEF GetSession, AskStatement, EndSession, FinishJob, EngineRefuses, Becomes, Turn, store, bounds, history
    <2>2. Old \in Record
          BY <2>1, CurrentType
    <2>3. ~item'.new.ended => ~Old.ended
      <3>1. CASE GetSession \/ AskStatement
            BY <3>1, <2>2 DEF GetSession, AskStatement, Becomes, FromSession, FromStatement, Record
      <3>2. CASE EndSession \/ FinishJob \/ EngineRefuses
            BY <3>2, <2>2 DEF EndSession, FinishJob, EngineRefuses, Becomes, Record
      <3> QED
          BY <1>9, <3>1, <3>2
    <2> QED
        BY <2>1, <2>3, CountLearnt
  <1>10. CASE RunScript
    <2>1. /\ watcher = "pass" /\ watcher' = "store" /\ todo # <<>> /\ ~Old.ended /\ item'.new.ended
          /\ runs' = [runs EXCEPT ![Current] = @ + 1]
          /\ UNCHANGED <<jobs, list, todo, kept, registry, reports, crashes>>
          BY <1>10 DEF RunScript, PostStatement, Becomes, Posted, FromStatement, Turn, store, bounds
    <2> QED
        BY <2>1, CountRun
  <1>11. CASE EngineLost
    <2>1. /\ watcher = "pass" /\ watcher' = "dead" /\ todo # <<>>
          /\ UNCHANGED <<jobs, list, todo, kept, registry, reports, crashes>>
          BY <1>11 DEF EngineLost, Turn, store, bounds
    <2>2. CASE runs' = runs
      <3>1. ~InPass' /\ watcher' # "sleep" /\ watcher' # "store"
            BY <2>1 DEF InPass
      <3> QED
          BY <2>1, <2>2, <3>1 DEF RunInv, ReportInv, BeingAdded
    <2>3. CASE runs' # runs
      <3>1. ~Old.ended /\ runs' = [runs EXCEPT ![Current] = @ + 1]
            BY <1>11, <2>3 DEF EngineLost, PostStatement
      <3> QED
          BY <2>1, <3>1, CountRun
    <2> QED
        BY <2>2, <2>3
  <1>12. CASE RemoveEnded
    <2>1. /\ watcher = "pass" /\ watcher' = "report" /\ todo # <<>>
          /\ UNCHANGED <<jobs, list, todo, kept, registry, runs, reports, crashes>>
          BY <1>12 DEF RemoveEnded, Turn, store, bounds, history
    <2>2. Ent(todo) = {Head(todo)} \cup Ent(Tail(todo))
          BY <2>1, EntriesFirst DEF TypeInv, TypeOK
    <2>3. Ent(kept)' = Ent(kept) /\ Ent(todo)' = Ent(todo) /\ Ahead' \subseteq Ahead
          BY <2>1, <2>2 DEF Ahead, AtJob, Ent
    <2>4. RunInv'
          BY <2>1, <2>3 DEF RunInv, InPass, BeingAdded
    <2>5. ReportInv'
          BY <2>1, <2>3 DEF ReportInv, InPass, BeingAdded
    <2> QED
        BY <2>4, <2>5
  <1>13. CASE StoreJob
         BY <1>13, CountStore
  <1>14. CASE ReportJob
         BY <1>14, CountReport
  <1>15. CASE PassEnds
    <2>1. /\ watcher = "pass" /\ watcher' = "sleep" /\ list' = kept
          /\ UNCHANGED <<jobs, registry, runs, reports, crashes>>
          BY <1>15 DEF PassEnds, store, bounds, history
    <2>2. Ent(list)' = Ent(kept) /\ ~InPass'
          BY <2>1 DEF Ent, InPass
    <2>3. RunInv'
          BY <2>1, <2>2 DEF RunInv, InPass, BeingAdded
    <2>4. ReportInv'
          BY <2>1, <2>2 DEF ReportInv, InPass, BeingAdded
    <2> QED
        BY <2>3, <2>4
  <1>16. CASE Restart
    <2>1. /\ watcher' = "sleep" /\ crashes' = crashes + 1 /\ runs' = runs /\ reports' = reports
          BY <1>16 DEF Restart, history
    <2>2. \A j \in Job : runs'[j] <= crashes' /\ reports'[j] <= crashes'
          BY <2>1, CountType DEF RunInv, ReportInv
    <2>3. crashes' \in Nat /\ \A e \in Ent(list)' : e.job \in Job
      <3>1. TypeInv'
            BY TypeStep
      <3>2. (Ent(list) \subseteq Entry)'
            BY <3>1, EntriesType DEF TypeInv, TypeOK
      <3> QED
          BY <2>1, <3>2, CountType
    <2>4. ~InPass' /\ watcher' # "store"
          BY <2>1 DEF InPass
    <2>5. \A j \in Job : runs'[j] <= 1 + crashes' /\ reports'[j] <= 1 + crashes'
          BY <2>1, <2>2, <2>3, CountType
    <2>6. RunInv'
          BY <2>2, <2>3, <2>4, <2>5 DEF RunInv
    <2>7. ReportInv'
          BY <2>2, <2>3, <2>4, <2>5 DEF ReportInv
    <2> QED
        BY <2>6, <2>7
  <1>17. CASE UNCHANGED vars
    <2>1. UNCHANGED <<jobs, list, todo, kept, watcher, item, registry, runs, reports, crashes>>
          BY <1>17 DEF vars, store, watch, bounds, history
    <2> QED
        BY <2>1, CountAside DEF BeingAdded
  <1> QED
      BY <1>2, <1>3, <1>4, <1>5, <1>6, <1>7, <1>8, <1>9, <1>10, <1>11, <1>12, <1>13, <1>14, <1>15,
         <1>16, <1>17
      DEF Next, Engine, Registry, Enqueue, Watcher

\* Between two restarts the script of a job is started once at most, whatever
\* the engine answers and however often the watcher goes by: the job's record
\* has its end set from the first start on, in the list as in the store.
THEOREM AlwaysRunsBounded == Spec => []RunsBounded
  <1>1. Counted => RunsBounded
        BY DEF Counted, RunInv, RunsBounded
  <1> QED
      BY <1>1, TypeInit, TypeStep, GoodInit, GoodStep, CountedInit, CountedStep, PTL DEF Spec

\* Between two restarts the end of a job is reported once at most: a job that
\* is reported is in neither part of the pass any more, nor in the next list.
THEOREM AlwaysReportsBounded == Spec => []ReportsBounded
  <1>1. Counted => ReportsBounded
        BY DEF Counted, ReportInv, ReportsBounded
  <1> QED
      BY <1>1, TypeInit, TypeStep, GoodInit, GoodStep, CountedInit, CountedStep, PTL DEF Spec
-----------------------------------------------------------------------------
(* Copies of an entry that do not agree, after a submit overlapped a pass   *)

\* A job is in the list, in what the registry has read of it, and in the pass:
\* copies of one entry, of which some may be older than others.
Pass == IF InPass THEN Ent(todo) \cup Ent(kept) ELSE {}
Copies == Ent(list) \cup Ent(saw) \cup Pass
Closed(e) == e.record.state \in Ended

\* Each of them holds a job once ...
OnceInv ==
  /\ Distinct(list) /\ Distinct(saw)
  /\ InPass => Distinct(todo) /\ Distinct(kept) /\ \A a \in Ent(todo), b \in Ent(kept) : a.job # b.job

\* ... which is in the store, and not still to be entered ...
StoredInv ==
  /\ registry.op = "add" => jobs[registry.job] = NoJob
  /\ \A j \in Job : BeingAdded(j) => jobs[j] # NoJob
  /\ \A e \in Copies : jobs[e.job] # NoJob /\ ~BeingAdded(e.job)

\* ... as ended, if the copy says so ...
ClosedInv == \A e \in Copies : Closed(e) => jobs[e.job].state \in Ended

\* ... and then no newer copy says that it goes on.
Follows(older, newer) == \A a \in older, b \in newer : a.job = b.job /\ Closed(a) => Closed(b)
OrderInv == Follows(Ent(saw), Ent(list)) /\ Follows(Ent(saw), Pass) /\ Follows(Ent(list), Pass)

CopyInv == OnceInv /\ StoredInv /\ ClosedInv /\ OrderInv /\ JobInv

LEMMA CopyType ==
  ASSUME TypeInv
  PROVE  /\ list \in Seq(Entry) /\ saw \in Seq(Entry) /\ todo \in Seq(Entry) /\ kept \in Seq(Entry)
         /\ Ent(list) \subseteq Entry /\ Ent(saw) \subseteq Entry /\ Ent(todo) \subseteq Entry /\ Ent(kept) \subseteq Entry
         /\ \A e \in Entry : e.job \in Job
         /\ \A e \in Copies : e.job \in Job
  <1>1. list \in Seq(Entry) /\ saw \in Seq(Entry) /\ todo \in Seq(Entry) /\ kept \in Seq(Entry)
        BY DEF TypeInv, TypeOK
  <1>2. Ent(list) \subseteq Entry /\ Ent(saw) \subseteq Entry /\ Ent(todo) \subseteq Entry /\ Ent(kept) \subseteq Entry
        BY <1>1, EntriesType
  <1>3. \A e \in Entry : e.job \in Job
        BY DEF Entry
  <1> QED
      BY <1>1, <1>2, <1>3 DEF Copies, Pass

LEMMA CopyInit == Init => CopyInv
  <1> SUFFICES ASSUME Init PROVE CopyInv
      OBVIOUS
  <1>1. /\ list = <<>> /\ saw = <<>> /\ watcher = "sleep" /\ registry.op = "rest"
        BY DEF Init, Rest
  <1>2. Ent(list) = {} /\ Ent(saw) = {} /\ Pass = {} /\ Copies = {}
        BY <1>1, EntriesEmpty DEF Copies, Pass, InPass
  <1>3. Distinct(list) /\ Distinct(saw) /\ ~InPass
        BY <1>1 DEF Distinct, InPass
  <1> QED
      BY <1>1, <1>2, <1>3 DEF CopyInv, OnceInv, StoredInv, ClosedInv, OrderInv, Follows, JobInv, BeingAdded

\* A step that touches none of the copies.
LEMMA CopyAside ==
  ASSUME CopyInv, UNCHANGED <<jobs, list, saw, todo, kept, watcher, item>>,
         \A j : BeingAdded(j)' => BeingAdded(j),
         registry'.op = "add" => jobs[registry'.job] = NoJob
  PROVE  CopyInv'
  <1>1. Copies' = Copies /\ Pass' = Pass /\ Ent(list)' = Ent(list) /\ Ent(saw)' = Ent(saw)
        BY DEF Copies, Pass, InPass, Ent
  <1>2. OnceInv'
        BY DEF CopyInv, OnceInv, InPass, Distinct, Ent
  <1>3. StoredInv' /\ ClosedInv' /\ OrderInv'
        BY <1>1 DEF CopyInv, StoredInv, ClosedInv, OrderInv, Follows, Closed
  <1>4. JobInv'
        BY DEF CopyInv, JobInv, Old, Current
  <1> QED
      BY <1>2, <1>3, <1>4 DEF CopyInv

\* The watcher has learnt what becomes of a job that goes on.
LEMMA CopyLearnt ==
  ASSUME CopyInv, UNCHANGED <<jobs, list, saw, todo, kept, registry>>,
         watcher = "pass", watcher' = "store", Old.state \notin Ended,
         ~item'.keep => item'.new.state = "finished"
  PROVE  CopyInv'
  <1>1. Copies' = Copies /\ Pass' = Pass /\ Ent(list)' = Ent(list) /\ Ent(saw)' = Ent(saw)
        BY DEF Copies, Pass, InPass, Ent
  <1>2. OnceInv'
        BY DEF CopyInv, OnceInv, InPass, Distinct, Ent
  <1>3. StoredInv' /\ ClosedInv' /\ OrderInv'
        BY <1>1 DEF CopyInv, StoredInv, ClosedInv, OrderInv, Follows, Closed, BeingAdded
  <1>4. JobInv'
        BY DEF JobInv, Old
  <1> QED
      BY <1>2, <1>3, <1>4 DEF CopyInv

LEMMA CopyRead ==
  ASSUME TypeInv, CopyInv, EnqueueRead
  PROVE  CopyInv'
  <1>1. /\ UNCHANGED <<jobs, list, todo, kept, watcher, item>> /\ saw' = list
        /\ registry.op = "read" /\ registry'.op = "write" /\ registry'.job = registry.job
        BY DEF EnqueueRead, store, watch, bounds, history, TypeInv, TypeOK, Rest
  <1>2. /\ Ent(list)' = Ent(list) /\ Ent(saw)' = Ent(list) /\ Pass' = Pass /\ Copies' \subseteq Copies
        BY <1>1 DEF Copies, Pass, InPass, Ent
  <1>3. \A j : BeingAdded(j)' <=> BeingAdded(j)
        BY <1>1 DEF BeingAdded
  <1>4. OnceInv'
        BY <1>1 DEF CopyInv, OnceInv, InPass, Distinct, Ent
  <1>5. StoredInv' /\ ClosedInv'
        BY <1>1, <1>2, <1>3 DEF CopyInv, StoredInv, ClosedInv, Closed
  <1>6. Follows(Ent(list), Ent(list))
        BY CopyType, EntriesOnce DEF CopyInv, OnceInv, Follows
  <1>7. OrderInv'
        BY <1>1, <1>2, <1>6 DEF CopyInv, OrderInv, Follows, Closed
  <1>8. JobInv'
        BY <1>1 DEF CopyInv, JobInv, Old, Current
  <1> QED
      BY <1>4, <1>5, <1>7, <1>8 DEF CopyInv

LEMMA CopyWrite ==
  ASSUME TypeInv, CopyInv, EnqueueWrite
  PROVE  CopyInv'
  <1> DEFINE e == Entered(registry.job, Submitted)
  <1>1. /\ registry.op = "write" /\ registry.job \in Job /\ registry' = Rest
        /\ UNCHANGED <<jobs, watcher, todo, kept, item>>
        /\ list' = Append(saw, e) /\ saw' = <<>> /\ saw \in Seq(Entry)
    <2>1. registry.op = "write" /\ registry.job \in Job /\ saw \in Seq(Entry)
          BY DEF EnqueueWrite, TypeInv, TypeOK, Rest
    <2> QED
        BY <2>1 DEF EnqueueWrite, store, watch, bounds
  <1>2. e \in Entry /\ e.job = registry.job /\ ~Closed(e)
        BY <1>1 DEF Entered, Entry, Submitted, Record, States, Closed, Ended
  <1> HIDE DEF e
  <1>3. Ent(list)' = Ent(saw) \cup {e} /\ Ent(saw)' = {} /\ Pass' = Pass
    <2>1. Ent(list)' = Ent(list') /\ Ent(saw)' = Ent(<<>>) /\ Pass' = Pass
          BY <1>1 DEF Ent, Pass, InPass
    <2> QED
        BY <1>1, <1>2, <2>1, EntriesAppend, EntriesEmpty
  <1>4. BeingAdded(e.job) /\ \A j : ~BeingAdded(j)'
        BY <1>1, <1>2 DEF BeingAdded, Rest
  <1>5. \A x \in Copies' : x = e \/ x \in Copies
        BY <1>3 DEF Copies
  <1>6. OnceInv'
    <2>1. ~Holds(saw, e.job)
          BY <1>1, <1>4, EntriesHeld DEF CopyInv, StoredInv, Copies
    <2>2. Distinct(list')
          BY <1>1, <1>2, <2>1, OneMore DEF CopyInv, OnceInv
    <2>3. Distinct(<<>>)
          BY DEF Distinct
    <2> QED
        BY <1>1, <2>2, <2>3 DEF CopyInv, OnceInv, InPass, Distinct, Ent
  <1>7. StoredInv'
    <2>1. jobs[e.job] # NoJob
          BY <1>1, <1>2, <1>4 DEF CopyInv, StoredInv
    <2> QED
        BY <1>1, <1>4, <1>5, <2>1 DEF CopyInv, StoredInv, Rest
  <1>8. ClosedInv'
        BY <1>1, <1>2, <1>5 DEF CopyInv, ClosedInv, Closed
  <1>9. OrderInv'
        BY <1>2, <1>3 DEF CopyInv, OrderInv, Follows, Closed
  <1>10. JobInv'
         BY <1>1 DEF CopyInv, JobInv, Old, Current
  <1> QED
      BY <1>6, <1>7, <1>8, <1>9, <1>10 DEF CopyInv

LEMMA CopyAdd ==
  ASSUME TypeInv, CopyInv, SubmitAdd
  PROVE  CopyInv'
  <1>1. /\ registry.op = "add" /\ registry'.op = "read" /\ registry'.job = registry.job
        /\ registry.job \in Job /\ jobs[registry.job] = NoJob
        /\ jobs' = [jobs EXCEPT ![registry.job] = Submitted]
        /\ UNCHANGED <<list, saw, todo, kept, watcher, item>>
        BY DEF SubmitAdd, watch, bounds, history, TypeInv, TypeOK, Rest, CopyInv, StoredInv
  <1>2. /\ \A j \in Job : j # registry.job => jobs'[j] = jobs[j]
        /\ jobs'[registry.job] = Submitted /\ Submitted # NoJob
        BY <1>1 DEF TypeInv, TypeOK, Submitted, NoJob
  <1>3. /\ Copies' = Copies /\ Pass' = Pass /\ Ent(list)' = Ent(list) /\ Ent(saw)' = Ent(saw)
        BY <1>1 DEF Copies, Pass, InPass, Ent
  <1>4. \A x \in Copies : x.job \in Job /\ x.job # registry.job /\ jobs'[x.job] = jobs[x.job]
        BY <1>1, <1>2, CopyType DEF CopyInv, StoredInv
  <1>5. \A j : BeingAdded(j)' <=> j = registry.job
        BY <1>1 DEF BeingAdded
  <1>6. OnceInv' /\ OrderInv'
        BY <1>1, <1>3 DEF CopyInv, OnceInv, OrderInv, Follows, Closed, InPass, Distinct, Ent
  <1>7. StoredInv' /\ ClosedInv'
        BY <1>1, <1>2, <1>3, <1>4, <1>5 DEF CopyInv, StoredInv, ClosedInv, Closed
  <1>8. JobInv'
    <2>1. watcher = "report" => jobs'[Current] = jobs[Current]
      <3>1. SUFFICES ASSUME watcher = "report" PROVE jobs'[Current] = jobs[Current]
            OBVIOUS
      <3>2. Current \in Job
            BY <3>1, CurrentType DEF TypeInv, AtJob
      <3>3. Current # registry.job
            BY <1>1, <3>1 DEF CopyInv, JobInv, NoJob, Ended
      <3> QED
          BY <1>2, <3>2, <3>3
    <2> QED
        BY <1>1, <2>1 DEF CopyInv, JobInv, Old, Current
  <1> QED
      BY <1>6, <1>7, <1>8 DEF CopyInv

LEMMA CopyStore ==
  ASSUME TypeInv, CopyInv, StoreJob
  PROVE  CopyInv'
  <1> DEFINE e == Entered(Current, item.new)
             rest == Tail(todo)
  <1>1. /\ watcher = "store" /\ watcher' = (IF item.keep THEN "pass" ELSE "report") /\ todo # <<>>
        /\ kept' = (IF item.keep THEN Append(kept, e) ELSE kept)
        /\ todo' = (IF item.keep THEN rest ELSE todo)
        /\ jobs' = (IF item.new.state = item.old.state THEN jobs ELSE [jobs EXCEPT ![Current] = item.new])
        /\ UNCHANGED <<list, saw, registry, item>>
        /\ kept \in Seq(Entry) /\ todo \in Seq(Entry) /\ rest \in Seq(Entry)
        /\ item.new \in Record /\ item.old = Old /\ Current \in Job
        BY CurrentType DEF StoreJob, TypeInv, TypeOK, AtJob, store, bounds, history
  <1>2. e \in Entry /\ e.job = Current /\ e.record = item.new
        BY <1>1 DEF Entered, Entry
  <1> HIDE DEF e
  <1>3. /\ Ent(todo) = {Head(todo)} \cup Ent(rest) /\ Ent(Append(kept, e)) = Ent(kept) \cup {e}
        /\ \A x \in Ent(rest) : x.job # Current
        /\ Distinct(todo) /\ Distinct(rest) /\ Distinct(kept)
        /\ Pass = Ent(todo) \cup Ent(kept)
    <2>1. Distinct(todo) /\ Distinct(kept)
          BY <1>1 DEF CopyInv, OnceInv, InPass
    <2> QED
        BY <1>1, <1>2, <2>1, EntriesFirst, EntriesAppend, FirstAndRest DEF Current, Pass, InPass
  <1>4. \A x \in Ent(kept) : x.job # Current
        BY <1>1, <1>3 DEF CopyInv, OnceInv, InPass, Current
  <1>5. Head(todo) \in Pass /\ Head(todo).job = Current /\ ~Closed(Head(todo))
        BY <1>1, <1>3 DEF CopyInv, JobInv, Closed, Old, Current
  <1>6. \A x \in Ent(list) \cup Ent(saw) : x.job = Current => ~Closed(x)
        BY <1>5 DEF CopyInv, OrderInv, Follows
  <1>7. /\ \A j \in Job : j # Current => jobs'[j] = jobs[j]
        /\ jobs'[Current] = item.new \/ (jobs'[Current] = jobs[Current] /\ item.new.state = Old.state)
        BY <1>1 DEF TypeInv, TypeOK
  <1>8. Ent(list)' = Ent(list) /\ Ent(saw)' = Ent(saw) /\ Ent(kept)' \subseteq Ent(kept) \cup {e}
    <2>1. Ent(kept)' = Ent(kept')
          BY DEF Ent
    <2> QED
        BY <1>1, <1>3, <2>1 DEF Ent
  <1>9. Pass' \subseteq Pass \cup {e} /\ Copies' \subseteq Copies \cup {e}
    <2>1. Ent(todo)' = Ent(todo')
          BY DEF Ent
    <2>2. Ent(todo)' \subseteq Ent(todo)
          BY <1>1, <1>3, <2>1
    <2> QED
        BY <1>3, <1>8, <2>2 DEF Pass, Copies
  <1>10. \A x \in Pass' : x # e /\ Closed(x) => x.job # Current
    <2>1. CASE item.keep
      <3>1. Ent(todo)' = Ent(rest) /\ Ent(kept)' \subseteq Ent(kept) \cup {e}
            BY <1>1, <1>8, <2>1 DEF Ent
      <3> QED
          BY <1>3, <1>4, <3>1 DEF Pass
    <2>2. CASE ~item.keep
      <3>1. Ent(todo)' = Ent(todo) /\ Ent(kept)' = Ent(kept)
            BY <1>1, <2>2 DEF Ent
      <3> QED
          BY <1>1, <1>3, <1>4, <1>5, <2>2, <3>1 DEF Pass
    <2> QED
        BY <2>1, <2>2
  <1>11. jobs[Current] # NoJob /\ ~BeingAdded(Current) /\ item.new # NoJob
    <2>1. item.new # NoJob
          BY <1>1 DEF Record, States, NoJob
    <2> QED
        BY <1>5, <2>1 DEF CopyInv, StoredInv, Copies
  <1>12. OnceInv'
    <2>1. ~Holds(kept, e.job)
          BY <1>1, <1>2, <1>4, EntriesHeld
    <2>2. Distinct(Append(kept, e))
          BY <1>1, <1>2, <1>3, <2>1, OneMore
    <2>3. Distinct(kept') /\ Distinct(todo')
          BY <1>1, <1>3, <2>2
    <2>4. \A a \in Ent(todo'), b \in Ent(kept') : a.job # b.job
      <3>1. CASE item.keep
        <4>1. Ent(todo') = Ent(rest) /\ Ent(kept') = Ent(kept) \cup {e}
              BY <1>1, <1>3, <3>1
        <4> QED
            BY <1>1, <1>2, <1>3, <4>1 DEF CopyInv, OnceInv, InPass
      <3>2. CASE ~item.keep
            BY <1>1, <3>2 DEF CopyInv, OnceInv, InPass
      <3> QED
          BY <3>1, <3>2
    <2> QED
        BY <1>1, <2>3, <2>4 DEF CopyInv, OnceInv, Distinct, Ent
  <1>13. StoredInv'
    <2>1. \A j \in Job : jobs[j] # NoJob => jobs'[j] # NoJob
          BY <1>7, <1>11
    <2>2. \A j : BeingAdded(j)' <=> BeingAdded(j)
          BY <1>1 DEF BeingAdded
    <2>3. registry.op = "add" => registry.job # Current
          BY <1>11 DEF CopyInv, StoredInv
    <2>4. registry.op = "add" => registry.job \in Job
          BY DEF TypeInv, TypeOK, Rest
    <2>5. \A x \in Copies \cup {e} : jobs'[x.job] # NoJob /\ ~BeingAdded(x.job)
          BY <1>2, <1>1, <1>11, <2>1, CopyType DEF CopyInv, StoredInv
    <2>6. registry.op = "add" => jobs'[registry.job] = NoJob
          BY <1>7, <2>3, <2>4 DEF CopyInv, StoredInv
    <2>7. \A j \in Job : BeingAdded(j)' => jobs'[j] # NoJob
          BY <2>1, <2>2 DEF CopyInv, StoredInv
    <2> QED
        BY <1>1, <1>9, <2>2, <2>5, <2>6, <2>7 DEF StoredInv
  <1>14. ClosedInv'
    <2>1. Closed(e) => jobs'[Current].state \in Ended
          BY <1>1, <1>2, <1>7 DEF CopyInv, JobInv, Closed
    <2>2. ASSUME NEW x \in Copies', x # e, Closed(x) PROVE jobs'[x.job].state \in Ended
      <3>1. x \in Copies /\ x.job \in Job
            BY <1>9, <2>2, CopyType
      <3>2. x.job # Current
            BY <1>6, <1>8, <1>10, <2>2 DEF Copies
      <3> QED
          BY <1>7, <2>2, <3>1, <3>2 DEF CopyInv, ClosedInv
    <2> QED
        BY <1>2, <2>1, <2>2 DEF ClosedInv, Closed
  <1>15. OrderInv'
    <2>1. \A a \in Ent(list) \cup Ent(saw) : a.job = e.job => ~Closed(a)
          BY <1>2, <1>6
    <2> QED
        BY <1>8, <1>9, <2>1 DEF CopyInv, OrderInv, Follows, Closed
  <1>16. JobInv'
    <2>1. SUFFICES ASSUME watcher' = "report" PROVE jobs'[Current'].state \in Ended
          BY <1>1 DEF JobInv
    <2>2. ~item.keep /\ Current' = Current
          BY <1>1, <2>1 DEF Current
    <2>3. item.new.state = "finished" /\ Old.state \notin Ended
          BY <1>1, <2>2 DEF CopyInv, JobInv
    <2> QED
        BY <1>7, <2>2, <2>3 DEF Ended
  <1> QED
      BY <1>12, <1>13, <1>14, <1>15, <1>16 DEF CopyInv

LEMMA CopyReport ==
  ASSUME TypeInv, CopyInv, ReportJob
  PROVE  CopyInv'
  <1>1. /\ watcher = "report" /\ watcher' = "pass" /\ todo # <<>> /\ todo' = Tail(todo)
        /\ todo \in Seq(Entry)
        /\ UNCHANGED <<jobs, list, saw, kept, registry>>
        BY DEF ReportJob, TypeInv, TypeOK, AtJob, store
  <1>2. Ent(todo)' \subseteq Ent(todo) /\ Distinct(todo') /\ Distinct(todo)'
    <2>1. Distinct(todo)
          BY <1>1 DEF CopyInv, OnceInv, InPass
    <2>2. Ent(todo') \subseteq Ent(todo) /\ Distinct(todo')
          BY <1>1, <2>1, EntriesFirst, FirstAndRest
    <2> QED
        BY <2>2 DEF Ent, Distinct
  <1>3. /\ Ent(list)' = Ent(list) /\ Ent(saw)' = Ent(saw) /\ Ent(kept)' = Ent(kept)
        /\ Pass' \subseteq Pass /\ Copies' \subseteq Copies
        BY <1>1, <1>2 DEF Copies, Pass, InPass, Ent
  <1>4. OnceInv'
        BY <1>1, <1>2, <1>3 DEF CopyInv, OnceInv, InPass, Distinct
  <1>5. StoredInv' /\ ClosedInv' /\ OrderInv'
        BY <1>1, <1>3 DEF CopyInv, StoredInv, ClosedInv, OrderInv, Follows, Closed, BeingAdded
  <1>6. JobInv'
        BY <1>1 DEF JobInv
  <1> QED
      BY <1>4, <1>5, <1>6 DEF CopyInv

LEMMA CopyRestart ==
  ASSUME TypeInv, Restart
  PROVE  CopyInv'
  <1>1. PICK order \in Bijection(1..Cardinality(Loaded), Loaded) :
               list' = [i \in DOMAIN order |-> Entered(order[i], files[order[i]])]
        BY DEF Restart
  <1> DEFINE n == Cardinality(Loaded)
  <1>2. n \in Nat
        BY LoadedSize
  <1> HIDE DEF n
  <1>3. order \in [1..n -> Loaded] /\ \A i, k \in 1..n : order[i] = order[k] => i = k
    <2>1. order \in Injection(1..n, Loaded)
          BY <1>1 DEF Bijection, n
    <2> QED
        BY <2>1 DEF Injection, IsInjective
  <1>4. /\ Len(list') = n
        /\ \A i \in 1..n : list'[i].job = order[i] /\ list'[i].record = files[order[i]]
        BY <1>1, <1>2, <1>3 DEF Entered
  <1>5. watcher' = "sleep" /\ registry' = Rest /\ jobs' = files /\ saw' = <<>>
        BY DEF Restart
  <1>6. Distinct(list)' /\ Distinct(saw)' /\ ~InPass'
        BY <1>3, <1>4, <1>5 DEF Distinct, InPass
  <1>7. Copies' = Ent(list)' /\ Pass' = {} /\ Ent(saw)' = {}
    <2>1. Ent(saw)' = {}
          BY <1>5, EntriesEmpty DEF Ent
    <2> QED
        BY <1>6, <2>1 DEF Copies, Pass
  <1>8. \A e \in Ent(list)' : e.job \in Loaded /\ e.record = files[e.job]
        BY <1>3, <1>4 DEF Ent
  <1>9. \A j : ~BeingAdded(j)'
        BY <1>5 DEF BeingAdded, Rest
  <1>10. StoredInv'
         BY <1>5, <1>7, <1>8, <1>9 DEF StoredInv, Rest, Loaded, NoJob
  <1>11. ClosedInv'
         BY <1>5, <1>7, <1>8 DEF ClosedInv, Closed
  <1>12. OnceInv' /\ OrderInv' /\ JobInv'
         BY <1>5, <1>6, <1>7 DEF OnceInv, OrderInv, Follows, JobInv
  <1> QED
      BY <1>10, <1>11, <1>12 DEF CopyInv

LEMMA CopyStep == TypeInv /\ CopyInv /\ [Next]_vars => CopyInv'
  <1> SUFFICES ASSUME TypeInv, CopyInv, [Next]_vars PROVE CopyInv'
      OBVIOUS
  <1>1. CASE Engine \/ UNCHANGED vars
    <2>1. UNCHANGED <<jobs, list, saw, todo, kept, watcher, item, registry>>
          BY <1>1 DEF Engine, SessionStarts, ScriptEnds, vars, store, watch
    <2> QED
        BY <2>1, CopyAside DEF BeingAdded, CopyInv, StoredInv
  <1>2. ASSUME NEW j \in Job, SubmitSession(j) PROVE CopyInv'
    <2>1. /\ UNCHANGED <<jobs, list, saw, todo, kept, watcher, item>>
          /\ registry.op = "rest" /\ jobs[j] = NoJob
          /\ registry' = registry \/ registry' = [op |-> "add", job |-> j]
          BY <1>2 DEF SubmitSession, store, watch, Rest
    <2> QED
        BY <2>1, CopyAside DEF BeingAdded
  <1>3. CASE DeleteJob \/ \E j \in Job : DeleteFile(j)
    <2>1. /\ UNCHANGED <<jobs, list, saw, todo, kept, watcher, item>>
          /\ registry'.op \in {"rest", "delete"}
          BY <1>3 DEF DeleteJob, DeleteFile, store, watch, Rest
    <2> QED
        BY <2>1, CopyAside DEF BeingAdded
  <1>4. CASE Enqueue
        BY <1>4, CopyAdd, CopyRead, CopyWrite DEF Enqueue
  <1>5. CASE PassStarts
    <2>1. /\ watcher = "sleep" /\ watcher' = "pass" /\ todo' = list /\ kept' = <<>>
          /\ UNCHANGED <<jobs, list, saw, item, registry>>
          BY <1>5 DEF PassStarts, store
    <2>2. /\ Ent(list)' = Ent(list) /\ Ent(saw)' = Ent(saw) /\ Ent(todo)' = Ent(list) /\ Ent(kept)' = {}
          BY <2>1, EntriesEmpty DEF Ent
    <2>3. Pass' = Ent(list) /\ Copies' \subseteq Copies
          BY <2>1, <2>2 DEF Pass, InPass, Copies
    <2>4. OnceInv'
          BY <2>1, <2>2 DEF CopyInv, OnceInv, Distinct
    <2>5. StoredInv' /\ ClosedInv'
          BY <2>1, <2>3 DEF CopyInv, StoredInv, ClosedInv, Closed, BeingAdded
    <2>6. Follows(Ent(list), Ent(list))
          BY CopyType, EntriesOnce DEF CopyInv, OnceInv, Follows
    <2>7. OrderInv'
          BY <2>1, <2>2, <2>3, <2>6 DEF CopyInv, OrderInv, Follows, Closed
    <2>8. JobInv'
          BY <2>1 DEF JobInv
    <2> QED
        BY <2>4, <2>5, <2>7, <2>8 DEF CopyInv
  <1>6. CASE GetSession \/ AskStatement \/ RunScript \/ EndSession \/ FinishJob
    <2>1. /\ watcher = "pass" /\ watcher' = "store" /\ item'.keep /\ Old.state \notin Ended
          /\ UNCHANGED <<jobs, list, saw, todo, kept, registry>>
          BY <1>6 DEF GetSession, AskStatement, RunScript, EndSession, FinishJob, Becomes, Turn,
             Runnable, Ended, Old, store
    <2> QED
        BY <2>1, CopyLearnt
  <1>7. CASE EngineRefuses
    <2>1. /\ watcher = "pass" /\ watcher' = "store" /\ Old.state \notin Ended
          /\ item'.new = [Old EXCEPT !.state = "finished"]
          /\ todo # <<>> /\ UNCHANGED <<jobs, list, saw, todo, kept, registry>>
          BY <1>7 DEF EngineRefuses, Turn, Asked, Runnable, Ended, Old, store
    <2>2. item'.new.state = "finished"
          BY <2>1, CurrentType DEF Record
    <2> QED
        BY <2>1, <2>2, CopyLearnt
  <1>8. CASE RemoveEnded \/ EngineLost
    <2>1. /\ watcher = "pass" /\ watcher' \in {"report", "dead"} /\ todo # <<>>
          /\ UNCHANGED <<jobs, list, saw, todo, kept, registry>>
          BY <1>8 DEF RemoveEnded, EngineLost, Turn, store
    <2>2. watcher' = "report" => Old.state \in Ended
          BY <1>8 DEF RemoveEnded, EngineLost, Turn, Old
    <2>3. /\ Ent(list)' = Ent(list) /\ Ent(saw)' = Ent(saw) /\ Ent(todo)' = Ent(todo) /\ Ent(kept)' = Ent(kept)
          /\ Pass' \subseteq Pass /\ Copies' \subseteq Copies
          BY <2>1 DEF Pass, InPass, Copies, Ent
    <2>4. OnceInv'
          BY <2>1, <2>3 DEF CopyInv, OnceInv, InPass, Distinct
    <2>5. StoredInv' /\ ClosedInv' /\ OrderInv'
          BY <2>1, <2>3 DEF CopyInv, StoredInv, ClosedInv, OrderInv, Follows, Closed, BeingAdded
    <2>6. Head(todo) \in Copies
          BY <2>1, EntriesFirst, CopyType DEF Copies, Pass, InPass
    <2>7. JobInv'
          BY <2>1, <2>2, <2>6 DEF JobInv, CopyInv, ClosedInv, Closed, Current, Old
    <2> QED
        BY <2>4, <2>5, <2>7 DEF CopyInv
  <1>9. CASE StoreJob
        BY <1>9, CopyStore
  <1>10. CASE ReportJob
         BY <1>10, CopyReport
  <1>11. CASE PassEnds
    <2>1. /\ watcher = "pass" /\ watcher' = "sleep" /\ list' = kept
          /\ UNCHANGED <<jobs, saw, registry>>
          BY <1>11 DEF PassEnds, store
    <2>2. /\ Ent(list)' = Ent(kept) /\ Ent(saw)' = Ent(saw) /\ Pass' = {} /\ Ent(kept) \subseteq Pass
          BY <2>1 DEF Ent, Pass, InPass
    <2>3. Copies' \subseteq Copies
          BY <2>2 DEF Copies
    <2>4. OnceInv'
          BY <2>1 DEF CopyInv, OnceInv, InPass, Distinct
    <2>5. StoredInv' /\ ClosedInv'
          BY <2>1, <2>3 DEF CopyInv, StoredInv, ClosedInv, Closed, BeingAdded
    <2>6. OrderInv' /\ JobInv'
          BY <2>1, <2>2 DEF CopyInv, OrderInv, Follows, Closed, JobInv
    <2> QED
        BY <2>4, <2>5, <2>6 DEF CopyInv
  <1>12. CASE Restart
         BY <1>12, CopyRestart
  <1> QED
      BY <1>1, <1>2, <1>3, <1>4, <1>5, <1>6, <1>7, <1>8, <1>9, <1>10, <1>11, <1>12
      DEF Next, Registry, Watcher

\* The end of a job is reported, to its user and to the log, only when the store
\* shows that it has ended: even for a job that the watcher works on from an
\* entry older than the record, after a submit has overlapped with a pass.
THEOREM AlwaysReportedHasEnded == Spec => []ReportedHasEnded
  <1>1. CopyInv => ReportedHasEnded
        BY DEF CopyInv, JobInv, ReportedHasEnded
  <1> QED
      BY <1>1, TypeInit, TypeStep, CopyInit, CopyStep, PTL DEF Spec
=============================================================================
