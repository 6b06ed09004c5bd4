-------------------------- MODULE WfRuntimeProofs --------------------------
(***************************************************************************)
(* Proofs about the thread runtime: for every workflow, queue size, number *)
(* of callers and events.  The statements a thread has still to execute    *)
(* carry the invariants: StatementOf(l) narrows what a worker may be doing *)
(* to the exec its link points to.                                         *)
(***************************************************************************)
EXTENDS WfRuntime, TLAPS, FiniteSetTheorems, FunctionTheorems

Record == [status: Status \cup {"none"}, count: Nat]
Result == [data: Data, result: {"ok", "stop", "fail"}, by: Thread]

LEMMA LinkFacts ==
  /\ Link \subseteq Nat
  /\ \A l \in Link : Links[l] \in [from: Exec, out: STRING, to: Exec, in: STRING]
  /\ \A l \in Link : Links[l].from \in Exec /\ Links[l].to \in Exec
<1> DEFINE LinkType == [from: Exec, out: STRING, to: Exec, in: STRING]
<1>1. Links \in Seq(LinkType)
  BY RuntimeAssumption
<1> HIDE DEF LinkType
<1>2. Link \subseteq Nat /\ \A l \in Link : Links[l] \in LinkType
  BY <1>1 DEF Link
<1>. QED  BY <1>2 DEF LinkType

LEMMA StatementTypes ==
  /\ \A ls \in SUBSET Link, e \in Event : Send(ls, e) \in Statement
  /\ \A x \in Exec, d \in Data, n \in Nat : Call(x, d, n) \in Statement
  /\ \A l \in Link : RunLink(l) \in Statement /\ StopLink(l) \in Statement
  /\ \A s \in Status : SetExecs(s) \in Statement
  /\ ReadState \in Statement
  /\ \A c \in {"commit", "RUNNING", "STOPPED"} : WriteState(c) \in Statement
BY DEF Statement, Send, Call, RunLink, StopLink, SetExecs, ReadState, WriteState

LEMMA ProgramTypes ==
  /\ Commit \in Seq(Statement)
  /\ StartProgram \in Seq(Statement)
  /\ StopProgram \in Seq(Statement)
<1>1. \A c \in {"commit", "RUNNING", "STOPPED"} : <<ReadState, WriteState(c)>> \in Seq(Statement)
  BY StatementTypes
<1>2. \A s \in Status : <<SetExecs(s)>> \in Seq(Statement)
  BY StatementTypes
<1>3. [l \in Link |-> RunLink(l)] \in Seq(Statement)
  <2>1. [l \in Link |-> RunLink(l)] \in [1..Len(Links) -> Statement]
    BY StatementTypes DEF Link
  <2>. QED  BY <2>1, RuntimeAssumption
<1>4. [l \in Link |-> StopLink(l)] \in Seq(Statement)
  <2>1. [l \in Link |-> StopLink(l)] \in [1..Len(Links) -> Statement]
    BY StatementTypes DEF Link
  <2>. QED  BY <2>1, RuntimeAssumption
<1>5. "RUNNING" \in Status /\ "STOPPED" \in Status
  BY DEF Status
<1>6. Commit \in Seq(Statement)
  BY <1>1 DEF Commit
<1>7. StartProgram \in Seq(Statement)
  BY <1>1, <1>2, <1>3, <1>5 DEF StartProgram, Update
<1>8. StopProgram \in Seq(Statement)
  BY <1>1, <1>2, <1>4, <1>5 DEF StopProgram, Update
<1>. QED  BY <1>6, <1>7, <1>8

LEMMA OnEventType ==
  ASSUME NEW x \in Exec, NEW e \in Event
  PROVE  OnEvent(x, e) \in Seq(Statement)
BY StatementTypes DEF OnEvent, Event, Stop

LEMMA EmitType ==
  ASSUME NEW x \in Exec, NEW let, NEW d \in Data
  PROVE  EmitProgram(x, let, d) \in Seq(Statement)
<1>1. InLink(x, let) \in SUBSET Link /\ d \in Event
  BY DEF InLink, Event
<1>. QED  BY <1>1, StatementTypes, OnEventType DEF EmitProgram

LEMMA AfterExecType ==
  ASSUME NEW x \in Exec, NEW d \in Data, NEW n \in Nat, NEW outcome \in {"ok", "fail", "stop"}
  PROVE  AfterExec(x, d, n, outcome) \in Seq(Statement)
<1>1. d \in Event /\ BroadcastLinks(x) \in SUBSET Link /\ ErrorLinks(x) \in SUBSET Link
  BY DEF Event, BroadcastLinks, ErrorLinks, Outlets
<1>2. CASE outcome = "ok"
  <2>1. Units[x] \in Nat
    BY RuntimeAssumption
  <2>2. [i \in 1..Units[x] |-> Send(BroadcastLinks(x), d)] \in [1..Units[x] -> Statement]
    BY <1>1, StatementTypes
  <2>3. [i \in 1..Units[x] |-> Send(BroadcastLinks(x), d)] \in Seq(Statement)
    BY <2>1, <2>2
  <2>. QED  BY <1>2, <2>3, ProgramTypes DEF AfterExec
<1>3. CASE outcome = "stop"
  BY <1>3, ProgramTypes DEF AfterExec
<1>4. CASE outcome = "fail"
  <2>1. n + 1 \in Nat
    OBVIOUS
  <2>. QED  BY <1>1, <1>4, <2>1, StatementTypes DEF AfterExec
<1>. QED  BY <1>2, <1>3, <1>4

LEMMA RunningHead ==
  ASSUME TypeOK, NEW t \in Thread, NEW k, Running(t, k)
  PROVE  /\ prog[t] \in Seq(Statement)
         /\ Head(prog[t]) \in Statement
         /\ Head(prog[t]).op = k
         /\ Tail(prog[t]) \in Seq(Statement)
BY DEF TypeOK, Running

LEMMA HeadFields ==
  ASSUME NEW s \in Statement
  PROVE  /\ s.op = "send" => s.links \in SUBSET Link /\ s.event \in Event
         /\ s.op = "exec" => s.exec \in Exec /\ s.data \in Data /\ s.retry \in Nat
         /\ s.op \in {"run", "stop"} => s.link \in Link
         /\ s.op = "execs" => s.status \in Status
         /\ s.op = "write" => s.change \in {"commit", "RUNNING", "STOPPED"}
BY DEF Statement
-----------------------------------------------------------------------------
LEMMA InitTypeOK == Init => TypeOK
<1> SUFFICES ASSUME Init PROVE TypeOK
  OBVIOUS
<1>1. store \in Record /\ snap \in [Thread -> Record] /\ wstate \in Status
  BY RuntimeAssumption DEF Init, NoState, Record, Status
<1>2. begun \in BOOLEAN
  BY DEF Init
<1>. QED  BY <1>1, <1>2, RuntimeAssumption DEF Init, TypeOK, Record, Status

LEMMA NextTypeOK == TypeOK /\ [Next]_vars => TypeOK'
<1> SUFFICES ASSUME TypeOK, [Next]_vars PROVE TypeOK'
  OBVIOUS
<1> USE DEF state, calls
<1>1. ASSUME NEW l \in Link, LoopTest(l) PROVE TypeOK'
  BY <1>1 DEF LoopTest, TypeOK
<1>2. ASSUME NEW l \in Link, Take(l) PROVE TypeOK'
  <2>1. /\ queue[l] \in Seq(Event) /\ queue[l] # <<>>
        /\ Head(queue[l]) \in Event /\ Tail(queue[l]) \in Seq(Event)
        /\ Len(Tail(queue[l])) <= QueueSize
    BY <1>2, RuntimeAssumption DEF Take, TypeOK
  <2>2. OnEvent(Links[l].to, Head(queue[l])) \in Seq(Statement)
    BY <2>1, LinkFacts, OnEventType
  <2>3. prog' \in [Thread -> Seq(Statement)]
    BY <1>2, <2>2 DEF Take, TypeOK
  <2>4. queue' \in [Link -> Seq(Event)] /\ \A k \in Link : Len(queue'[k]) <= QueueSize
    BY <1>2, <2>1 DEF Take, TypeOK
  <2>5. worker' \in [Link -> {"new", "take", "busy", "done"}] /\ late' \in [Link -> Nat]
    BY <1>2 DEF Take, TypeOK
  <2>. QED  BY <1>2, <2>3, <2>4, <2>5 DEF Take, TypeOK
<1>3. ASSUME NEW t \in Thread, ExecStep(t) PROVE TypeOK'
  <2> DEFINE c == Head(prog[t])
  <2>1. c \in Statement /\ c.op = "exec" /\ Tail(prog[t]) \in Seq(Statement)
    BY <1>3, RunningHead DEF ExecStep
  <2>2. c.exec \in Exec /\ c.data \in Data /\ c.retry \in Nat
    BY <2>1, HeadFields
  <2> HIDE DEF c
  <2>3. PICK outcome \in Outcomes[c.exec] \ {"throw"} :
          /\ prog' = [prog EXCEPT ![t] = AfterExec(c.exec, c.data, c.retry, outcome) \o Tail(@)]
          /\ log' = IF outcome = "fail" /\ c.retry < RetryMax[c.exec] THEN log
                    ELSE [log EXCEPT ![c.exec] = Append(@, [data |-> c.data, result |-> outcome, by |-> t])]
    BY <1>3 DEF ExecStep, c
  <2>4. outcome \in {"ok", "fail", "stop"}
    BY <2>2, RuntimeAssumption
  <2>5. AfterExec(c.exec, c.data, c.retry, outcome) \o Tail(prog[t]) \in Seq(Statement)
    <3>1. AfterExec(c.exec, c.data, c.retry, outcome) \in Seq(Statement)
      BY <2>2, <2>4, AfterExecType
    <3>. QED  BY <2>1, <3>1
  <2>6. prog' \in [Thread -> Seq(Statement)]
    BY <2>3, <2>5 DEF TypeOK
  <2>7. log' \in [Exec -> Seq(Result)]
    <3>1. [data |-> c.data, result |-> outcome, by |-> t] \in Result
      BY <2>2, <2>4 DEF Result
    <3>2. log \in [Exec -> Seq(Result)]
      BY DEF TypeOK, Result
    <3>. QED  BY <2>2, <2>3, <3>1, <3>2
  <2>. QED  BY <1>3, <2>6, <2>7 DEF ExecStep, TypeOK, Result
<1>4. ASSUME NEW t \in Thread, ExecThrow(t) PROVE TypeOK'
  <2>1. prog' \in [Thread -> Seq(Statement)]
    BY <1>4 DEF ExecThrow, TypeOK
  <2>. QED  BY <1>4, <2>1 DEF ExecThrow, TypeOK
<1>5. ASSUME NEW t \in Thread, SendStep(t) PROVE TypeOK'
  <2> DEFINE s == Head(prog[t])
  <2>1. s \in Statement /\ s.op = "send" /\ Tail(prog[t]) \in Seq(Statement)
    BY <1>5, RunningHead DEF SendStep, HasRoom, Put
  <2>2. s.links \in SUBSET Link /\ s.event \in Event
    BY <2>1, HeadFields
  <2> HIDE DEF s
  <2>3. PICK l \in s.links :
          /\ Len(queue[l]) < QueueSize
          /\ queue' = [queue EXCEPT ![l] = Append(@, s.event)]
          /\ prog' = [prog EXCEPT ![t] = Rest(s, l) \o Tail(@)]
    BY <1>5 DEF SendStep, HasRoom, Put, s
  <2>4. Rest(s, l) \o Tail(prog[t]) \in Seq(Statement)
    <3>1. s.links \ {l} \in SUBSET Link
      BY <2>2
    <3>2. Rest(s, l) \in Seq(Statement)
      <4>1. Send(s.links \ {l}, s.event) \in Statement
        BY <2>2, <3>1, StatementTypes
      <4>. QED  BY <4>1 DEF Rest
    <3>. QED  BY <2>1, <3>2
  <2>5. prog' \in [Thread -> Seq(Statement)]
    BY <2>3, <2>4 DEF TypeOK
  <2>6. queue' \in [Link -> Seq(Event)] /\ \A k \in Link : Len(queue'[k]) <= QueueSize
    BY <2>2, <2>3, RuntimeAssumption DEF TypeOK
  <2>. QED  BY <1>5, <2>5, <2>6 DEF SendStep, HasRoom, Put, TypeOK
<1>6. ASSUME NEW t \in Thread, SendDone(t) PROVE TypeOK'
  <2>1. prog' \in [Thread -> Seq(Statement)]
    BY <1>6, RunningHead DEF SendDone, Pop, TypeOK
  <2>. QED  BY <1>6, <2>1 DEF SendDone, TypeOK
<1>7. ASSUME NEW t \in Thread, RunStep(t) PROVE TypeOK'
  <2>1. prog' \in [Thread -> Seq(Statement)]
    BY <1>7, RunningHead DEF RunStep, Pop, TypeOK
  <2>. QED  BY <1>7, <2>1 DEF RunStep, TypeOK
<1>8. ASSUME NEW t \in Thread, StopStep(t) PROVE TypeOK'
  <2>1. Head(prog[t]) \in Statement /\ Head(prog[t]).op = "stop" /\ Tail(prog[t]) \in Seq(Statement)
    BY <1>8, RunningHead DEF StopStep
  <2>2. Head(prog[t]).link \in Link
    BY <2>1, HeadFields
  <2>3. <<Send({Head(prog[t]).link}, Stop)>> \o Tail(prog[t]) \in Seq(Statement)
    BY <2>1, <2>2, StatementTypes DEF Event
  <2>4. prog' \in [Thread -> Seq(Statement)]
    BY <1>8, <2>3 DEF StopStep, TypeOK
  <2>. QED  BY <1>8, <2>4 DEF StopStep, TypeOK
<1>9. ASSUME NEW t \in Thread, ExecsStep(t) PROVE TypeOK'
  <2>1. prog' \in [Thread -> Seq(Statement)]
    BY <1>9, RunningHead DEF ExecsStep, Pop, TypeOK
  <2>2. Head(prog[t]).status \in Status
    BY <1>9, RunningHead, HeadFields DEF ExecsStep
  <2>. QED  BY <1>9, <2>1, <2>2 DEF ExecsStep, TypeOK
<1>10. ASSUME NEW t \in Thread, ReadStep(t) PROVE TypeOK'
  <2>1. prog' \in [Thread -> Seq(Statement)]
    BY <1>10, RunningHead DEF ReadStep, Pop, TypeOK
  <2>. QED  BY <1>10, <2>1 DEF ReadStep, TypeOK
<1>11. ASSUME NEW t \in Thread, WriteStep(t) PROVE TypeOK'
  <2>1. prog' \in [Thread -> Seq(Statement)]
    BY <1>11, RunningHead DEF WriteStep, Pop, TypeOK
  <2>2. Head(prog[t]).change \in {"commit", "RUNNING", "STOPPED"}
    BY <1>11, RunningHead, HeadFields DEF WriteStep
  <2>3. snap[t] \in Record
    BY DEF TypeOK, Record
  <2>4. store' \in Record /\ wstate' \in Status /\ updates' \subseteq {"RUNNING", "STOPPED"}
    <3>1. Modified(snap[t], Head(prog[t]).change) \in Record
      BY <2>2, <2>3 DEF Modified, Record, Status
    <3>. QED  BY <1>11, <2>2, <3>1 DEF WriteStep, TypeOK, Record, Status
  <2>5. snap' \in [Thread -> Record]
    BY <1>11 DEF WriteStep, TypeOK, Record, NoState
  <2>. QED  BY <1>11, <2>1, <2>4, <2>5 DEF WriteStep, TypeOK, Record
<1>12. ASSUME NEW c \in Callers, StartCall(c) PROVE TypeOK'
  <2>1. prog' \in [Thread -> Seq(Statement)]
    BY <1>12, ProgramTypes DEF StartCall, TypeOK
  <2>. QED  BY <1>12, <2>1 DEF StartCall, TypeOK
<1>13. ASSUME NEW c \in Callers, EmitCall(c) PROVE TypeOK'
  <2>1. emitted' \in Data /\ emitted' \in 0..MaxEmits
    BY <1>13, RuntimeAssumption DEF EmitCall, TypeOK, Data
  <2>2. PICK inlet \in Entry : prog' = [prog EXCEPT ![c] = EmitProgram(inlet[1], inlet[2], emitted')]
    BY <1>13 DEF EmitCall
  <2>3. inlet[1] \in Exec
    BY RuntimeAssumption
  <2>4. EmitProgram(inlet[1], inlet[2], emitted') \in Seq(Statement)
    BY <2>1, <2>3, EmitType
  <2>5. prog' \in [Thread -> Seq(Statement)]
    BY <2>2, <2>4 DEF TypeOK
  <2>. QED  BY <1>13, <2>1, <2>5 DEF EmitCall, TypeOK
<1>14. ASSUME NEW c \in Callers, StopCall(c) PROVE TypeOK'
  <2>1. prog' \in [Thread -> Seq(Statement)]
    BY <1>14, ProgramTypes DEF StopCall, TypeOK
  <2>2. stops' \in 0..MaxStops
    BY <1>14, RuntimeAssumption DEF StopCall, TypeOK
  <2>. QED  BY <1>14, <2>1, <2>2 DEF StopCall, TypeOK
<1>15. CASE UNCHANGED vars
  BY <1>15 DEF vars, control, TypeOK
<1>. QED
  BY <1>1, <1>2, <1>3, <1>4, <1>5, <1>6, <1>7, <1>8, <1>9, <1>10, <1>11, <1>12, <1>13, <1>14, <1>15
  DEF Next, Step

\* The state keeps its type, and with it every queue of a RunningThread its
\* bound, whatever the workflow, its executors and its callers are.
THEOREM TypeCorrect == Spec => []TypeOK
BY InitTypeOK, NextTypeOK, PTL DEF Spec
-----------------------------------------------------------------------------
(* At most one event after termination.  The bound alone is not inductive: *)
(* a worker that has delivered its last event must be past the loop's next *)
(* `take`, that is, still busy with it or at its end.                      *)

LateInv ==
  \A l \in Link : /\ late[l] \in {0, 1}
                  /\ late[l] = 1 => terminated[l] /\ worker[l] \in {"busy", "done"}

LEMMA NextLateInv == TypeOK /\ LateInv /\ [Next]_vars => LateInv'
<1> SUFFICES ASSUME TypeOK, LateInv, [Next]_vars PROVE LateInv'
  OBVIOUS
<1>1. ASSUME NEW l \in Link, LoopTest(l) PROVE LateInv'
  BY <1>1 DEF LoopTest, LateInv, TypeOK
<1>2. ASSUME NEW l \in Link, Take(l) PROVE LateInv'
  BY <1>2 DEF Take, LateInv, TypeOK
<1>3. ASSUME NEW t \in Thread, ExecThrow(t) PROVE LateInv'
  BY <1>3 DEF ExecThrow, LateInv, TypeOK
<1>4. ASSUME NEW t \in Thread, RunStep(t) PROVE LateInv'
  BY <1>4 DEF RunStep, LateInv, TypeOK
<1>5. ASSUME NEW t \in Thread, StopStep(t) PROVE LateInv'
  BY <1>5 DEF StopStep, LateInv, TypeOK
<1>6. ASSUME UNCHANGED <<terminated, worker, late>> PROVE LateInv'
  BY <1>6 DEF LateInv
<1>7. ASSUME NEW t \in Thread,
             \/ ExecStep(t) \/ SendStep(t) \/ SendDone(t)
             \/ ExecsStep(t) \/ ReadStep(t) \/ WriteStep(t)
      PROVE  UNCHANGED <<terminated, worker, late>>
  BY <1>7 DEF ExecStep, SendStep, HasRoom, Put, SendDone, ExecsStep, ReadStep, WriteStep
<1>8. ASSUME NEW c \in Callers, StartCall(c) \/ EmitCall(c) \/ StopCall(c)
      PROVE  UNCHANGED <<terminated, worker, late>>
  BY <1>8 DEF StartCall, EmitCall, StopCall
<1>9. UNCHANGED vars => UNCHANGED <<terminated, worker, late>>
  BY DEF vars, control
<1>. QED
  BY <1>1, <1>2, <1>3, <1>4, <1>5, <1>6, <1>7, <1>8, <1>9 DEF Next, Step

\* Whatever stops the workflow and whoever competes for its queues, a link
\* whose RunningThread was told to stop delivers at most one more event.
THEOREM LateBounded == Spec => []LateBound
<1>1. Init => LateInv
  BY DEF Init, LateInv
<1>2. TypeOK /\ LateInv /\ [Next]_vars => LateInv'
  BY NextLateInv
<1>3. LateInv => LateBound
  BY DEF LateInv, LateBound
<1>. QED  BY <1>1, <1>2, <1>3, TypeCorrect, PTL DEF Spec
-----------------------------------------------------------------------------
(* No gridlock.  A worker's program only executes the exec its link points *)
(* to and only sends into links out of that exec, but for the wake-ups of  *)
(* a stop, which go to links already terminated.                           *)

StatementOf(l) ==
  {s \in Statement :
     /\ s.op = "exec" => s.exec = Links[l].to
     /\ s.op = "send" => \A k \in s.links : Links[k].from = Links[l].to \/ terminated[k]}

OwnWork == \A l \in Link : prog[l] \in Seq(StatementOf(l))

LEMMA StatementOfGrows ==
  ASSUME NEW l \in Link, \A k \in Link : terminated[k] => terminated'[k]
  PROVE  StatementOf(l) \subseteq StatementOf(l)'
<1> SUFFICES ASSUME NEW s \in StatementOf(l) PROVE s \in StatementOf(l)'
  OBVIOUS
<1>1. s \in Statement /\ (s.op = "send" => s.links \in SUBSET Link)
  BY HeadFields DEF StatementOf
<1>. QED  BY <1>1 DEF StatementOf

LEMMA OwnPrograms ==
  ASSUME NEW l \in Link
  PROVE  /\ Commit \in Seq(StatementOf(l))
         /\ StopProgram \in Seq(StatementOf(l))
<1>1. \A c \in {"commit", "RUNNING", "STOPPED"} : WriteState(c) \in StatementOf(l)
  BY StatementTypes DEF StatementOf, WriteState
<1>2. ReadState \in StatementOf(l) /\ SetExecs("STOPPED") \in StatementOf(l)
  BY StatementTypes DEF StatementOf, ReadState, SetExecs, Status
<1>3. \A k \in Link : StopLink(k) \in StatementOf(l)
  BY StatementTypes DEF StatementOf, StopLink
<1>4. [k \in Link |-> StopLink(k)] \in Seq(StatementOf(l))
  <2>1. [k \in Link |-> StopLink(k)] \in [1..Len(Links) -> StatementOf(l)]
    BY <1>3 DEF Link
  <2>. QED  BY <2>1, RuntimeAssumption
<1>5. Commit \in Seq(StatementOf(l)) /\ Update("STOPPED") \in Seq(StatementOf(l))
  BY <1>1, <1>2 DEF Commit, Update
<1>6. StopProgram \in Seq(StatementOf(l))
  BY <1>2, <1>4, <1>5 DEF StopProgram
<1>. QED  BY <1>5, <1>6

LEMMA OwnAfterExec ==
  ASSUME NEW l \in Link, NEW d \in Data, NEW n \in Nat, NEW outcome \in {"ok", "fail", "stop"}
  PROVE  AfterExec(Links[l].to, d, n, outcome) \in Seq(StatementOf(l))
<1> DEFINE x == Links[l].to
<1>1. /\ x \in Exec /\ d \in Event
      /\ BroadcastLinks(x) \in SUBSET Link /\ ErrorLinks(x) \in SUBSET Link
      /\ \A k \in BroadcastLinks(x) \cup ErrorLinks(x) : Links[k].from = x
  BY LinkFacts DEF Event, BroadcastLinks, ErrorLinks, Outlets
<1> HIDE DEF x
<1>2. /\ Send(BroadcastLinks(x), d) \in StatementOf(l)
      /\ Send(ErrorLinks(x), d) \in StatementOf(l)
  <2>1. Send(BroadcastLinks(x), d) \in Statement /\ Send(ErrorLinks(x), d) \in Statement
    BY <1>1, StatementTypes
  <2>. QED  BY <1>1, <2>1 DEF StatementOf, Send, x
<1>3. Call(x, d, n + 1) \in StatementOf(l)
  <2>1. Call(x, d, n + 1) \in Statement
    BY <1>1, StatementTypes
  <2>. QED  BY <2>1 DEF StatementOf, Call, x
<1>4. CASE outcome = "ok"
  <2>1. Units[x] \in Nat
    BY <1>1, RuntimeAssumption
  <2>2. [i \in 1..Units[x] |-> Send(BroadcastLinks(x), d)] \in [1..Units[x] -> StatementOf(l)]
    BY <1>2
  <2>3. [i \in 1..Units[x] |-> Send(BroadcastLinks(x), d)] \in Seq(StatementOf(l))
    BY <2>1, <2>2
  <2>. QED  BY <1>4, <2>3, OwnPrograms DEF AfterExec, x
<1>5. CASE outcome = "stop"
  <2>1. Commit \o StopProgram \in Seq(StatementOf(l))
    BY OwnPrograms
  <2>. QED  BY <1>5, <2>1 DEF AfterExec
<1>6. CASE outcome = "fail"
  <2>1. <<Call(x, d, n + 1)>> \in Seq(StatementOf(l)) /\ <<Send(ErrorLinks(x), d)>> \in Seq(StatementOf(l))
    BY <1>2, <1>3
  <2>. QED  BY <1>6, <2>1 DEF AfterExec, x
<1>. QED  BY <1>4, <1>5, <1>6

LEMMA OwnHead ==
  ASSUME OwnWork, NEW l \in Link, prog[l] # <<>>
  PROVE  /\ Head(prog[l]) \in StatementOf(l)
         /\ Tail(prog[l]) \in Seq(StatementOf(l))
BY DEF OwnWork

\* nothing un-terminates a link
LEMMA TerminatedGrows ==
  TypeOK /\ [Next]_vars => \A k \in Link : terminated[k] => terminated'[k]
<1> SUFFICES ASSUME TypeOK, [Next]_vars PROVE \A k \in Link : terminated[k] => terminated'[k]
  OBVIOUS
<1>1. ASSUME NEW l \in Link, LoopTest(l) \/ Take(l) PROVE terminated' = terminated
  BY <1>1 DEF LoopTest, Take
<1>2. ASSUME NEW t \in Thread,
             \/ ExecStep(t) \/ ExecThrow(t) \/ SendStep(t) \/ SendDone(t)
             \/ RunStep(t) \/ ExecsStep(t) \/ ReadStep(t) \/ WriteStep(t)
      PROVE  terminated' = terminated
  BY <1>2 DEF ExecStep, ExecThrow, SendStep, HasRoom, Put, SendDone, RunStep, ExecsStep, ReadStep, WriteStep
<1>3. ASSUME NEW t \in Thread, StopStep(t)
      PROVE  \A k \in Link : terminated[k] => terminated'[k]
  BY <1>3 DEF StopStep, TypeOK
<1>4. ASSUME NEW c \in Callers, StartCall(c) \/ EmitCall(c) \/ StopCall(c)
      PROVE  terminated' = terminated
  BY <1>4 DEF StartCall, EmitCall, StopCall
<1>5. UNCHANGED vars => terminated' = terminated
  BY DEF vars, control
<1>. QED  BY <1>1, <1>2, <1>3, <1>4, <1>5 DEF Next, Step

LEMMA NextOwnWork == TypeOK /\ OwnWork /\ [Next]_vars => OwnWork'
<1> SUFFICES ASSUME TypeOK, OwnWork, [Next]_vars PROVE OwnWork'
  OBVIOUS
<1> DEFINE Keeps == \A l \in Link : prog'[l] \in Seq(StatementOf(l))
<1>1. ASSUME NEW l \in Link PROVE StatementOf(l) \subseteq StatementOf(l)'
  BY TerminatedGrows, StatementOfGrows
<1>2. ASSUME Keeps PROVE OwnWork'
  BY <1>1, <1>2 DEF OwnWork
<1>3. ASSUME prog' = prog PROVE Keeps
  BY <1>3 DEF OwnWork
<1>4. ASSUME NEW t \in Thread, prog[t] # <<>>, Pop(t) PROVE Keeps
  BY <1>4, OwnHead DEF Pop, OwnWork, TypeOK
<1>5. ASSUME NEW l \in Link, Take(l) PROVE Keeps
  <2>1. Head(queue[l]) \in Event
    BY <1>5 DEF Take, TypeOK
  <2>2. OnEvent(Links[l].to, Head(queue[l])) \in Seq(StatementOf(l))
    <3>1. CASE Head(queue[l]) = Stop
      BY <3>1 DEF OnEvent
    <3>2. CASE Head(queue[l]) # Stop
      <4>1. Call(Links[l].to, Head(queue[l]), 0) \in Statement
        BY <2>1, <3>2, LinkFacts, StatementTypes DEF Event
      <4>2. Call(Links[l].to, Head(queue[l]), 0) \in StatementOf(l)
        BY <4>1 DEF StatementOf, Call
      <4>. QED  BY <3>2, <4>2 DEF OnEvent
    <3>. QED  BY <3>1, <3>2
  <2>. QED  BY <1>5, <2>2 DEF Take, OwnWork, TypeOK
<1>6. ASSUME NEW t \in Thread, ExecStep(t) PROVE Keeps
  <2> SUFFICES ASSUME NEW l \in Link PROVE prog'[l] \in Seq(StatementOf(l))
    OBVIOUS
  <2>1. CASE l # t
    BY <1>6, <2>1 DEF ExecStep, OwnWork, TypeOK
  <2>2. CASE l = t
    <3> DEFINE c == Head(prog[l])
    <3>1. c \in StatementOf(l) /\ Tail(prog[l]) \in Seq(StatementOf(l)) /\ c.op = "exec"
      BY <1>6, <2>2, OwnHead DEF ExecStep, Running
    <3>2. c.exec = Links[l].to /\ c.data \in Data /\ c.retry \in Nat
      BY <3>1, HeadFields DEF StatementOf
    <3> HIDE DEF c
    <3>3. PICK outcome \in Outcomes[c.exec] \ {"throw"} :
            prog' = [prog EXCEPT ![l] = AfterExec(c.exec, c.data, c.retry, outcome) \o Tail(@)]
      BY <1>6, <2>2 DEF ExecStep, c
    <3>4. outcome \in {"ok", "fail", "stop"}
      BY <3>2, LinkFacts, RuntimeAssumption
    <3>5. AfterExec(c.exec, c.data, c.retry, outcome) \in Seq(StatementOf(l))
      BY <3>2, <3>4, OwnAfterExec
    <3>6. AfterExec(c.exec, c.data, c.retry, outcome) \o Tail(prog[l]) \in Seq(StatementOf(l))
      BY <3>1, <3>5
    <3>. QED  BY <2>2, <3>3, <3>6 DEF TypeOK
  <2>. QED  BY <2>1, <2>2
<1>7. ASSUME NEW t \in Thread, ExecThrow(t) PROVE Keeps
  BY <1>7 DEF ExecThrow, OwnWork, TypeOK
<1>8. ASSUME NEW t \in Thread, SendStep(t) PROVE Keeps
  <2> SUFFICES ASSUME NEW l \in Link PROVE prog'[l] \in Seq(StatementOf(l))
    OBVIOUS
  <2>1. CASE l # t
    BY <1>8, <2>1 DEF SendStep, HasRoom, Put, OwnWork, TypeOK
  <2>2. CASE l = t
    <3> DEFINE s == Head(prog[l])
    <3>1. s \in StatementOf(l) /\ Tail(prog[l]) \in Seq(StatementOf(l)) /\ s.op = "send"
      BY <1>8, <2>2, OwnHead DEF SendStep, HasRoom, Put, Running
    <3>2. /\ s.links \in SUBSET Link /\ s.event \in Event
          /\ \A k \in s.links : Links[k].from = Links[l].to \/ terminated[k]
      BY <3>1, HeadFields DEF StatementOf
    <3> HIDE DEF s
    <3>3. PICK k \in s.links : prog' = [prog EXCEPT ![l] = Rest(s, k) \o Tail(@)]
      BY <1>8, <2>2 DEF SendStep, HasRoom, Put, s
    <3>4. Rest(s, k) \in Seq(StatementOf(l))
      <4>1. s.links \ {k} \in SUBSET Link
        BY <3>2
      <4>2. Send(s.links \ {k}, s.event) \in Statement
        BY <3>2, <4>1, StatementTypes
      <4>3. Send(s.links \ {k}, s.event) \in StatementOf(l)
        BY <3>2, <4>2 DEF StatementOf, Send
      <4>. QED  BY <4>3 DEF Rest
    <3>5. Rest(s, k) \o Tail(prog[l]) \in Seq(StatementOf(l))
      BY <3>1, <3>4
    <3>. QED  BY <2>2, <3>3, <3>5 DEF TypeOK
  <2>. QED  BY <2>1, <2>2
<1>9. ASSUME NEW t \in Thread, StopStep(t) PROVE OwnWork'
  <2> SUFFICES ASSUME NEW l \in Link PROVE (prog[l] \in Seq(StatementOf(l)))'
    BY DEF OwnWork
  <2> DEFINE k == Head(prog[t]).link
  <2>1. k \in Link
    BY <1>9, RunningHead, HeadFields DEF StopStep
  <2>2. terminated'[k] /\ prog' = [prog EXCEPT ![t] = <<Send({k}, Stop)>> \o Tail(@)]
    BY <1>9, <2>1 DEF StopStep, TypeOK
  <2> HIDE DEF k
  <2>3. CASE l # t
    <3>1. prog'[l] \in Seq(StatementOf(l))
      BY <2>2, <2>3 DEF OwnWork, TypeOK
    <3>. QED  BY <1>1, <3>1
  <2>4. CASE l = t
    <3>1. Send({k}, Stop) \in Statement
      BY <2>1, StatementTypes DEF Event
    <3>2. Send({k}, Stop) \in StatementOf(l)'
      BY <2>2, <3>1 DEF StatementOf, Send
    <3>3. Tail(prog[l]) \in Seq(StatementOf(l)')
      BY <1>1, <1>9, <2>4, OwnHead DEF StopStep, Running
    <3>4. <<Send({k}, Stop)>> \o Tail(prog[l]) \in Seq(StatementOf(l)')
      BY <3>2, <3>3
    <3>. QED  BY <2>2, <2>4, <3>4 DEF TypeOK
  <2>. QED  BY <2>3, <2>4
<1>10. ASSUME NEW c \in Callers, StartCall(c) \/ EmitCall(c) \/ StopCall(c) PROVE Keeps
  <2>1. c \in Thread /\ \A l \in Link : l # c
    BY RuntimeAssumption DEF Thread
  <2>2. \E p : prog' = [prog EXCEPT ![c] = p]
    BY <1>10 DEF StartCall, EmitCall, StopCall
  <2>3. \A l \in Link : prog'[l] = prog[l]
    BY <2>1, <2>2 DEF TypeOK, Thread
  <2>. QED  BY <2>3 DEF OwnWork
<1>11. ASSUME NEW t \in Thread,
              SendDone(t) \/ RunStep(t) \/ ExecsStep(t) \/ ReadStep(t) \/ WriteStep(t)
       PROVE  Keeps
  <2>1. prog[t] # <<>> /\ Pop(t)
    BY <1>11 DEF SendDone, RunStep, ExecsStep, ReadStep, WriteStep, Running
  <2>. QED  BY <1>4, <2>1
<1>12. ASSUME NEW l \in Link, LoopTest(l) PROVE Keeps
  BY <1>3, <1>12 DEF LoopTest
<1>13. ASSUME UNCHANGED vars PROVE Keeps
  BY <1>3, <1>13 DEF vars, control
<1> HIDE DEF Keeps
<1>. QED
  BY <1>2, <1>5, <1>6, <1>7, <1>8, <1>9, <1>10, <1>11, <1>12, <1>13 DEF Next, Step

\* the argument: of the links some worker waits for, take one from whose
\* target no other leads on; its own worker cannot be waiting
LEMMA OwnWorkNoGridlock == TypeOK /\ OwnWork => NoGridlock
<1> SUFFICES ASSUME TypeOK, OwnWork, Acyclic, Flowing, \E t \in Thread : Waiting(t)
             PROVE  \E l \in Link : CanMove(l)
  BY DEF NoGridlock
<1> DEFINE WaitsAt(t, l) == /\ Running(t, "send")
                            /\ First(l, Head(prog[t]).links)
                            /\ Len(queue[l]) = QueueSize
           Full == {l \in Link : \E t \in Thread : WaitsAt(t, l)}
<1>1. \A t \in Thread : Waiting(t) => \E l \in Full : WaitsAt(t, l)
  <2> SUFFICES ASSUME NEW t \in Thread, Waiting(t) PROVE \E l \in Full : WaitsAt(t, l)
    OBVIOUS
  <2>1. Head(prog[t]).links \in SUBSET Link
    BY RunningHead, HeadFields DEF Waiting
  <2>. QED  BY <2>1 DEF Waiting
<1>2. Full # {} /\ Full \in SUBSET Link
  BY <1>1
<1>3. PICK l \in Full : \A k \in Full : Links[k].from # Links[l].to
  BY <1>2 DEF Acyclic
<1>4. l \in Link /\ queue[l] # <<>>
  BY <1>3, RuntimeAssumption DEF TypeOK
<1>5. worker[l] \in {"take", "busy"}
  BY <1>4 DEF Flowing
<1>6. ~Waiting(l)
  <2> SUFFICES ASSUME Waiting(l) PROVE FALSE
    OBVIOUS
  <2>1. PICK k \in Full : WaitsAt(l, k)
    BY <1>1, <1>4 DEF Thread
  <2>2. Head(prog[l]) \in StatementOf(l) /\ Head(prog[l]).op = "send" /\ k \in Head(prog[l]).links
    BY <1>4, <2>1, OwnHead DEF Running, First
  <2>3. Links[k].from = Links[l].to \/ terminated[k]
    BY <2>2 DEF StatementOf
  <2>4. ~terminated[k]
    BY <2>1 DEF Flowing
  <2>. QED  BY <1>3, <2>3, <2>4
<1>. QED  BY <1>4, <1>5, <1>6 DEF CanMove

\* In every workflow without loops, with queues of any size, a blocked put
\* always leaves some worker able to go on while nobody stops the workflow.
THEOREM GridlockFree == Spec => []NoGridlock
<1>1. Init => OwnWork
  BY DEF Init, OwnWork, Thread
<1>2. TypeOK /\ OwnWork /\ [Next]_vars => OwnWork'
  BY NextOwnWork
<1>3. TypeOK /\ OwnWork => NoGridlock
  BY OwnWorkNoGridlock
<1>. QED  BY <1>1, <1>2, <1>3, TypeCorrect, PTL DEF Spec
-----------------------------------------------------------------------------
(* Order.  What an exec behind a link has finished, what the worker of the *)
(* link is at and what its queue holds make one chain of data, and every   *)
(* two links of the chain are in the log of the exec before, in order.     *)

Occurs(s, a) == \E p \in 1..Len(s) : s[p].data = a

Precedes(s, a, b) ==
  a # b => \E p, q \in 1..Len(s) : p < q /\ s[p].data = a /\ s[q].data = b

EndsWith(s, a) == s # <<>> /\ s[Len(s)].data = a

Chain(s, done, now, q) ==
  /\ \A i \in 1..Len(done) : Occurs(s, done[i].data)
  /\ \A a \in now : Occurs(s, a)
  /\ \A i \in 1..Len(q) : q[i] # Stop => Occurs(s, q[i])
  /\ \A i, j \in 1..Len(done) : i < j => Precedes(s, done[i].data, done[j].data)
  /\ \A i \in 1..Len(done) : \A b \in now : Precedes(s, done[i].data, b)
  /\ \A i \in 1..Len(done) : \A j \in 1..Len(q) : q[j] # Stop => Precedes(s, done[i].data, q[j])
  /\ \A a \in now : \A j \in 1..Len(q) : q[j] # Stop => Precedes(s, a, q[j])
  /\ \A i, j \in 1..Len(q) : i < j /\ q[i] # Stop /\ q[j] # Stop => Precedes(s, q[i], q[j])

LEMMA AppendFacts ==
  ASSUME NEW T, NEW s \in Seq(T), NEW e \in T
  PROVE  /\ Append(s, e) \in Seq(T)
         /\ Len(s) \in Nat /\ Len(Append(s, e)) = Len(s) + 1
         /\ Append(s, e)[Len(s) + 1] = e
         /\ \A i \in 1..Len(s) : Append(s, e)[i] = s[i]
         /\ Append(s, e) # <<>>
OBVIOUS

LEMMA LongerLog ==
  ASSUME NEW s \in Seq(Result), NEW r \in Result
  PROVE  /\ \A a : Occurs(s, a) => Occurs(Append(s, r), a)
         /\ \A a, b : Precedes(s, a, b) => Precedes(Append(s, r), a, b)
         /\ EndsWith(Append(s, r), r.data)
<1> DEFINE w == Append(s, r)
<1>1. Len(s) \in Nat /\ Len(w) = Len(s) + 1 /\ w[Len(w)] = r /\ \A p \in 1..Len(s) : w[p] = s[p]
  BY AppendFacts
<1>2. \A p \in 1..Len(s) : p \in 1..Len(w)
  BY <1>1
<1>3. w # <<>>
  BY AppendFacts
<1> HIDE DEF w
<1>4. \A a : Occurs(s, a) => Occurs(w, a)
  BY <1>1, <1>2 DEF Occurs
<1>5. \A a, b : Precedes(s, a, b) => Precedes(w, a, b)
  <2> SUFFICES ASSUME NEW a, NEW b, a # b, Precedes(s, a, b) PROVE Precedes(w, a, b)
    BY DEF Precedes
  <2>1. PICK p, q \in 1..Len(s) : p < q /\ s[p].data = a /\ s[q].data = b
    BY DEF Precedes
  <2>. QED  BY <1>1, <1>2, <2>1 DEF Precedes
<1>. QED  BY <1>1, <1>3, <1>4, <1>5 DEF EndsWith, w

LEMMA ChainGrows ==
  ASSUME NEW s \in Seq(Result), NEW r \in Result, NEW done, NEW now, NEW q,
         Chain(s, done, now, q)
  PROVE  Chain(Append(s, r), done, now, q)
<1> DEFINE w == Append(s, r)
<1>1. /\ \A a : Occurs(s, a) => Occurs(w, a)
      /\ \A a, b : Precedes(s, a, b) => Precedes(w, a, b)
  BY LongerLog
<1> HIDE DEF w
<1>2. Chain(w, done, now, q)
  BY <1>1 DEF Chain
<1>. QED  BY <1>2 DEF w

LEMMA ChainFewer ==
  ASSUME NEW s, NEW done, NEW now, NEW q, Chain(s, done, now, q), NEW fewer \in SUBSET now
  PROVE  Chain(s, done, fewer, q)
BY DEF Chain

LEMMA ChainTaken ==
  ASSUME NEW s, NEW done, NEW now, NEW q \in Seq(Event), q # <<>>, Chain(s, done, now, q)
  PROVE  Chain(s, done, {Head(q)} \ {Stop}, Tail(q))
<1> DEFINE w == Tail(q)
           e == q[1]
<1>1. /\ Head(q) = e /\ 1 \in 1..Len(q)
      /\ \A i \in 1..Len(w) : i + 1 \in 1..Len(q) /\ w[i] = q[i + 1] /\ 1 < i + 1
      /\ \A i, j \in 1..Len(w) : i < j => i + 1 < j + 1
  OBVIOUS
<1> HIDE DEF w, e
<1>2. \A a \in {e} \ {Stop} : /\ a = q[1] /\ q[1] # Stop
  BY DEF e
<1>3. Chain(s, done, {e} \ {Stop}, w)
  <2>1. /\ \A i \in 1..Len(done) : Occurs(s, done[i].data)
        /\ \A i, j \in 1..Len(done) : i < j => Precedes(s, done[i].data, done[j].data)
    BY DEF Chain
  <2>2. /\ \A a \in {e} \ {Stop} : Occurs(s, a)
        /\ \A i \in 1..Len(w) : w[i] # Stop => Occurs(s, w[i])
    BY <1>1, <1>2 DEF Chain
  <2>3. ASSUME NEW i \in 1..Len(done)
        PROVE  /\ \A b \in {e} \ {Stop} : Precedes(s, done[i].data, b)
               /\ \A j \in 1..Len(w) : w[j] # Stop => Precedes(s, done[i].data, w[j])
    <3>1. \A j \in 1..Len(q) : q[j] # Stop => Precedes(s, done[i].data, q[j])
      BY DEF Chain
    <3>. QED  BY <1>1, <1>2, <3>1
  <2>4. \A a \in {e} \ {Stop} : \A j \in 1..Len(w) : w[j] # Stop => Precedes(s, a, w[j])
    <3> SUFFICES ASSUME NEW a \in {e} \ {Stop}, NEW j \in 1..Len(w), w[j] # Stop PROVE Precedes(s, a, w[j])
      OBVIOUS
    <3>1. /\ 1 \in 1..Len(q) /\ j + 1 \in 1..Len(q) /\ 1 < j + 1
          /\ q[1] # Stop /\ q[j + 1] # Stop /\ a = q[1] /\ w[j] = q[j + 1]
      BY <1>1, <1>2
    <3>. QED  BY <3>1 DEF Chain
  <2>5. \A i, j \in 1..Len(w) : i < j /\ w[i] # Stop /\ w[j] # Stop => Precedes(s, w[i], w[j])
    <3> SUFFICES ASSUME NEW i \in 1..Len(w), NEW j \in 1..Len(w), i < j, w[i] # Stop, w[j] # Stop
                 PROVE  Precedes(s, w[i], w[j])
      OBVIOUS
    <3>1. /\ i + 1 \in 1..Len(q) /\ j + 1 \in 1..Len(q) /\ i + 1 < j + 1
          /\ w[i] = q[i + 1] /\ w[j] = q[j + 1]
      BY <1>1
    <3>. QED  BY <3>1 DEF Chain
  <2>. QED  BY <2>1, <2>2, <2>3, <2>4, <2>5 DEF Chain
<1>. QED  BY <1>1, <1>3 DEF w, e

LEMMA ChainFinished ==
  ASSUME NEW s, NEW done \in Seq(Result), NEW r \in Result, NEW q, Chain(s, done, {r.data}, q)
  PROVE  Chain(s, Append(done, r), {}, q)
<1> DEFINE w == Append(done, r)
<1>1. /\ Len(done) \in Nat /\ Len(w) = Len(done) + 1
      /\ \A i \in 1..Len(w) : (i \in 1..Len(done) /\ w[i] = done[i]) \/ (i = Len(w) /\ w[i] = r)
  <2>1. /\ Len(done) \in Nat /\ Len(w) = Len(done) + 1 /\ w[Len(done) + 1] = r
        /\ \A i \in 1..Len(done) : w[i] = done[i]
    BY AppendFacts
  <2> HIDE DEF w
  <2>. QED  BY <2>1
<1> HIDE DEF w
<1>2. /\ \A i \in 1..Len(w) : Occurs(s, w[i].data)
      /\ \A i \in 1..Len(w) : \A j \in 1..Len(q) : q[j] # Stop => Precedes(s, w[i].data, q[j])
  BY <1>1 DEF Chain
<1>3. \A i, j \in 1..Len(w) : i < j => Precedes(s, w[i].data, w[j].data)
  <2> SUFFICES ASSUME NEW i \in 1..Len(w), NEW j \in 1..Len(w), i < j
               PROVE  Precedes(s, w[i].data, w[j].data)
    OBVIOUS
  <2>1. i \in 1..Len(done) /\ w[i] = done[i]
    BY <1>1
  <2>. QED  BY <1>1, <2>1 DEF Chain
<1>4. \A i \in 1..Len(q) : q[i] # Stop => Occurs(s, q[i])
  BY DEF Chain
<1>5. \A i, j \in 1..Len(q) : i < j /\ q[i] # Stop /\ q[j] # Stop => Precedes(s, q[i], q[j])
  BY DEF Chain
<1>6. Chain(s, w, {}, q)
  BY <1>2, <1>3, <1>4, <1>5 DEF Chain
<1>. QED  BY <1>6 DEF w

\* what occurs in a log precedes its last entry
LEMMA ToTheEnd ==
  ASSUME NEW s \in Seq(Result), NEW a, NEW e, Occurs(s, a), EndsWith(s, e)
  PROVE  Precedes(s, a, e)
<1> SUFFICES ASSUME a # e PROVE \E p, q \in 1..Len(s) : p < q /\ s[p].data = a /\ s[q].data = e
  BY DEF Precedes
<1>1. PICK p \in 1..Len(s) : s[p].data = a
  BY DEF Occurs
<1>2. Len(s) \in 1..Len(s) /\ s[Len(s)].data = e
  BY <1>1 DEF EndsWith
<1>3. p < Len(s)
  BY <1>1, <1>2
<1>. QED  BY <1>1, <1>2, <1>3

LEMMA ChainSent ==
  ASSUME NEW s \in Seq(Result), NEW done, NEW now, NEW q \in Seq(Event), NEW e \in Event,
         Chain(s, done, now, q), e # Stop => EndsWith(s, e)
  PROVE  Chain(s, done, now, Append(q, e))
<1> DEFINE w == Append(q, e)
<1>1. /\ Len(q) \in Nat /\ Len(w) = Len(q) + 1
      /\ \A i \in 1..Len(w) : (i \in 1..Len(q) /\ w[i] = q[i]) \/ (i = Len(w) /\ w[i] = e)
  <2>1. /\ Len(q) \in Nat /\ Len(w) = Len(q) + 1 /\ w[Len(q) + 1] = e
        /\ \A i \in 1..Len(q) : w[i] = q[i]
    BY AppendFacts
  <2> HIDE DEF w
  <2>. QED  BY <2>1
<1>2. e # Stop => Occurs(s, e)
  <2> SUFFICES ASSUME e # Stop PROVE Occurs(s, e)
    OBVIOUS
  <2>1. Len(s) \in 1..Len(s) /\ s[Len(s)].data = e
    BY DEF EndsWith
  <2>. QED  BY <2>1 DEF Occurs
<1>3. \A a : e # Stop /\ Occurs(s, a) => Precedes(s, a, e)
  BY ToTheEnd
<1> HIDE DEF w
<1>4. \A i \in 1..Len(w) : w[i] # Stop => Occurs(s, w[i])
  BY <1>1, <1>2 DEF Chain
<1>5. \A i \in 1..Len(done) : \A j \in 1..Len(w) : w[j] # Stop => Precedes(s, done[i].data, w[j])
  BY <1>1, <1>3 DEF Chain
<1>6. \A a \in now : \A j \in 1..Len(w) : w[j] # Stop => Precedes(s, a, w[j])
  BY <1>1, <1>3 DEF Chain
<1>7. \A i, j \in 1..Len(w) : i < j /\ w[i] # Stop /\ w[j] # Stop => Precedes(s, w[i], w[j])
  <2> SUFFICES ASSUME NEW i \in 1..Len(w), NEW j \in 1..Len(w), i < j, w[i] # Stop, w[j] # Stop
               PROVE  Precedes(s, w[i], w[j])
    OBVIOUS
  <2>1. i \in 1..Len(q) /\ w[i] = q[i]
    BY <1>1
  <2>2. CASE j \in 1..Len(q) /\ w[j] = q[j]
    BY <2>1, <2>2 DEF Chain
  <2>3. CASE w[j] = e
    <3>1. Occurs(s, w[i])
      BY <1>4
    <3>. QED  BY <1>3, <2>3, <3>1
  <2>. QED  BY <1>1, <2>2, <2>3
<1>8. /\ \A i \in 1..Len(done) : Occurs(s, done[i].data)
      /\ \A a \in now : Occurs(s, a)
      /\ \A i, j \in 1..Len(done) : i < j => Precedes(s, done[i].data, done[j].data)
      /\ \A i \in 1..Len(done) : \A b \in now : Precedes(s, done[i].data, b)
  BY DEF Chain
<1>9. Chain(s, done, now, w)
  BY <1>4, <1>5, <1>6, <1>7, <1>8 DEF Chain
<1>. QED  BY <1>9 DEF w
-----------------------------------------------------------------------------
\* the statements in a list, and those a thread has still to execute
Ent(s) == {s[i] : i \in 1..Len(s)}
Todo(t) == Ent(prog[t])

LEMMA EntSingle == \A e : Ent(<<e>>) = {e}
<1> SUFFICES ASSUME NEW e PROVE Ent(<<e>>) = {e}
  OBVIOUS
<1>1. Len(<<e>>) = 1 /\ <<e>>[1] = e
  OBVIOUS
<1>. QED  BY <1>1 DEF Ent

LEMMA EntNone == Ent(<<>>) = {}
BY DEF Ent

LEMMA EntConcat ==
  ASSUME NEW T, NEW a \in Seq(T), NEW b \in Seq(T)
  PROVE  Ent(a \o b) = Ent(a) \cup Ent(b)
<1> DEFINE w == a \o b
<1>1. /\ Len(a) \in Nat /\ Len(b) \in Nat /\ Len(w) = Len(a) + Len(b)
      /\ \A i \in 1..(Len(a) + Len(b)) : w[i] = IF i <= Len(a) THEN a[i] ELSE b[i - Len(a)]
  OBVIOUS
<1> HIDE DEF w
<1>2. ASSUME NEW i \in 1..Len(w) PROVE w[i] \in Ent(a) \cup Ent(b)
  <2>1. CASE i <= Len(a)
    BY <1>1, <2>1 DEF Ent
  <2>2. CASE i > Len(a)
    <3>1. i - Len(a) \in 1..Len(b) /\ w[i] = b[i - Len(a)]
      BY <1>1, <2>2
    <3>. QED  BY <3>1 DEF Ent
  <2>. QED  BY <1>1, <2>1, <2>2
<1>3. ASSUME NEW i \in 1..Len(a) PROVE a[i] \in Ent(w)
  <2>1. i \in 1..Len(w) /\ w[i] = a[i]
    BY <1>1
  <2>. QED  BY <2>1 DEF Ent
<1>4. ASSUME NEW i \in 1..Len(b) PROVE b[i] \in Ent(w)
  <2>1. i + Len(a) \in 1..Len(w) /\ w[i + Len(a)] = b[i]
    BY <1>1
  <2>. QED  BY <2>1 DEF Ent
<1>5. Ent(w) \subseteq Ent(a) \cup Ent(b)
  BY <1>2 DEF Ent
<1>6. Ent(a) \subseteq Ent(w) /\ Ent(b) \subseteq Ent(w)
  BY <1>3, <1>4 DEF Ent
<1>7. Ent(w) = Ent(a) \cup Ent(b)
  BY <1>5, <1>6
<1>. QED  BY <1>7 DEF w

LEMMA StatementConcat ==
  \A a, b \in Seq(Statement) : Ent(a \o b) = Ent(a) \cup Ent(b)
BY EntConcat

LEMMA EntHead ==
  ASSUME NEW T, NEW s \in Seq(T), s # <<>>
  PROVE  /\ Ent(s) = {Head(s)} \cup Ent(Tail(s))
         /\ Len(s) \in Nat /\ Len(Tail(s)) = Len(s) - 1
<1>1. s = <<Head(s)>> \o Tail(s) /\ <<Head(s)>> \in Seq(T) /\ Tail(s) \in Seq(T)
  OBVIOUS
<1>2. Ent(s) = Ent(<<Head(s)>>) \cup Ent(Tail(s))
  <2>1. \A a, b \in Seq(T) : Ent(a \o b) = Ent(a) \cup Ent(b)
    BY EntConcat
  <2> DEFINE a == <<Head(s)>>
             b == Tail(s)
  <2>2. s = a \o b /\ a \in Seq(T) /\ b \in Seq(T)
    BY <1>1
  <2> HIDE DEF a, b
  <2>3. Ent(s) = Ent(a) \cup Ent(b)
    BY <2>1, <2>2
  <2>. QED  BY <2>3 DEF a, b
<1>3. Len(s) \in Nat /\ Len(Tail(s)) = Len(s) - 1
  OBVIOUS
<1>. QED  BY <1>2, <1>3, EntSingle

LEMMA EntType ==
  ASSUME NEW T, NEW s \in Seq(T)
  PROVE  Ent(s) \subseteq T
BY DEF Ent

\* what a finished exec() leaves to do: no exec, and sends out of that exec
Output(x, d) ==
  {s \in Statement : /\ s.op # "exec"
                     /\ s.op = "send" => s.event = d /\ \A k \in s.links : Links[k].from = x}

LEMMA AfterExecOutput ==
  ASSUME NEW x \in Exec, NEW d \in Data, NEW n \in Nat, NEW outcome \in {"ok", "fail", "stop"},
         ~(outcome = "fail" /\ n < RetryMax[x])
  PROVE  AfterExec(x, d, n, outcome) \in Seq(Output(x, d))
<1>1. /\ d \in Event
      /\ BroadcastLinks(x) \in SUBSET Link /\ ErrorLinks(x) \in SUBSET Link
      /\ \A k \in BroadcastLinks(x) \cup ErrorLinks(x) : Links[k].from = x
  BY DEF Event, BroadcastLinks, ErrorLinks, Outlets
<1>2. /\ Send(BroadcastLinks(x), d) \in Output(x, d)
      /\ Send(ErrorLinks(x), d) \in Output(x, d)
  <2>1. Send(BroadcastLinks(x), d) \in Statement /\ Send(ErrorLinks(x), d) \in Statement
    BY <1>1, StatementTypes
  <2>. QED  BY <1>1, <2>1 DEF Output, Send
<1>3. \A c \in {"commit", "RUNNING", "STOPPED"} : WriteState(c) \in Output(x, d)
  BY StatementTypes DEF Output, WriteState
<1>4. ReadState \in Output(x, d) /\ SetExecs("STOPPED") \in Output(x, d)
  BY StatementTypes DEF Output, ReadState, SetExecs, Status
<1>5. \A k \in Link : StopLink(k) \in Output(x, d)
  BY StatementTypes DEF Output, StopLink
<1>6. [k \in Link |-> StopLink(k)] \in Seq(Output(x, d))
  <2>1. [k \in Link |-> StopLink(k)] \in [1..Len(Links) -> Output(x, d)]
    BY <1>5 DEF Link
  <2>. QED  BY <2>1, RuntimeAssumption
<1>7. Commit \in Seq(Output(x, d)) /\ Update("STOPPED") \in Seq(Output(x, d))
  BY <1>3, <1>4 DEF Commit, Update
<1>8. Commit \o StopProgram \in Seq(Output(x, d))
  BY <1>4, <1>6, <1>7 DEF StopProgram
<1>9. CASE outcome = "ok"
  <2>1. Units[x] \in Nat
    BY RuntimeAssumption
  <2>2. [i \in 1..Units[x] |-> Send(BroadcastLinks(x), d)] \in [1..Units[x] -> Output(x, d)]
    BY <1>2
  <2>3. [i \in 1..Units[x] |-> Send(BroadcastLinks(x), d)] \in Seq(Output(x, d))
    BY <2>1, <2>2
  <2>. QED  BY <1>7, <1>9, <2>3 DEF AfterExec
<1>10. CASE outcome = "stop"
  BY <1>8, <1>10 DEF AfterExec
<1>11. CASE outcome = "fail"
  <2>1. <<Send(ErrorLinks(x), d)>> \in Seq(Output(x, d))
    BY <1>2
  <2>. QED  BY <1>11, <2>1 DEF AfterExec
<1>. QED  BY <1>9, <1>10, <1>11

\* a thread at an exec has nothing else to do, and the exec is its own
LoneCall ==
  \A t \in Thread : \A s \in Todo(t) :
    s.op = "exec" => Len(prog[t]) = 1 /\ t \in Executors(s.exec)

\* data a thread has still to send is what the exec before finished last, or
\* an event a caller emits
SendsOn(t, s) ==
  s.op = "send" /\ s.event # Stop =>
    \A k \in s.links :
      LET x == Links[k].from
      IN \/ t \in Executors(x) /\ (OneWayIn(x) => EndsWith(log[x], s.event))
         \/ t \in Callers /\ t \in Executors(Links[k].to)

SendInv == \A t \in Thread : \A s \in Todo(t) : SendsOn(t, s)

Calls(l) == {s.data : s \in {r \in Todo(l) : r.op = "exec"}}

OrderInv ==
  \A l \in Link :
    OneWayIn(Links[l].from) /\ OneWayIn(Links[l].to) =>
      Chain(log[Links[l].from], log[Links[l].to], Calls(l), queue[l])

FlowInv == LoneCall /\ SendInv /\ OrderInv

LEMMA NotTheCall ==
  ASSUME TypeOK, LoneCall, NEW t \in Thread, NEW k, Running(t, k), k # "exec"
  PROVE  /\ Head(prog[t]) \in Todo(t)
         /\ \A s \in Ent(Tail(prog[t])) : s \in Todo(t) /\ s.op # "exec"
<1>1. /\ prog[t] \in Seq(Statement) /\ prog[t] # <<>> /\ Head(prog[t]).op = k
      /\ Tail(prog[t]) \in Seq(Statement)
  BY RunningHead DEF Running
<1>2. /\ Todo(t) = {Head(prog[t])} \cup Ent(Tail(prog[t]))
      /\ Len(prog[t]) \in Nat /\ Len(Tail(prog[t])) = Len(prog[t]) - 1
  BY <1>1, EntHead DEF Todo
<1>3. ASSUME NEW s \in Ent(Tail(prog[t])), s.op = "exec" PROVE FALSE
  <2>1. Len(prog[t]) = 1
    BY <1>2, <1>3 DEF LoneCall
  <2>2. Len(Tail(prog[t])) = 0
    BY <1>2, <2>1
  <2>3. Ent(Tail(prog[t])) = {}
    BY <2>2 DEF Ent
  <2>. QED  BY <1>3, <2>3
<1>. QED  BY <1>2, <1>3

LEMMA SameFlow ==
  FlowInv /\ UNCHANGED <<prog, log, queue>> => FlowInv'
BY DEF FlowInv, LoneCall, SendInv, SendsOn, OrderInv, Calls, Todo

\* a step after which a thread has no exec before it and no new data to send
LEMMA QuietFlow ==
  ASSUME TypeOK, FlowInv, UNCHANGED <<log, queue>>,
         NEW t \in Thread, NEW p \in Seq(Statement), prog' = [prog EXCEPT ![t] = p],
         \A s \in Ent(p) : /\ s.op # "exec"
                           /\ s.op = "send" /\ s.event # Stop => s \in Todo(t)
  PROVE  FlowInv'
<1>1. /\ \A u \in Thread : u # t => prog'[u] = prog[u]
      /\ prog'[t] = p
  BY DEF TypeOK
<1>2. /\ \A u \in Thread : u # t => Todo(u)' = Todo(u)
      /\ Todo(t)' = Ent(p)
  BY <1>1 DEF Todo
<1>3. LoneCall'
  BY <1>1, <1>2 DEF FlowInv, LoneCall
<1>4. SendInv'
  <2> SUFFICES ASSUME NEW u \in Thread, NEW s \in Todo(u)' PROVE SendsOn(u, s)'
    BY DEF SendInv
  <2>1. SendsOn(u, s)
    <3>1. CASE s \in Todo(u)
      BY <3>1 DEF FlowInv, SendInv
    <3>2. CASE s \notin Todo(u)
      BY <1>2, <3>2 DEF SendsOn
    <3>. QED  BY <3>1, <3>2
  <2>. QED  BY <2>1 DEF SendsOn
<1>5. OrderInv'
  <2> SUFFICES ASSUME NEW l \in Link, OneWayIn(Links[l].from), OneWayIn(Links[l].to)
               PROVE  Chain(log[Links[l].from], log[Links[l].to], Calls(l)', queue[l])
    BY DEF OrderInv
  <2>1. Calls(l)' \in SUBSET Calls(l)
    <3>1. l \in Thread
      BY DEF Thread
    <3>. QED  BY <1>2, <3>1 DEF Calls
  <2>2. Chain(log[Links[l].from], log[Links[l].to], Calls(l), queue[l])
    BY DEF FlowInv, OrderInv
  <2>. QED  BY <2>1, <2>2, ChainFewer
<1>. QED  BY <1>3, <1>4, <1>5 DEF FlowInv

LEMMA PopFlow ==
  ASSUME TypeOK, FlowInv, UNCHANGED <<log, queue>>,
         NEW t \in Thread, NEW k, Running(t, k), k # "exec", Pop(t)
  PROVE  FlowInv'
<1>1. prog' = [prog EXCEPT ![t] = Tail(prog[t])] /\ Tail(prog[t]) \in Seq(Statement)
  BY RunningHead DEF Pop
<1>2. \A s \in Ent(Tail(prog[t])) : s \in Todo(t) /\ s.op # "exec"
  BY NotTheCall DEF FlowInv
<1>. QED  BY <1>1, <1>2, QuietFlow

\* the worker of a link is the only thread of an exec that one thread runs
LEMMA OnlyWorker ==
  ASSUME NEW l \in Link, OneWayIn(Links[l].to), NEW t \in Executors(Links[l].to)
  PROVE  t = l
BY DEF OneWayIn, Executors

LEMMA TakeFlow ==
  ASSUME TypeOK, FlowInv, NEW l \in Link, Take(l)
  PROVE  FlowInv'
<1> DEFINE y == Links[l].to
           e == Head(queue[l])
<1>1. /\ queue[l] \in Seq(Event) /\ queue[l] # <<>> /\ e \in Event
      /\ queue' = [queue EXCEPT ![l] = Tail(@)]
      /\ prog' = [prog EXCEPT ![l] = OnEvent(y, e)]
      /\ log' = log
  BY DEF Take, TypeOK
<1>2. l \in Thread /\ l \in Executors(y)
  BY DEF Thread, Executors
<1> HIDE DEF y, e
<1>3. /\ \A u \in Thread : u # l => prog'[u] = prog[u]
      /\ prog'[l] = OnEvent(y, e)
  BY <1>1, <1>2 DEF TypeOK
<1>4. /\ \A u \in Thread : u # l => Todo(u)' = Todo(u)
      /\ Todo(l)' = IF e = Stop THEN {} ELSE {Call(y, e, 0)}
      /\ e # Stop => Len(prog'[l]) = 1
  <2>1. OnEvent(y, e) = IF e = Stop THEN <<>> ELSE <<Call(y, e, 0)>>
    BY DEF OnEvent
  <2>2. Ent(OnEvent(y, e)) = IF e = Stop THEN {} ELSE {Call(y, e, 0)}
    BY <2>1, EntNone, EntSingle
  <2>3. e # Stop => Len(OnEvent(y, e)) = 1
    BY <2>1
  <2>. QED  BY <1>3, <2>2, <2>3 DEF Todo
<1>5. Call(y, e, 0).op = "exec" /\ Call(y, e, 0).exec = y /\ Call(y, e, 0).data = e
  BY DEF Call
<1>6. LoneCall'
  <2> SUFFICES ASSUME NEW u \in Thread, NEW s \in Todo(u)', s.op = "exec"
               PROVE  Len(prog'[u]) = 1 /\ u \in Executors(s.exec)
    BY DEF LoneCall, Executors
  <2>1. CASE u # l
    BY <1>3, <1>4, <2>1 DEF FlowInv, LoneCall
  <2>2. CASE u = l
    BY <1>2, <1>4, <1>5, <2>2
  <2>. QED  BY <2>1, <2>2
<1>7. SendInv'
  <2> SUFFICES ASSUME NEW u \in Thread, NEW s \in Todo(u)' PROVE SendsOn(u, s)'
    BY DEF SendInv
  <2>1. SendsOn(u, s)
    <3>1. CASE u # l
      BY <1>4, <3>1 DEF FlowInv, SendInv
    <3>2. CASE u = l
      BY <1>4, <1>5, <3>2 DEF SendsOn
    <3>. QED  BY <3>1, <3>2
  <2>. QED  BY <1>1, <2>1 DEF SendsOn
<1>8. OrderInv'
  <2> SUFFICES ASSUME NEW k \in Link, OneWayIn(Links[k].from), OneWayIn(Links[k].to)
               PROVE  Chain(log[Links[k].from], log[Links[k].to], Calls(k)', queue'[k])
    BY <1>1 DEF OrderInv
  <2>1. Chain(log[Links[k].from], log[Links[k].to], Calls(k), queue[k])
    BY DEF FlowInv, OrderInv
  <2>2. CASE k # l
    <3>1. k \in Thread
      BY DEF Thread
    <3>2. Calls(k)' = Calls(k)
      BY <1>4, <2>2, <3>1 DEF Calls
    <3>3. queue'[k] = queue[k]
      BY <1>1, <2>2 DEF TypeOK
    <3>. QED  BY <2>1, <3>2, <3>3
  <2>3. CASE k = l
    <3>1. Calls(k)' = {e} \ {Stop}
      BY <1>4, <1>5, <2>3 DEF Calls
    <3>2. queue'[k] = Tail(queue[k])
      BY <1>1, <2>3 DEF TypeOK
    <3>3. Chain(log[Links[k].from], log[Links[k].to], {e} \ {Stop}, Tail(queue[k]))
      BY <1>1, <2>1, <2>3, ChainTaken DEF e
    <3>. QED  BY <3>1, <3>2, <3>3
  <2>. QED  BY <2>2, <2>3
<1>. QED  BY <1>6, <1>7, <1>8 DEF FlowInv

LEMMA SendFlow ==
  ASSUME TypeOK, FlowInv, NEW t \in Thread, SendStep(t)
  PROVE  FlowInv'
<1> DEFINE s == Head(prog[t])
<1>1. /\ s \in Statement /\ s.op = "send" /\ Tail(prog[t]) \in Seq(Statement)
      /\ s \in Todo(t) /\ \A r \in Ent(Tail(prog[t])) : r \in Todo(t) /\ r.op # "exec"
  BY RunningHead, NotTheCall DEF SendStep, FlowInv
<1>2. s.links \in SUBSET Link /\ s.event \in Event
  BY <1>1, HeadFields
<1>3. PICK k \in s.links :
        /\ queue' = [queue EXCEPT ![k] = Append(@, s.event)]
        /\ prog' = [prog EXCEPT ![t] = Rest(s, k) \o Tail(@)]
        /\ log' = log
  BY DEF SendStep, Put
<1> HIDE DEF s
<1> DEFINE rest == Send(s.links \ {k}, s.event)
           p == Rest(s, k) \o Tail(prog[t])
<1>4. SendsOn(t, s)
  BY <1>1 DEF FlowInv, SendInv
<1>5. /\ rest \in Statement /\ rest.op = "send"
      /\ rest.links \subseteq s.links /\ rest.event = s.event
  <2>1. s.links \ {k} \in SUBSET Link
    BY <1>2
  <2>. QED  BY <1>2, <2>1, StatementTypes DEF Send
<1>6. Rest(s, k) \in Seq(Statement) /\ Ent(Rest(s, k)) \subseteq {rest}
  <2>1. CASE s.links = {k}
    BY <2>1, EntNone DEF Rest
  <2>2. CASE s.links # {k}
    BY <1>5, <2>2, EntSingle DEF Rest
  <2>. QED  BY <2>1, <2>2
<1>7. SendsOn(t, rest)
  BY <1>1, <1>4, <1>5 DEF SendsOn
<1> HIDE DEF rest
<1>8. Ent(p) \subseteq {rest} \cup Ent(Tail(prog[t]))
  <2>1. Ent(p) = Ent(Rest(s, k)) \cup Ent(Tail(prog[t]))
    BY <1>1, <1>6, StatementConcat
  <2>. QED  BY <1>6, <2>1
<1> HIDE DEF p
<1>9. /\ \A u \in Thread : u # t => prog'[u] = prog[u]
      /\ prog'[t] = p
  BY <1>3 DEF TypeOK, p
<1>10. /\ \A u \in Thread : u # t => Todo(u)' = Todo(u)
       /\ Todo(t)' = Ent(p)
  BY <1>9 DEF Todo
<1>11. \A r \in Todo(t)' : r.op # "exec" /\ SendsOn(t, r)
  BY <1>1, <1>5, <1>7, <1>8, <1>10 DEF FlowInv, SendInv
<1>12. LoneCall'
  BY <1>9, <1>10, <1>11 DEF FlowInv, LoneCall
<1>13. SendInv'
  <2> SUFFICES ASSUME NEW u \in Thread, NEW r \in Todo(u)' PROVE SendsOn(u, r)'
    BY DEF SendInv
  <2>1. SendsOn(u, r)
    BY <1>10, <1>11 DEF FlowInv, SendInv
  <2>. QED  BY <1>3, <2>1 DEF SendsOn
<1>14. OrderInv'
  <2> SUFFICES ASSUME NEW l \in Link, OneWayIn(Links[l].from), OneWayIn(Links[l].to)
               PROVE  Chain(log[Links[l].from], log[Links[l].to], Calls(l)', queue'[l])
    BY <1>3 DEF OrderInv
  <2>1. Calls(l)' \in SUBSET Calls(l)
    <3>1. l \in Thread
      BY DEF Thread
    <3>. QED  BY <1>10, <1>11, <3>1 DEF Calls
  <2>2. Chain(log[Links[l].from], log[Links[l].to], Calls(l), queue[l])
    BY DEF FlowInv, OrderInv
  <2>3. Chain(log[Links[l].from], log[Links[l].to], Calls(l)', queue[l])
    BY <2>1, <2>2, ChainFewer
  <2>4. CASE l # k
    <3>1. queue'[l] = queue[l]
      BY <1>3, <2>4 DEF TypeOK
    <3>. QED  BY <2>3, <3>1
  <2>5. CASE l = k
    <3>1. queue'[l] = Append(queue[l], s.event) /\ queue[l] \in Seq(Event)
      BY <1>3, <2>5 DEF TypeOK
    <3>2. log[Links[l].from] \in Seq(Result)
      BY LinkFacts DEF TypeOK, Result
    <3>3. s.event # Stop => EndsWith(log[Links[l].from], s.event)
      <4> SUFFICES ASSUME s.event # Stop PROVE EndsWith(log[Links[l].from], s.event)
        OBVIOUS
      <4>1. ~(t \in Callers /\ t \in Executors(Links[l].to))
        BY OnlyWorker, RuntimeAssumption
      <4>. QED  BY <1>1, <1>3, <1>4, <2>5, <4>1 DEF SendsOn
    <3>4. Chain(log[Links[l].from], log[Links[l].to], Calls(l)', Append(queue[l], s.event))
      BY <1>2, <2>3, <3>1, <3>2, <3>3, ChainSent
    <3>. QED  BY <3>1, <3>4
  <2>. QED  BY <2>4, <2>5
<1>. QED  BY <1>12, <1>13, <1>14 DEF FlowInv

LEMMA ExecFlow ==
  ASSUME TypeOK, FlowInv, NEW t \in Thread, ExecStep(t)
  PROVE  FlowInv'
<1> DEFINE c == Head(prog[t])
           x == c.exec
           d == c.data
           r(outcome) == [data |-> d, result |-> outcome, by |-> t]
<1>1. /\ c \in Statement /\ c.op = "exec" /\ Tail(prog[t]) \in Seq(Statement)
      /\ prog[t] \in Seq(Statement) /\ prog[t] # <<>>
  BY RunningHead DEF ExecStep, Running
<1>2. x \in Exec /\ d \in Data /\ c.retry \in Nat
  BY <1>1, HeadFields
<1>3. Todo(t) = {c} /\ t \in Executors(x) /\ Tail(prog[t]) = <<>>
  <2>1. /\ Todo(t) = {c} \cup Ent(Tail(prog[t]))
        /\ Len(prog[t]) \in Nat /\ Len(Tail(prog[t])) = Len(prog[t]) - 1
    BY <1>1, EntHead DEF Todo
  <2>2. Len(prog[t]) = 1 /\ t \in Executors(x)
    BY <1>1, <2>1 DEF FlowInv, LoneCall
  <2>3. Len(Tail(prog[t])) = 0
    BY <2>1, <2>2
  <2>4. \A s \in Seq(Statement) : Len(s) = 0 => s = <<>>
    OBVIOUS
  <2>5. Tail(prog[t]) = <<>>
    BY <1>1, <2>3, <2>4, Zenon
  <2>. QED  BY <2>1, <2>2, <2>5, EntNone
<1>4. PICK outcome \in Outcomes[x] \ {"throw"} :
        /\ prog' = [prog EXCEPT ![t] = AfterExec(x, d, c.retry, outcome) \o Tail(@)]
        /\ log' = IF outcome = "fail" /\ c.retry < RetryMax[x] THEN log
                  ELSE [log EXCEPT ![x] = Append(@, r(outcome))]
        /\ queue' = queue
  BY DEF ExecStep
<1>5. outcome \in {"ok", "fail", "stop"}
  BY <1>2, RuntimeAssumption
<1> DEFINE p == AfterExec(x, d, c.retry, outcome)
<1>6. r(outcome) \in Result
  BY <1>2, <1>5 DEF Result
<1>7. r(outcome).data = d
  OBVIOUS
<1> HIDE DEF x, d, c, r
<1>8. prog'[t] = p /\ p \in Seq(Statement) /\ \A u \in Thread : u # t => prog'[u] = prog[u]
  <2>1. p \in Seq(Statement)
    BY <1>2, <1>5, AfterExecType
  <2> HIDE DEF p
  <2>2. p \o <<>> = p
    BY <2>1
  <2>. QED  BY <1>3, <1>4, <2>1, <2>2 DEF TypeOK, p
<1>9. Todo(t)' = Ent(p) /\ \A u \in Thread : u # t => Todo(u)' = Todo(u)
  BY <1>8 DEF Todo
<1>10. CASE outcome = "fail" /\ c.retry < RetryMax[x]
  <2>1. p = <<Call(x, d, c.retry + 1)>> /\ log' = log
    BY <1>4, <1>10 DEF AfterExec
  <2>2. Ent(p) = {Call(x, d, c.retry + 1)} /\ Len(p) = 1
    BY <2>1, EntSingle
  <2> DEFINE again == Call(x, d, c.retry + 1)
  <2>3. again.op = "exec" /\ again.exec = x /\ again.data = d
    BY DEF Call
  <2> HIDE DEF again, p
  <2>4. Todo(t)' = {again} /\ Len(prog'[t]) = 1
    BY <1>8, <1>9, <2>2 DEF again
  <2>5. LoneCall'
    <3> SUFFICES ASSUME NEW u \in Thread, NEW s \in Todo(u)', s.op = "exec"
                 PROVE  Len(prog'[u]) = 1 /\ u \in Executors(s.exec)
      BY DEF LoneCall, Executors
    <3>1. CASE u # t
      BY <1>8, <1>9, <3>1 DEF FlowInv, LoneCall
    <3>2. CASE u = t
      BY <1>3, <2>3, <2>4, <3>2
    <3>. QED  BY <3>1, <3>2
  <2>6. SendInv'
    <3> SUFFICES ASSUME NEW u \in Thread, NEW s \in Todo(u)' PROVE SendsOn(u, s)'
      BY DEF SendInv
    <3>1. SendsOn(u, s)
      <4>1. CASE u # t
        BY <1>9, <4>1 DEF FlowInv, SendInv
      <4>2. CASE u = t
        BY <2>3, <2>4, <4>2 DEF SendsOn
      <4>. QED  BY <4>1, <4>2
    <3>. QED  BY <2>1, <3>1 DEF SendsOn
  <2>7. OrderInv'
    <3> SUFFICES ASSUME NEW l \in Link, OneWayIn(Links[l].from), OneWayIn(Links[l].to)
                 PROVE  Chain(log[Links[l].from], log[Links[l].to], Calls(l)', queue[l])
      BY <1>4, <2>1 DEF OrderInv
    <3>1. Calls(l)' \in SUBSET Calls(l)
      <4>1. l \in Thread
        BY DEF Thread
      <4>2. CASE l # t
        BY <1>9, <4>1, <4>2 DEF Calls
      <4>3. CASE l = t
        BY <1>1, <1>3, <2>3, <2>4, <4>3 DEF Calls, d
      <4>. QED  BY <4>2, <4>3
    <3>2. Chain(log[Links[l].from], log[Links[l].to], Calls(l), queue[l])
      BY DEF FlowInv, OrderInv
    <3>. QED  BY <3>1, <3>2, ChainFewer
  <2>. QED  BY <2>5, <2>6, <2>7 DEF FlowInv
<1>11. CASE ~(outcome = "fail" /\ c.retry < RetryMax[x])
  <2>1. Ent(p) \subseteq Output(x, d)
    BY <1>2, <1>5, <1>11, AfterExecOutput, EntType
  <2>2. \A s \in Todo(t)' :
          /\ s \in Statement /\ s.op # "exec"
          /\ s.op = "send" => s.event = d /\ \A k \in s.links : Links[k].from = x
    BY <1>9, <2>1 DEF Output
  <2> HIDE DEF p
  <2>3. log' = [log EXCEPT ![x] = Append(@, r(outcome))]
    BY <1>4, <1>11
  <2>4. /\ log[x] \in Seq(Result) /\ log'[x] = Append(log[x], r(outcome))
        /\ \A z \in Exec : z # x => log'[z] = log[z]
    BY <1>2, <2>3 DEF TypeOK, Result
  <2>5. EndsWith(log'[x], d)
    BY <1>6, <1>7, <2>4, LongerLog
  <2>6. LoneCall'
    <3> SUFFICES ASSUME NEW u \in Thread, NEW s \in Todo(u)', s.op = "exec"
                 PROVE  Len(prog'[u]) = 1 /\ u \in Executors(s.exec)
      BY DEF LoneCall, Executors
    <3>1. u # t
      BY <2>2
    <3>. QED  BY <1>8, <1>9, <3>1 DEF FlowInv, LoneCall
  <2>7. SendInv'
    <3> SUFFICES ASSUME NEW u \in Thread, NEW s \in Todo(u)', s.op = "send", s.event # Stop,
                        NEW k \in s.links
                 PROVE  \/ /\ u \in Executors(Links[k].from)
                           /\ OneWayIn(Links[k].from) => EndsWith(log'[Links[k].from], s.event)
                        \/ u \in Callers /\ u \in Executors(Links[k].to)
      BY DEF SendInv, SendsOn, OneWayIn, Executors
    <3>1. CASE u = t
      BY <1>3, <2>2, <2>5, <3>1
    <3>2. CASE u # t
      <4>1. s \in Todo(u) /\ SendsOn(u, s)
        BY <1>9, <3>2 DEF FlowInv, SendInv
      <4>2. k \in Link
        BY <4>1, EntType, HeadFields DEF Todo, TypeOK
      <4> DEFINE z == Links[k].from
      <4>3. z \in Exec
        BY <4>2, LinkFacts
      <4>4. CASE z # x
        BY <2>4, <4>1, <4>3, <4>4 DEF SendsOn
      <4>5. CASE z = x
        <5>1. u \in Executors(x) => ~OneWayIn(x)
          BY <1>3, <3>2 DEF OneWayIn
        <5>. QED  BY <4>1, <4>5, <5>1 DEF SendsOn
      <4>. QED  BY <4>4, <4>5
    <3>. QED  BY <3>1, <3>2
  <2>8. OrderInv'
    <3> SUFFICES ASSUME NEW l \in Link, OneWayIn(Links[l].from), OneWayIn(Links[l].to)
                 PROVE  Chain(log'[Links[l].from], log'[Links[l].to], Calls(l)', queue[l])
      BY <1>4 DEF OrderInv, OneWayIn, Executors
    <3> DEFINE before == Links[l].from
               after == Links[l].to
    <3>1. before \in Exec /\ after \in Exec /\ l \in Thread
      BY LinkFacts DEF Thread
    <3>2. Chain(log[before], log[after], Calls(l), queue[l])
      BY DEF FlowInv, OrderInv
    <3> HIDE DEF before, after
    <3>3. Chain(log[before], log'[after], Calls(l)', queue[l])
      <4>1. CASE after = x
        <5>1. t = l
          BY <1>3, <4>1, OnlyWorker DEF after
        <5>2. Calls(l) = {r(outcome).data}
          BY <1>1, <1>3, <1>7, <5>1 DEF Calls, d
        <5>3. Calls(l)' = {}
          BY <2>2, <5>1 DEF Calls
        <5>4. Chain(log[before], Append(log[after], r(outcome)), {}, queue[l])
          BY <1>6, <2>4, <3>2, <4>1, <5>2, ChainFinished
        <5>. QED  BY <2>4, <4>1, <5>3, <5>4
      <4>2. CASE after # x
        <5>1. log'[after] = log[after]
          BY <2>4, <3>1, <4>2
        <5>2. Calls(l)' \in SUBSET Calls(l)
          BY <1>9, <2>2, <3>1 DEF Calls
        <5>. QED  BY <3>2, <5>1, <5>2, ChainFewer
      <4>. QED  BY <4>1, <4>2
    <3>4. CASE before = x
      <4>1. Chain(Append(log[before], r(outcome)), log'[after], Calls(l)', queue[l])
        BY <1>6, <2>4, <3>3, <3>4, ChainGrows
      <4>. QED  BY <2>4, <3>4, <4>1 DEF before, after
    <3>5. CASE before # x
      BY <2>4, <3>1, <3>3, <3>5 DEF before, after
    <3>. QED  BY <3>4, <3>5
  <2>. QED  BY <2>6, <2>7, <2>8 DEF FlowInv
<1>. QED  BY <1>10, <1>11

LEMMA EmitFlow ==
  ASSUME TypeOK, FlowInv, NEW c \in Callers, EmitCall(c)
  PROVE  FlowInv'
<1> DEFINE e == emitted'
<1>1. PICK inlet \in Entry : prog' = [prog EXCEPT ![c] = EmitProgram(inlet[1], inlet[2], e)]
  BY DEF EmitCall
<1>2. e # Stop /\ log' = log /\ queue' = queue
  BY RuntimeAssumption DEF EmitCall, TypeOK, Stop
<1> DEFINE x == inlet[1]
           let == inlet[2]
           s == IF InLink(x, let) # {} THEN Send(InLink(x, let), e) ELSE Call(x, e, 0)
<1> HIDE DEF e
<1>3. EmitProgram(x, let, e) = <<s>>
  BY <1>2 DEF EmitProgram, OnEvent
<1>4. c \in Thread /\ c \notin Link /\ c \in Executors(x)
  BY RuntimeAssumption DEF Thread, Executors
<1>5. /\ s.op = "exec" => s.exec = x
      /\ s.op = "send" => \A k \in s.links : Links[k].to = x
  BY DEF Send, Call, InLink
<1> HIDE DEF s, x, let
<1>6. /\ \A u \in Thread : u # c => prog'[u] = prog[u]
      /\ prog'[c] = <<s>>
  BY <1>1, <1>3, <1>4 DEF TypeOK, x, let
<1>7. /\ \A u \in Thread : u # c => Todo(u)' = Todo(u)
      /\ Todo(c)' = {s} /\ Len(prog'[c]) = 1
  BY <1>6, EntSingle DEF Todo
<1>8. LoneCall'
  <2> SUFFICES ASSUME NEW u \in Thread, NEW r \in Todo(u)', r.op = "exec"
               PROVE  Len(prog'[u]) = 1 /\ u \in Executors(r.exec)
    BY DEF LoneCall, Executors
  <2>1. CASE u # c
    BY <1>6, <1>7, <2>1 DEF FlowInv, LoneCall
  <2>2. CASE u = c
    BY <1>4, <1>5, <1>7, <2>2
  <2>. QED  BY <2>1, <2>2
<1>9. SendInv'
  <2> SUFFICES ASSUME NEW u \in Thread, NEW r \in Todo(u)' PROVE SendsOn(u, r)'
    BY DEF SendInv
  <2>1. SendsOn(u, r)
    <3>1. CASE u # c
      BY <1>7, <3>1 DEF FlowInv, SendInv
    <3>2. CASE u = c
      BY <1>4, <1>5, <1>7, <3>2 DEF SendsOn
    <3>. QED  BY <3>1, <3>2
  <2>. QED  BY <1>2, <2>1 DEF SendsOn
<1>10. OrderInv'
  <2>1. \A l \in Link : Calls(l)' = Calls(l)
    BY <1>4, <1>7 DEF Calls, Thread
  <2>. QED  BY <1>2, <2>1 DEF FlowInv, OrderInv
<1>. QED  BY <1>8, <1>9, <1>10 DEF FlowInv

LEMMA StopStepFlow ==
  ASSUME TypeOK, FlowInv, NEW t \in Thread, StopStep(t)
  PROVE  FlowInv'
<1> DEFINE l == Head(prog[t]).link
           wake == Send({l}, Stop)
           p == <<wake>> \o Tail(prog[t])
<1>1. l \in Link /\ Tail(prog[t]) \in Seq(Statement)
  BY RunningHead, HeadFields DEF StopStep
<1>2. wake \in Statement /\ wake.op = "send" /\ wake.event = Stop
  BY <1>1, StatementTypes DEF Send, Event
<1>3. prog' = [prog EXCEPT ![t] = p] /\ log' = log /\ queue' = queue
  BY DEF StopStep
<1>4. \A s \in Ent(Tail(prog[t])) : s \in Todo(t) /\ s.op # "exec"
  BY NotTheCall DEF FlowInv, StopStep
<1> HIDE DEF wake
<1>5. p \in Seq(Statement) /\ <<wake>> \in Seq(Statement)
  BY <1>1, <1>2
<1>6. Ent(p) = {wake} \cup Ent(Tail(prog[t]))
  <2>1. Ent(p) = Ent(<<wake>>) \cup Ent(Tail(prog[t]))
    BY <1>1, <1>5, StatementConcat
  <2>. QED  BY <2>1, EntSingle
<1> HIDE DEF p
<1>. QED  BY <1>2, <1>3, <1>4, <1>5, <1>6, QuietFlow

LEMMA NextFlow == TypeOK /\ FlowInv /\ [Next]_vars => FlowInv'
<1> SUFFICES ASSUME TypeOK, FlowInv, [Next]_vars PROVE FlowInv'
  OBVIOUS
<1> USE DEF state, calls
<1>1. ASSUME NEW l \in Link, LoopTest(l) PROVE FlowInv'
  BY <1>1, SameFlow DEF LoopTest
<1>2. ASSUME NEW l \in Link, Take(l) PROVE FlowInv'
  BY <1>2, TakeFlow
<1>3. ASSUME NEW t \in Thread, ExecThrow(t) PROVE FlowInv'
  <2>1. prog' = [prog EXCEPT ![t] = <<>>] /\ UNCHANGED <<log, queue>>
    BY <1>3 DEF ExecThrow
  <2>2. <<>> \in Seq(Statement)
    OBVIOUS
  <2>. QED  BY <2>1, <2>2, EntNone, QuietFlow
<1>4. ASSUME NEW t \in Thread,
             SendDone(t) \/ RunStep(t) \/ ExecsStep(t) \/ ReadStep(t) \/ WriteStep(t)
      PROVE  FlowInv'
  <2>1. /\ UNCHANGED <<log, queue>> /\ Pop(t)
        /\ \E k \in {"send", "run", "execs", "read", "write"} : Running(t, k)
    BY <1>4 DEF SendDone, RunStep, ExecsStep, ReadStep, WriteStep
  <2>. QED  BY <2>1, PopFlow
<1>5. ASSUME NEW t \in Thread, ExecStep(t) \/ SendStep(t) \/ StopStep(t) PROVE FlowInv'
  BY <1>5, ExecFlow, SendFlow, StopStepFlow
<1>6. ASSUME NEW c \in Callers, EmitCall(c) PROVE FlowInv'
  BY <1>6, EmitFlow
<1>7. ASSUME NEW c \in Callers, StartCall(c) \/ StopCall(c) PROVE FlowInv'
  <2> DEFINE Still == {s \in Statement : s.op \notin {"exec", "send"}}
  <2>1. /\ \A k \in Link : RunLink(k) \in Still /\ StopLink(k) \in Still
        /\ \A s \in Status : SetExecs(s) \in Still
        /\ ReadState \in Still
        /\ \A s \in {"RUNNING", "STOPPED"} : WriteState(s) \in Still
    BY StatementTypes DEF RunLink, StopLink, SetExecs, ReadState, WriteState
  <2> HIDE DEF Still
  <2>2. /\ [k \in Link |-> RunLink(k)] \in [1..Len(Links) -> Still]
        /\ [k \in Link |-> StopLink(k)] \in [1..Len(Links) -> Still]
    BY <2>1 DEF Link
  <2>3. /\ [k \in Link |-> RunLink(k)] \in Seq(Still)
        /\ [k \in Link |-> StopLink(k)] \in Seq(Still)
    BY <2>2, RuntimeAssumption
  <2>4. StartProgram \in Seq(Still) /\ StopProgram \in Seq(Still)
    BY <2>1, <2>3 DEF StartProgram, StopProgram, Update, Status
  <2>5. PICK p \in {StartProgram, StopProgram} : prog' = [prog EXCEPT ![c] = p]
    BY <1>7 DEF StartCall, StopCall
  <2>6. p \in Seq(Statement) /\ Ent(p) \subseteq Still
    BY <2>4, ProgramTypes, EntType
  <2>7. c \in Thread /\ UNCHANGED <<log, queue>>
    BY <1>7 DEF StartCall, StopCall, Thread
  <2>. QED  BY <2>5, <2>6, <2>7, QuietFlow DEF Still
<1>8. ASSUME UNCHANGED vars PROVE FlowInv'
  BY <1>8, SameFlow DEF vars, control
<1>. QED
  BY <1>1, <1>2, <1>3, <1>4, <1>5, <1>6, <1>7, <1>8 DEF Next, Step

LEMMA InitFlow == Init => FlowInv
<1> SUFFICES ASSUME Init PROVE FlowInv
  OBVIOUS
<1>1. \A t \in Thread : Todo(t) = {}
  BY EntNone DEF Init, Todo
<1>2. LoneCall /\ SendInv
  BY <1>1 DEF LoneCall, SendInv
<1>3. ASSUME NEW l \in Link PROVE Chain(log[Links[l].from], log[Links[l].to], Calls(l), queue[l])
  <2>1. log[Links[l].from] = <<>> /\ log[Links[l].to] = <<>> /\ queue[l] = <<>>
    BY LinkFacts DEF Init
  <2>2. Calls(l) = {}
    BY <1>1 DEF Calls, Thread
  <2>. QED  BY <2>1, <2>2 DEF Chain
<1>. QED  BY <1>2, <1>3 DEF FlowInv, OrderInv

\* in a log nothing overtakes what the log before it holds
Follows(before, after) ==
  \A i, j \in DOMAIN after : i < j /\ after[i].data # after[j].data =>
    \E p, q \in DOMAIN before :
      p < q /\ before[p].data = after[i].data /\ before[q].data = after[j].data

LEMMA ChainFollows ==
  ASSUME NEW s \in Seq(Result), NEW done \in Seq(Result), NEW now, NEW q, Chain(s, done, now, q)
  PROVE  Follows(s, done)
<1>1. DOMAIN s = 1..Len(s) /\ DOMAIN done = 1..Len(done)
  OBVIOUS
<1>2. ASSUME NEW i \in DOMAIN done, NEW j \in DOMAIN done, i < j, done[i].data # done[j].data
      PROVE  \E p, r \in DOMAIN s : p < r /\ s[p].data = done[i].data /\ s[r].data = done[j].data
  <2>1. Precedes(s, done[i].data, done[j].data)
    BY <1>1, <1>2 DEF Chain
  <2>. QED  BY <1>1, <1>2, <2>1 DEF Precedes
<1>. QED  BY <1>2, Zenon DEF Follows

\* In every workflow, an exec behind a link that one thread executes finishes
\* events in the order in which the exec before it, if one thread executes it
\* too, finished them: whatever waits in full queues or is tried again.
THEOREM AlwaysInOrder == Spec => []InOrder
<1>1. ASSUME TypeOK, FlowInv, NEW l \in Link, OneWayIn(Links[l].from), OneWayIn(Links[l].to)
      PROVE  Follows(log[Links[l].from], log[Links[l].to])
  <2>1. log[Links[l].from] \in Seq(Result) /\ log[Links[l].to] \in Seq(Result)
    BY <1>1, LinkFacts DEF TypeOK, Result
  <2>2. Chain(log[Links[l].from], log[Links[l].to], Calls(l), queue[l])
    BY <1>1 DEF FlowInv, OrderInv
  <2>. QED  BY <2>1, <2>2, ChainFollows
<1>2. TypeOK /\ FlowInv => InOrder
  BY <1>1 DEF InOrder, Follows
<1>. QED  BY <1>2, InitFlow, NextFlow, TypeCorrect, PTL DEF Spec
-----------------------------------------------------------------------------
(* What threads have left.  Every write of a record follows a read of it,  *)
(* and no program but that of start() runs a link or says RUNNING.         *)

Reads(p) == \A i \in 1..Len(p) : p[i].op = "write" => i > 1 /\ p[i - 1].op = "read"

Quiet(p) ==
  \A i \in 1..Len(p) : /\ p[i].op # "run"
                       /\ p[i].op = "execs" => p[i].status = "STOPPED"
                       /\ p[i].op = "write" => p[i].change # "RUNNING"

Tame(p) == Reads(p) /\ Quiet(p)

LEMMA ConcatIndex ==
  ASSUME NEW T, NEW a \in Seq(T), NEW b \in Seq(T)
  PROVE  /\ a \o b \in Seq(T)
         /\ Len(a) \in Nat /\ Len(b) \in Nat /\ Len(a \o b) = Len(a) + Len(b)
         /\ \A i \in 1..Len(a) : (a \o b)[i] = a[i]
         /\ \A i \in 1..Len(b) : (a \o b)[i + Len(a)] = b[i]
OBVIOUS

LEMMA ReadsConcat ==
  ASSUME NEW T, NEW a \in Seq(T), NEW b \in Seq(T), Reads(a), Reads(b)
  PROVE  Reads(a \o b)
<1> DEFINE w == a \o b
<1>1. /\ Len(a) \in Nat /\ Len(b) \in Nat /\ Len(w) = Len(a) + Len(b)
      /\ \A i \in 1..Len(a) : w[i] = a[i]
      /\ \A i \in 1..Len(b) : w[i + Len(a)] = b[i]
  BY ConcatIndex
<1> HIDE DEF w
<1>2. SUFFICES ASSUME NEW i \in 1..Len(w), w[i].op = "write" PROVE i > 1 /\ w[i - 1].op = "read"
  BY DEF Reads, w
<1>3. CASE i <= Len(a)
  <2>1. i \in 1..Len(a) /\ w[i] = a[i]
    BY <1>1, <1>3
  <2>2. i > 1 /\ a[i - 1].op = "read"
    BY <1>2, <2>1 DEF Reads
  <2>3. i - 1 \in 1..Len(a)
    BY <1>1, <2>1, <2>2
  <2>. QED  BY <1>1, <2>2, <2>3
<1>4. CASE i > Len(a)
  <2> DEFINE k == i - Len(a)
  <2>1. k \in 1..Len(b) /\ i = k + Len(a)
    BY <1>1, <1>4
  <2> HIDE DEF k
  <2>2. w[i] = b[k]
    BY <1>1, <2>1
  <2>3. k > 1 /\ b[k - 1].op = "read"
    BY <1>2, <2>1, <2>2 DEF Reads
  <2>4. k - 1 \in 1..Len(b) /\ i - 1 = (k - 1) + Len(a) /\ i > 1
    BY <1>1, <2>1, <2>3
  <2>5. w[i - 1] = b[k - 1]
    BY <1>1, <2>4
  <2>. QED  BY <2>3, <2>4, <2>5
<1>. QED  BY <1>1, <1>3, <1>4

\* whether a list is quiet shows in its statements alone
LEMMA QuietEnt ==
  ASSUME NEW p
  PROVE  Quiet(p) <=> \A s \in Ent(p) : /\ s.op # "run"
                                        /\ s.op = "execs" => s.status = "STOPPED"
                                        /\ s.op = "write" => s.change # "RUNNING"
BY DEF Quiet, Ent

LEMMA TameConcat ==
  ASSUME NEW T, NEW a \in Seq(T), NEW b \in Seq(T), Tame(a), Tame(b)
  PROVE  Tame(a \o b)
<1>1. Reads(a \o b)
  BY ReadsConcat DEF Tame
<1>2. Quiet(a \o b)
  <2>1. Ent(a \o b) = Ent(a) \cup Ent(b)
    BY EntConcat
  <2>. QED  BY <2>1, QuietEnt DEF Tame
<1>. QED  BY <1>1, <1>2 DEF Tame

LEMMA PlainTame ==
  ASSUME NEW p, \A s \in Ent(p) : s.op \notin {"write", "execs", "run"}
  PROVE  Tame(p)
BY DEF Ent, Tame, Reads, Quiet

LEMMA NoneTame == Tame(<<>>)
BY EntNone, PlainTame

LEMMA UpdateTame ==
  /\ Tame(Commit)
  /\ \A s \in Status : Reads(Update(s))
<1>1. ASSUME NEW c PROVE /\ Len(<<ReadState, WriteState(c)>>) = 2
                         /\ <<ReadState, WriteState(c)>>[1] = ReadState
                         /\ <<ReadState, WriteState(c)>>[2] = WriteState(c)
  OBVIOUS
<1>2. ReadState.op = "read" /\ \A c : WriteState(c).op = "write" /\ WriteState(c).change = c
  BY DEF ReadState, WriteState
<1>3. ASSUME NEW c PROVE Reads(<<ReadState, WriteState(c)>>)
  <2> DEFINE w == <<ReadState, WriteState(c)>>
  <2>1. Len(w) = 2 /\ w[1].op = "read"
    BY <1>1, <1>2
  <2> HIDE DEF w
  <2>2. Reads(w)
    BY <2>1 DEF Reads
  <2>. QED  BY <2>2 DEF w
<1>4. Quiet(Commit)
  <2>1. Len(Commit) = 2 /\ Commit[1].op = "read" /\ Commit[2].op = "write" /\ Commit[2].change = "commit"
    BY <1>1, <1>2 DEF Commit
  <2>. QED  BY <2>1 DEF Quiet
<1>. QED  BY <1>3, <1>4 DEF Tame, Commit, Update

LEMMA StopTame == Tame(StopProgram) /\ Reads(StartProgram)
<1> DEFINE head(s) == <<SetExecs(s)>>
           middle == [l \in Link |-> StopLink(l)]
           start == [l \in Link |-> RunLink(l)]
<1>1. /\ \A s \in Status : SetExecs(s).op = "execs" /\ SetExecs(s).status = s
      /\ \A l \in Link : StopLink(l).op = "stop" /\ RunLink(l).op = "run"
      /\ \A s : WriteState(s).op = "write" /\ WriteState(s).change = s
      /\ ReadState.op = "read"
      /\ "STOPPED" \in Status /\ "RUNNING" \in Status
  BY DEF SetExecs, StopLink, RunLink, WriteState, ReadState, Status
<1>2. \A s \in Status : head(s) \in Seq(Statement)
  BY StatementTypes
<1>3. /\ middle \in [1..Len(Links) -> Statement]
      /\ start \in [1..Len(Links) -> Statement]
  BY StatementTypes DEF Link
<1>4. /\ middle \in Seq(Statement) /\ Len(middle) = Len(Links)
      /\ start \in Seq(Statement) /\ Len(start) = Len(Links)
  BY <1>3, RuntimeAssumption
<1>5. /\ \A s \in Ent(middle) : s.op = "stop"
      /\ \A s \in Ent(start) : s.op = "run"
  <2>1. \A i \in Link : middle[i] = StopLink(i) /\ start[i] = RunLink(i)
    OBVIOUS
  <2> HIDE DEF middle, start
  <2>2. Ent(middle) = {middle[i] : i \in Link} /\ Ent(start) = {start[i] : i \in Link}
    BY <1>4 DEF Ent, Link
  <2>. QED  BY <1>1, <2>1, <2>2
<1>6. \A s \in {"STOPPED", "RUNNING"} : Update(s) \in Seq(Statement)
  BY StatementTypes DEF Update
<1>7. \A s \in Status : \A r \in Ent(head(s)) : r.op = "execs" /\ r.status = s
  BY <1>1, EntSingle
<1>8. \A s \in {"STOPPED", "RUNNING"} : Ent(Update(s)) \subseteq {ReadState, WriteState(s)}
  <2>1. ASSUME NEW s PROVE Ent(<<ReadState, WriteState(s)>>) \subseteq {ReadState, WriteState(s)}
    <3>1. /\ Len(<<ReadState, WriteState(s)>>) = 2
          /\ <<ReadState, WriteState(s)>>[1] = ReadState
          /\ <<ReadState, WriteState(s)>>[2] = WriteState(s)
      OBVIOUS
    <3>. QED  BY <3>1 DEF Ent
  <2>. QED  BY <2>1 DEF Update
<1> DEFINE two(s, m) == head(s) \o m
<1>9. /\ StopProgram = two("STOPPED", middle) \o Update("STOPPED")
      /\ StartProgram = two("RUNNING", start) \o Update("RUNNING")
  BY DEF StopProgram, StartProgram
<1>11. ASSUME NEW s \in Status PROVE Reads(head(s))
  BY <1>7 DEF Reads, Ent
<1>12. Reads(middle) /\ Reads(start)
  BY <1>5 DEF Reads, Ent
<1> HIDE DEF head, middle, start
<1>13. two("STOPPED", middle) \in Seq(Statement) /\ two("RUNNING", start) \in Seq(Statement)
  BY <1>1, <1>2, <1>4
<1>14. Reads(two("STOPPED", middle)) /\ Reads(two("RUNNING", start))
  BY <1>1, <1>2, <1>4, <1>11, <1>12, ReadsConcat
<1>15. /\ Ent(two("STOPPED", middle)) = Ent(head("STOPPED")) \cup Ent(middle)
  BY <1>1, <1>2, <1>4, EntConcat
<1> HIDE DEF two
<1>16. Reads(StopProgram) /\ Reads(StartProgram)
  BY <1>1, <1>6, <1>9, <1>13, <1>14, ReadsConcat, UpdateTame
<1>17. Ent(StopProgram) = Ent(two("STOPPED", middle)) \cup Ent(Update("STOPPED"))
  BY <1>6, <1>9, <1>13, EntConcat
<1>18. Quiet(StopProgram)
  BY <1>1, <1>5, <1>7, <1>8, <1>15, <1>17, QuietEnt
<1>. QED  BY <1>16, <1>18 DEF Tame

LEMMA OnEventTame == \A x, e : Tame(OnEvent(x, e))
<1> SUFFICES ASSUME NEW x, NEW e PROVE Tame(OnEvent(x, e))
  OBVIOUS
<1>1. CASE e = Stop
  BY <1>1, NoneTame DEF OnEvent
<1>2. CASE e # Stop
  <2>1. OnEvent(x, e) = <<Call(x, e, 0)>> /\ Call(x, e, 0).op = "exec"
    BY <1>2 DEF OnEvent, Call
  <2>2. \A s \in Ent(OnEvent(x, e)) : s.op = "exec"
    BY <2>1, EntSingle
  <2>. QED  BY <2>2, PlainTame
<1>. QED  BY <1>1, <1>2

LEMMA EmitTame == \A x, let, d : Tame(EmitProgram(x, let, d))
<1> SUFFICES ASSUME NEW x, NEW let, NEW d PROVE Tame(EmitProgram(x, let, d))
  OBVIOUS
<1>1. CASE InLink(x, let) = {}
  BY <1>1, OnEventTame DEF EmitProgram
<1>2. CASE InLink(x, let) # {}
  <2> DEFINE s == Send(InLink(x, let), d)
  <2>1. s.op = "send" /\ EmitProgram(x, let, d) = <<s>>
    BY <1>2 DEF EmitProgram, Send
  <2> HIDE DEF s
  <2>2. \A r \in Ent(EmitProgram(x, let, d)) : r.op = "send"
    BY <2>1, EntSingle
  <2>. QED  BY <2>2, PlainTame
<1>. QED  BY <1>1, <1>2

LEMMA AfterExecTame ==
  ASSUME NEW x \in Exec, NEW d \in Data, NEW n \in Nat, NEW outcome \in {"ok", "fail", "stop"}
  PROVE  Tame(AfterExec(x, d, n, outcome))
<1>1. CASE outcome = "ok"
  <2> DEFINE s == Send(BroadcastLinks(x), d)
             sends == [i \in 1..Units[x] |-> s]
  <2>1. Units[x] \in Nat
    BY RuntimeAssumption
  <2>2. s \in Statement /\ s.op = "send"
    <3>1. d \in Event /\ BroadcastLinks(x) \in SUBSET Link
      BY DEF Event, BroadcastLinks, Outlets
    <3>. QED  BY <3>1, StatementTypes DEF Send
  <2> HIDE DEF s
  <2>3. sends \in Seq(Statement) /\ Ent(sends) \subseteq {s}
    <3>1. sends \in [1..Units[x] -> Statement] /\ \A i \in 1..Units[x] : sends[i] = s
      BY <2>2
    <3>2. sends \in Seq(Statement) /\ Len(sends) = Units[x]
      BY <2>1, <3>1
    <3>. QED  BY <3>1, <3>2 DEF Ent
  <2>4. Tame(sends)
    BY <2>2, <2>3, PlainTame
  <2>5. Tame(sends \o Commit)
    BY <2>3, <2>4, ProgramTypes, UpdateTame, TameConcat
  <2>. QED  BY <1>1, <2>5 DEF AfterExec, s
<1>2. CASE outcome = "stop"
  <2>1. Tame(Commit \o StopProgram)
    BY ProgramTypes, UpdateTame, StopTame, TameConcat
  <2>. QED  BY <1>2, <2>1 DEF AfterExec
<1>3. CASE outcome = "fail"
  <2> DEFINE s == IF n < RetryMax[x] THEN Call(x, d, n + 1) ELSE Send(ErrorLinks(x), d)
  <2>1. AfterExec(x, d, n, outcome) = <<s>> /\ s.op \in {"exec", "send"}
    BY <1>3 DEF AfterExec, Call, Send
  <2> HIDE DEF s
  <2>2. \A r \in Ent(AfterExec(x, d, n, outcome)) : r.op \in {"exec", "send"}
    BY <2>1, EntSingle
  <2>. QED  BY <2>2, PlainTame
<1>. QED  BY <1>1, <1>2, <1>3

\* the second statement of a list is the first of its tail, and so on
LEMMA TailIndex ==
  ASSUME NEW T, NEW p \in Seq(T), p # <<>>
  PROVE  /\ Tail(p) \in Seq(T) /\ Len(p) \in Nat /\ Len(p) >= 1 /\ Len(Tail(p)) = Len(p) - 1
         /\ Head(p) = p[1]
         /\ \A i \in 1..Len(Tail(p)) : i + 1 \in 1..Len(p) /\ Tail(p)[i] = p[i + 1]
         /\ \A i \in 1..Len(p) : i > 1 => i - 1 \in 1..Len(Tail(p)) /\ Tail(p)[i - 1] = p[i]
OBVIOUS

LEMMA ReadsTail ==
  ASSUME NEW T, NEW p \in Seq(T), p # <<>>, Reads(p)
  PROVE  /\ Head(p).op # "write"
         /\ Reads(Tail(p)) \/ /\ Head(p).op = "read" /\ Tail(p) # <<>>
                              /\ Head(Tail(p)).op = "write" /\ Reads(Tail(Tail(p)))
<1> DEFINE w == Tail(p)
<1>1. /\ w \in Seq(T) /\ Len(p) \in Nat /\ Len(p) >= 1 /\ Len(w) = Len(p) - 1
      /\ Head(p) = p[1]
      /\ \A i \in 1..Len(w) : i + 1 \in 1..Len(p) /\ w[i] = p[i + 1]
  BY TailIndex
<1> HIDE DEF w
<1>2. Head(p).op # "write"
  BY <1>1 DEF Reads
<1>3. \A i \in 1..Len(w) : w[i].op = "write" => p[i].op = "read" /\ (i > 1 => w[i - 1] = p[i])
  <2> SUFFICES ASSUME NEW i \in 1..Len(w), w[i].op = "write"
               PROVE  p[i].op = "read" /\ (i > 1 => w[i - 1] = p[i])
    OBVIOUS
  <2>1. i + 1 \in 1..Len(p) /\ w[i] = p[i + 1]
    BY <1>1
  <2>2. p[(i + 1) - 1].op = "read"
    BY <2>1 DEF Reads
  <2>3. (i + 1) - 1 = i
    BY <1>1
  <2>4. i > 1 => w[i - 1] = p[i]
    <3> SUFFICES ASSUME i > 1 PROVE w[i - 1] = p[i]
      OBVIOUS
    <3>1. i - 1 \in 1..Len(w) /\ (i - 1) + 1 = i
      BY <1>1
    <3>. QED  BY <1>1, <3>1
  <2>. QED  BY <2>2, <2>3, <2>4
<1>4. CASE w # <<>> /\ w[1].op = "write"
  <2> DEFINE z == Tail(w)
  <2>1. /\ Head(w) = w[1] /\ 1 \in 1..Len(w)
        /\ \A i \in 1..Len(z) : i + 1 \in 1..Len(w) /\ z[i] = w[i + 1]
        /\ \A i \in 1..Len(w) : i > 1 => i - 1 \in 1..Len(z) /\ z[i - 1] = w[i]
        /\ Len(z) \in Nat
    BY <1>1, <1>4, TailIndex
  <2> HIDE DEF z
  <2>2. Head(p).op = "read"
    BY <1>1, <1>3, <1>4, <2>1
  <2>3. Reads(z)
    <3> SUFFICES ASSUME NEW i \in 1..Len(z), z[i].op = "write" PROVE i > 1 /\ z[i - 1].op = "read"
      BY DEF Reads
    <3>1. i + 1 \in 1..Len(w) /\ w[i + 1].op = "write" /\ (i + 1) - 1 = i /\ i + 1 > 1
      BY <2>1
    <3>2. p[i + 1].op = "read" /\ w[i] = p[i + 1]
      BY <1>3, <3>1
    <3>3. i # 1
      BY <1>4, <3>2
    <3>4. i \in 1..Len(w) /\ i > 1
      BY <1>1, <3>1, <3>3
    <3>5. z[i - 1] = w[i]
      BY <2>1, <3>4
    <3>. QED  BY <3>2, <3>4, <3>5
  <2>. QED  BY <1>2, <1>4, <2>1, <2>2, <2>3 DEF w, z
<1>5. CASE ~(w # <<>> /\ w[1].op = "write")
  <2>1. Reads(w)
    <3> SUFFICES ASSUME NEW i \in 1..Len(w), w[i].op = "write" PROVE i > 1 /\ w[i - 1].op = "read"
      BY DEF Reads
    <3>1. i # 1
      BY <1>1, <1>5
    <3>2. i > 1
      BY <1>1, <3>1
    <3>. QED  BY <1>3, <3>2
  <2>. QED  BY <1>2, <2>1 DEF w
<1>. QED  BY <1>4, <1>5

-----------------------------------------------------------------------------
\* what a thread writes back it has read, unless there is no record
ReadInv ==
  /\ store = NoState => \A t \in Thread : snap[t] = NoState
  /\ \A t \in Thread : \/ Reads(prog[t])
                       \/ /\ Running(t, "write") /\ Reads(Tail(prog[t]))
                          /\ snap[t] # NoState \/ store = NoState

LEMMA ReadKept ==
  ASSUME TypeOK, ReadInv, UNCHANGED <<store, snap>>,
         NEW t \in Thread, NEW p, prog' = [prog EXCEPT ![t] = p], Reads(p)
  PROVE  ReadInv'
<1>1. prog'[t] = p /\ \A u \in Thread : u # t => prog'[u] = prog[u]
  BY DEF TypeOK
<1>. QED  BY <1>1 DEF ReadInv, Running

LEMMA TailReads ==
  ASSUME TypeOK, ReadInv, NEW t \in Thread, NEW k, Running(t, k), k \notin {"read", "write"}
  PROVE  Reads(Tail(prog[t]))
<1>1. prog[t] \in Seq(Statement) /\ prog[t] # <<>> /\ Head(prog[t]).op = k
  BY RunningHead DEF Running
<1>2. Reads(prog[t])
  BY <1>1 DEF ReadInv, Running
<1>. QED  BY <1>1, <1>2, ReadsTail

\* where a thread is at an exec it has nothing else to do
LEMMA ExecAlone ==
  ASSUME TypeOK, FlowInv, NEW t \in Thread, Running(t, "exec")
  PROVE  Tail(prog[t]) = <<>> /\ Todo(t) = {Head(prog[t])}
<1>1. prog[t] \in Seq(Statement) /\ prog[t] # <<>> /\ Tail(prog[t]) \in Seq(Statement)
      /\ Head(prog[t]).op = "exec"
  BY RunningHead DEF Running
<1>2. /\ Todo(t) = {Head(prog[t])} \cup Ent(Tail(prog[t]))
      /\ Len(prog[t]) \in Nat /\ Len(Tail(prog[t])) = Len(prog[t]) - 1
  BY <1>1, EntHead DEF Todo
<1>3. Len(prog[t]) = 1
  BY <1>1, <1>2 DEF FlowInv, LoneCall
<1>4. Len(Tail(prog[t])) = 0
  BY <1>2, <1>3
<1>5. \A s \in Seq(Statement) : Len(s) = 0 => s = <<>>
  OBVIOUS
<1>6. Tail(prog[t]) = <<>>
  BY <1>1, <1>4, <1>5, Zenon
<1>. QED  BY <1>2, <1>6, EntNone

\* what a stop comes to: the execs are told, and the state is written
StopWork == {SetExecs("STOPPED"), WriteState("STOPPED")}

\* a stop begins, and start() has returned
Begins(p) == "RUNNING" \in updates /\ StopWork \subseteq Ent(p)

LEMMA StopWorkLeft == StopWork \subseteq Ent(StopProgram) /\ StopWork \subseteq Ent(Commit \o StopProgram)
<1> DEFINE head == <<SetExecs("STOPPED")>>
           middle == [l \in Link |-> StopLink(l)]
           last == Update("STOPPED")
<1>1. head \in Seq(Statement) /\ last \in Seq(Statement)
  BY StatementTypes DEF Update, Status
<1>2. middle \in Seq(Statement)
  <2>1. middle \in [1..Len(Links) -> Statement]
    BY StatementTypes DEF Link
  <2>. QED  BY <2>1, RuntimeAssumption
<1>3. Ent(head) = {SetExecs("STOPPED")}
  BY EntSingle
<1>4. WriteState("STOPPED") \in Ent(last)
  <2>1. Len(last) = 2 /\ last[2] = WriteState("STOPPED")
    BY DEF Update
  <2> HIDE DEF last
  <2>. QED  BY <2>1 DEF Ent
<1>5. StopProgram = (head \o middle) \o last
  BY DEF StopProgram
<1> HIDE DEF head, middle, last
<1>6. Ent(head \o middle) = Ent(head) \cup Ent(middle) /\ head \o middle \in Seq(Statement)
  BY <1>1, <1>2, StatementConcat
<1>7. Ent(StopProgram) = Ent(head \o middle) \cup Ent(last)
  BY <1>1, <1>5, <1>6, StatementConcat
<1>8. Ent(Commit \o StopProgram) = Ent(Commit) \cup Ent(StopProgram)
  BY ProgramTypes, StatementConcat
<1>. QED  BY <1>3, <1>4, <1>6, <1>7, <1>8 DEF StopWork

\* a stop out of an exec begins with all of its work left
LEMMA ExecBegins ==
  ASSUME TypeOK, FlowInv, NEW t \in Thread, ExecStep(t), begun'
  PROVE  begun \/ Begins(prog'[t])
<1> DEFINE c == Head(prog[t])
<1>1. PICK outcome \in Outcomes[c.exec] \ {"throw"} :
        /\ prog' = [prog EXCEPT ![t] = AfterExec(c.exec, c.data, c.retry, outcome) \o Tail(@)]
        /\ begun' = (begun \/ (outcome = "stop" /\ "RUNNING" \in updates))
  BY Zenon DEF ExecStep
<1>2. CASE begun
  BY <1>2
<1>3. CASE ~begun
  <2>1. outcome = "stop" /\ "RUNNING" \in updates
    BY <1>1, <1>3, Zenon
  <2>2. AfterExec(c.exec, c.data, c.retry, outcome) = Commit \o StopProgram
    BY <2>1 DEF AfterExec
  <2>3. prog'[t] = (Commit \o StopProgram) \o Tail(prog[t])
    BY <1>1, <2>2 DEF TypeOK
  <2>4. Tail(prog[t]) = <<>>
    BY ExecAlone DEF ExecStep
  <2> HIDE DEF c
  <2> DEFINE stop == Commit \o StopProgram
  <2>6. prog'[t] = stop \o <<>>
    BY <2>3, <2>4
  <2>5. stop \in Seq(Statement)
    BY ProgramTypes
  <2> HIDE DEF stop
  <2>7. stop \o <<>> = stop
    BY <2>5
  <2>. QED  BY <2>1, <2>6, <2>7, StopWorkLeft DEF Begins, stop
<1>. QED  BY <1>2, <1>3

\* after an exec() a thread has tame statements left
LEMMA ExecProgram ==
  ASSUME TypeOK, FlowInv, NEW t \in Thread, ExecStep(t)
  PROVE  \E p : prog' = [prog EXCEPT ![t] = p] /\ Tame(p)
<1> DEFINE c == Head(prog[t])
<1>1. /\ c \in Statement /\ c.op = "exec" /\ Tail(prog[t]) \in Seq(Statement)
      /\ prog[t] \in Seq(Statement) /\ prog[t] # <<>>
  BY RunningHead DEF ExecStep, Running
<1>2. c.exec \in Exec /\ c.data \in Data /\ c.retry \in Nat
  BY <1>1, HeadFields
<1>3. Tail(prog[t]) = <<>>
  BY ExecAlone DEF ExecStep
<1>4. PICK outcome \in Outcomes[c.exec] \ {"throw"} :
        prog' = [prog EXCEPT ![t] = AfterExec(c.exec, c.data, c.retry, outcome) \o Tail(@)]
  BY DEF ExecStep
<1>5. outcome \in {"ok", "fail", "stop"}
  BY <1>2, RuntimeAssumption
<1> HIDE DEF c
<1> DEFINE p == AfterExec(c.exec, c.data, c.retry, outcome)
<1>6. p \in Seq(Statement) /\ Tame(p)
  BY <1>2, <1>5, AfterExecType, AfterExecTame
<1>7. prog' = [prog EXCEPT ![t] = p \o <<>>]
  BY <1>3, <1>4
<1> HIDE DEF p
<1>8. p \o <<>> = p
  BY <1>6
<1>. QED  BY <1>6, <1>7, <1>8

\* a put, or the wake-up of a stop, goes before what the thread has left
LEMMA SendProgram ==
  ASSUME TypeOK, NEW t \in Thread, SendStep(t) \/ StopStep(t)
  PROVE  \E a : /\ a \in Seq(Statement) /\ Tame(a) /\ Tail(prog[t]) \in Seq(Statement)
                /\ prog' = [prog EXCEPT ![t] = a \o Tail(prog[t])]
<1>1. CASE SendStep(t)
  <2> DEFINE s == Head(prog[t])
  <2>1. s \in Statement /\ s.op = "send" /\ Tail(prog[t]) \in Seq(Statement)
    BY <1>1, RunningHead DEF SendStep
  <2>2. s.links \in SUBSET Link /\ s.event \in Event
    BY <2>1, HeadFields
  <2>3. PICK k \in s.links : prog' = [prog EXCEPT ![t] = Rest(s, k) \o Tail(@)]
    BY <1>1 DEF SendStep
  <2> HIDE DEF s
  <2>4. Rest(s, k) \in Seq(Statement) /\ Tame(Rest(s, k))
    <3>1. CASE s.links = {k}
      BY <3>1, NoneTame DEF Rest
    <3>2. CASE s.links # {k}
      <4> DEFINE rest == Send(s.links \ {k}, s.event)
      <4>1. s.links \ {k} \in SUBSET Link
        BY <2>2
      <4>2. rest \in Statement /\ rest.op = "send" /\ Rest(s, k) = <<rest>>
        BY <2>2, <3>2, <4>1, StatementTypes DEF Rest, Send
      <4> HIDE DEF rest
      <4>3. Rest(s, k) \in Seq(Statement) /\ Ent(Rest(s, k)) = {rest}
        BY <4>2, EntSingle
      <4>. QED  BY <4>2, <4>3, PlainTame
    <3>. QED  BY <3>1, <3>2
  <2>. QED  BY <2>1, <2>3, <2>4
<1>2. CASE StopStep(t)
  <2> DEFINE wake == Send({Head(prog[t]).link}, Stop)
  <2>1. Head(prog[t]).link \in Link /\ Tail(prog[t]) \in Seq(Statement)
    BY <1>2, RunningHead, HeadFields DEF StopStep
  <2>2. wake \in Statement /\ wake.op = "send"
    BY <2>1, StatementTypes DEF Send, Event
  <2>3. prog' = [prog EXCEPT ![t] = <<wake>> \o Tail(prog[t])]
    BY <1>2 DEF StopStep
  <2> HIDE DEF wake
  <2>4. <<wake>> \in Seq(Statement) /\ Ent(<<wake>>) = {wake}
    BY <2>2, EntSingle
  <2>5. Tame(<<wake>>)
    BY <2>2, <2>4, PlainTame
  <2>. QED  BY <2>1, <2>3, <2>4, <2>5
<1>. QED  BY <1>1, <1>2

LEMMA NextRead == TypeOK /\ FlowInv /\ ReadInv /\ [Next]_vars => ReadInv'
<1> SUFFICES ASSUME TypeOK, FlowInv, ReadInv, [Next]_vars PROVE ReadInv'
  OBVIOUS
<1> USE DEF state, calls
<1>1. ASSUME UNCHANGED <<prog, store, snap>> PROVE ReadInv'
  BY <1>1 DEF ReadInv, Running
<1>2. ASSUME NEW l \in Link, Take(l) PROVE ReadInv'
  <2>1. prog' = [prog EXCEPT ![l] = OnEvent(Links[l].to, Head(queue[l]))] /\ UNCHANGED <<store, snap>>
    BY <1>2 DEF Take
  <2>2. l \in Thread /\ Reads(OnEvent(Links[l].to, Head(queue[l])))
    BY OnEventTame DEF Thread, Tame
  <2>. QED  BY <2>1, <2>2, ReadKept
<1>3. ASSUME NEW t \in Thread, ExecStep(t) PROVE ReadInv'
  <2>1. UNCHANGED <<store, snap>>
    BY <1>3 DEF ExecStep
  <2>. QED  BY <1>3, <2>1, ExecProgram, ReadKept DEF Tame
<1>4. ASSUME NEW t \in Thread, ExecThrow(t) PROVE ReadInv'
  <2>1. prog' = [prog EXCEPT ![t] = <<>>] /\ UNCHANGED <<store, snap>>
    BY <1>4 DEF ExecThrow
  <2>. QED  BY <2>1, NoneTame, ReadKept DEF Tame
<1>5. ASSUME NEW t \in Thread, SendStep(t) \/ StopStep(t) PROVE ReadInv'
  <2>1. PICK a : /\ a \in Seq(Statement) /\ Tame(a) /\ Tail(prog[t]) \in Seq(Statement)
                 /\ prog' = [prog EXCEPT ![t] = a \o Tail(prog[t])]
    BY <1>5, SendProgram
  <2>2. Reads(Tail(prog[t])) /\ UNCHANGED <<store, snap>>
    BY <1>5, TailReads DEF SendStep, StopStep
  <2>3. Reads(a \o Tail(prog[t]))
    BY <2>1, <2>2, ReadsConcat DEF Tame
  <2>. QED  BY <2>1, <2>2, <2>3, ReadKept
<1>6. ASSUME NEW t \in Thread, SendDone(t) \/ RunStep(t) \/ ExecsStep(t) PROVE ReadInv'
  <2>1. Reads(Tail(prog[t])) /\ UNCHANGED <<store, snap>>
    BY <1>6, TailReads DEF SendDone, RunStep, ExecsStep
  <2>2. prog' = [prog EXCEPT ![t] = Tail(prog[t])]
    BY <1>6 DEF SendDone, RunStep, ExecsStep, Pop
  <2>. QED  BY <2>1, <2>2, ReadKept
<1>7. ASSUME NEW t \in Thread, ReadStep(t) PROVE ReadInv'
  <2>1. prog[t] \in Seq(Statement) /\ prog[t] # <<>> /\ Head(prog[t]).op = "read"
    BY <1>7, RunningHead DEF ReadStep, Running
  <2>2. Reads(prog[t])
    BY <2>1 DEF ReadInv, Running
  <2>3. \/ Reads(Tail(prog[t]))
        \/ /\ Tail(prog[t]) # <<>> /\ Head(Tail(prog[t])).op = "write"
           /\ Reads(Tail(Tail(prog[t])))
    BY <2>1, <2>2, ReadsTail
  <2>4. /\ prog'[t] = Tail(prog[t]) /\ snap'[t] = store /\ store' = store
        /\ \A u \in Thread : u # t => prog'[u] = prog[u] /\ snap'[u] = snap[u]
    BY <1>7 DEF ReadStep, Pop, TypeOK
  <2>5. store' = NoState => \A u \in Thread : snap'[u] = NoState
    BY <2>4 DEF ReadInv
  <2>6. ASSUME NEW u \in Thread
        PROVE  \/ Reads(prog'[u])
               \/ /\ prog'[u] # <<>> /\ Head(prog'[u]).op = "write" /\ Reads(Tail(prog'[u]))
                  /\ snap'[u] # NoState \/ store' = NoState
    BY <2>3, <2>4 DEF ReadInv, Running
  <2>. QED  BY <2>5, <2>6 DEF ReadInv, Running
<1>8. ASSUME NEW t \in Thread, WriteStep(t) PROVE ReadInv'
  <2>1. /\ prog[t] \in Seq(Statement) /\ prog[t] # <<>> /\ Head(prog[t]).op = "write"
        /\ Head(prog[t]).change \in {"commit", "RUNNING", "STOPPED"}
    BY <1>8, RunningHead, HeadFields DEF WriteStep, Running
  <2>2. Reads(Tail(prog[t]))
    BY <2>1, ReadsTail DEF ReadInv
  <2>3. /\ prog'[t] = Tail(prog[t]) /\ snap'[t] = NoState
        /\ \A u \in Thread : u # t => prog'[u] = prog[u] /\ snap'[u] = snap[u]
        /\ store' = IF snap[t] = NoState THEN store ELSE Modified(snap[t], Head(prog[t]).change)
    BY <1>8 DEF WriteStep, Pop, TypeOK
  <2>4. Modified(snap[t], Head(prog[t]).change) # NoState
    <3>1. snap[t] \in Record
      BY DEF TypeOK, Record
    <3>2. CASE Head(prog[t]).change = "commit"
      <4>1. Modified(snap[t], "commit").count = snap[t].count + 1 /\ snap[t].count \in Nat
        BY <3>1 DEF Modified, Record
      <4>2. snap[t].count + 1 # 0 /\ NoState.count = 0
        BY <4>1 DEF NoState
      <4>. QED  BY <3>2, <4>1, <4>2
    <3>3. CASE Head(prog[t]).change # "commit"
      BY <2>1, <3>1, <3>3 DEF Modified, Record, NoState
    <3>. QED  BY <3>2, <3>3
  <2>5. store' = NoState => store = NoState
    BY <2>3, <2>4 DEF ReadInv
  <2>6. store = NoState => store' = NoState
    BY <2>3 DEF ReadInv
  <2>7. store' = NoState => \A u \in Thread : snap'[u] = NoState
    BY <2>3, <2>5 DEF ReadInv
  <2>8. ASSUME NEW u \in Thread
        PROVE  \/ Reads(prog'[u])
               \/ /\ prog'[u] # <<>> /\ Head(prog'[u]).op = "write" /\ Reads(Tail(prog'[u]))
                  /\ snap'[u] # NoState \/ store' = NoState
    BY <2>2, <2>3, <2>6 DEF ReadInv, Running
  <2>. QED  BY <2>7, <2>8 DEF ReadInv, Running
<1>9. ASSUME NEW c \in Callers, StartCall(c) \/ EmitCall(c) \/ StopCall(c) PROVE ReadInv'
  <2>1. \E p : Reads(p) /\ prog' = [prog EXCEPT ![c] = p]
    BY <1>9, StopTame, EmitTame DEF StartCall, EmitCall, StopCall, Tame
  <2>2. c \in Thread /\ UNCHANGED <<store, snap>>
    BY <1>9 DEF StartCall, EmitCall, StopCall, Thread
  <2>. QED  BY <2>1, <2>2, ReadKept
<1>10. ASSUME NEW l \in Link, LoopTest(l) PROVE ReadInv'
  BY <1>1, <1>10 DEF LoopTest
<1>11. ASSUME UNCHANGED vars PROVE ReadInv'
  BY <1>1, <1>11 DEF vars, control
<1>. QED
  BY <1>2, <1>3, <1>4, <1>5, <1>6, <1>7, <1>8, <1>9, <1>10, <1>11 DEF Next, Step

-----------------------------------------------------------------------------
(* Conservation.  Until a worker ends, what went through a link is equal   *)
(* to what its worker has finished, has in hand, finds in the queue, and   *)
(* what threads have still to put there.  Left are the places of programs  *)
(* where such a send stands, counted from the end, where a step changes    *)
(* nothing: each send is a pair of a thread and a place.                   *)

\* how many of s are in D
Hits(s, D) == {i \in 1..Len(s) : s[i] \in D}
Count(s, D) == Cardinality(Hits(s, D))
One(e, D) == IF e \in D THEN 1 ELSE 0

LEMMA HitsFinite ==
  ASSUME NEW T, NEW s \in Seq(T), NEW D
  PROVE  IsFiniteSet(Hits(s, D)) /\ Count(s, D) \in Nat
<1>1. IsFiniteSet(1..Len(s)) /\ Hits(s, D) \subseteq 1..Len(s)
  BY FS_Interval DEF Hits
<1>2. IsFiniteSet(Hits(s, D))
  BY <1>1, FS_Subset
<1>. QED  BY <1>2, FS_CardinalityType DEF Count

LEMMA CountAppend ==
  ASSUME NEW T, NEW s \in Seq(T), NEW e \in T, NEW D
  PROVE  Count(Append(s, e), D) = Count(s, D) + One(e, D)
<1> DEFINE w == Append(s, e)
           n == Len(s) + 1
<1>1. Len(s) \in Nat /\ Len(w) = n /\ w[n] = e /\ \A i \in 1..Len(s) : w[i] = s[i]
  BY AppendFacts
<1> HIDE DEF w
<1>2. Hits(w, D) = IF e \in D THEN Hits(s, D) \cup {n} ELSE Hits(s, D)
  BY <1>1 DEF Hits
<1>3. n \notin Hits(s, D)
  BY <1>1 DEF Hits
<1>4. Cardinality(Hits(s, D) \cup {n}) = Cardinality(Hits(s, D)) + 1
  <2>1. IsFiniteSet(Hits(s, D))
    BY HitsFinite
  <2>. QED  BY <1>3, <2>1, FS_AddElement
<1>5. Cardinality(Hits(s, D)) \in Nat
  BY HitsFinite DEF Count
<1>. QED  BY <1>2, <1>4, <1>5 DEF Count, One, w

LEMMA CountTail ==
  ASSUME NEW T, NEW s \in Seq(T), s # <<>>, NEW D
  PROVE  Count(s, D) = Count(Tail(s), D) + One(Head(s), D)
<1> DEFINE w == Tail(s)
           H == Hits(s, D)
           R == Hits(w, D)
           f == [i \in R |-> i + 1]
<1>1. /\ w \in Seq(T) /\ Len(s) \in Nat /\ Len(s) >= 1 /\ Len(w) = Len(s) - 1
      /\ Head(s) = s[1]
      /\ \A i \in 1..Len(w) : i + 1 \in 1..Len(s) /\ w[i] = s[i + 1]
      /\ \A i \in 1..Len(s) : i > 1 => i - 1 \in 1..Len(w) /\ w[i - 1] = s[i]
  BY TailIndex
<1>2. IsFiniteSet(R) /\ IsFiniteSet(H) /\ Cardinality(R) \in Nat
  BY <1>1, HitsFinite DEF Count
<1> HIDE DEF w
<1>3. R \subseteq Nat /\ H \subseteq Nat
  BY DEF Hits
<1>4. f \in Bijection(R, H \ {1})
  <2>1. f \in [R -> H \ {1}]
    BY <1>1 DEF Hits
  <2>2. \A i, j \in R : f[i] = f[j] => i = j
    BY <1>3
  <2>3. \A k \in H \ {1} : \E i \in R : f[i] = k
    <3> SUFFICES ASSUME NEW k \in H \ {1} PROVE \E i \in R : f[i] = k
      OBVIOUS
    <3>1. k \in 1..Len(s) /\ k > 1 /\ s[k] \in D
      BY DEF Hits
    <3>2. k - 1 \in R /\ (k - 1) + 1 = k
      BY <1>1, <3>1 DEF Hits
    <3>. QED  BY <3>2
  <2> HIDE DEF f
  <2>. QED  BY <2>1, <2>2, <2>3, Fun_IsBij
<1>5. Cardinality(R) = Cardinality(H \ {1})
  <2> HIDE DEF f, R, H
  <2>. QED  BY <1>2, <1>4, FS_Bijection, Fun_ExistsBij
<1>6. (1 \in H) <=> (Head(s) \in D)
  BY <1>1 DEF Hits
<1>7. Cardinality(H \ {1}) = IF 1 \in H THEN Cardinality(H) - 1 ELSE Cardinality(H)
  BY <1>2, FS_RemoveElement
<1>8. Cardinality(H) \in Nat
  BY <1>2, FS_CardinalityType
<1>. QED  BY <1>5, <1>6, <1>7, <1>8 DEF Count, One, w

-----------------------------------------------------------------------------
\* where the statements of S are in p, counted from its end: what is done or
\* put in front does not move them
Places(p, S) == {k \in 1..Len(p) : p[Len(p) + 1 - k] \in S}

LEMMA PlacesNone ==
  ASSUME NEW T, NEW p \in Seq(T), NEW S, Ent(p) \cap S = {}
  PROVE  Places(p, S) = {}
<1>1. ASSUME NEW k \in 1..Len(p) PROVE p[Len(p) + 1 - k] \notin S
  <2>1. Len(p) + 1 - k \in 1..Len(p)
    OBVIOUS
  <2>. QED  BY <2>1 DEF Ent
<1>. QED  BY <1>1 DEF Places

LEMMA PlacesTail ==
  ASSUME NEW T, NEW p \in Seq(T), p # <<>>, NEW S
  PROVE  /\ Len(p) \in Nat
         /\ Places(p, S) = Places(Tail(p), S) \cup (IF Head(p) \in S THEN {Len(p)} ELSE {})
         /\ Len(p) \notin Places(Tail(p), S)
<1> DEFINE w == Tail(p)
           n == Len(p)
<1>1. /\ n \in Nat /\ n >= 1 /\ Len(w) = n - 1
      /\ Head(p) = p[1]
      /\ \A i \in 1..Len(w) : i + 1 \in 1..n /\ w[i] = p[i + 1]
  BY TailIndex
<1> HIDE DEF w, n
<1>2. ASSUME NEW k \in 1..Len(w) PROVE w[Len(w) + 1 - k] = p[n + 1 - k]
  <2>1. Len(w) + 1 - k \in 1..Len(w) /\ (Len(w) + 1 - k) + 1 = n + 1 - k
    BY <1>1
  <2>. QED  BY <1>1, <2>1
<1>3. n + 1 - n = 1 /\ 1..n = 1..Len(w) \cup {n} /\ n \notin 1..Len(w)
  BY <1>1
<1>4. {k \in 1..n : p[n + 1 - k] \in S}
        = {k \in 1..Len(w) : w[Len(w) + 1 - k] \in S} \cup (IF Head(p) \in S THEN {n} ELSE {})
  BY <1>1, <1>2, <1>3
<1>. QED  BY <1>1, <1>3, <1>4 DEF Places, w, n

LEMMA PlacesAhead ==
  ASSUME NEW T, NEW r \in Seq(T), NEW e \in T, NEW S
  PROVE  Places(<<e>> \o r, S) = Places(r, S) \cup (IF e \in S THEN {Len(r) + 1} ELSE {})
<1> DEFINE p == <<e>> \o r
<1>1. p \in Seq(T) /\ p # <<>> /\ Head(p) = e /\ Tail(p) = r /\ Len(p) = Len(r) + 1
  OBVIOUS
<1> HIDE DEF p
<1>2. Places(p, S) = Places(Tail(p), S) \cup (IF Head(p) \in S THEN {Len(p)} ELSE {})
  BY <1>1, PlacesTail
<1>. QED  BY <1>1, <1>2 DEF p

\* the same statement n times, and two others behind
LEMMA PlacesUnits ==
  ASSUME NEW e, NEW a \in Seq(Statement), NEW q \in Seq(Statement), NEW S,
         \A i \in 1..Len(a) : a[i] = e, Len(q) = 2, Ent(q) \cap S = {}
  PROVE  Places(a \o q, S) = IF e \in S THEN 3..(Len(a) + 2) ELSE {}
<1> DEFINE p == a \o q
           n == Len(a)
<1>0. n \in Nat
  OBVIOUS
<1>2. /\ Len(p) = n + 2
      /\ \A i \in 1..n : p[i] = e
      /\ \A i \in 1..2 : p[i + n] = q[i]
  BY ConcatIndex
<1> HIDE DEF p, n
<1>3. \A i \in 1..2 : q[i] \notin S
  BY DEF Ent
<1>4. ASSUME NEW k \in 1..(n + 2)
      PROVE  p[n + 2 + 1 - k] \in S <=> (e \in S /\ k >= 3)
  <2>1. CASE k >= 3
    <3>1. n + 2 + 1 - k \in 1..n
      BY <1>0, <2>1
    <3>. QED  BY <1>2, <2>1, <3>1
  <2>2. CASE k < 3
    <3>1. 3 - k \in 1..2 /\ (3 - k) + n = n + 2 + 1 - k
      BY <1>0, <2>2
    <3>2. p[n + 2 + 1 - k] = q[3 - k]
      BY <1>2, <3>1
    <3>. QED  BY <1>3, <2>2, <3>1, <3>2
  <2>. QED  BY <1>0, <2>1, <2>2
<1>5. Places(p, S) = {k \in 1..(n + 2) : e \in S /\ k >= 3}
  BY <1>2, <1>4 DEF Places
<1>6. {k \in 1..(n + 2) : e \in S /\ k >= 3} = IF e \in S THEN 3..(n + 2) ELSE {}
  BY <1>0
<1>. QED  BY <1>5, <1>6 DEF p, n

\* the sends of d into l that are still to be made, each by its thread and place
Hands(l, d) == {s \in Statement : s.op = "send" /\ s.event = d /\ l \in s.links}
Left(pr, S) == {w \in Thread \X Nat : w[2] \in Places(pr[w[1]], S)}
Sends(l, d) == Left(prog, Hands(l, d))

Waits(l, d) == Count(queue[l], {d})
Works(l, d) == IF d \in Calls(l) THEN 1 ELSE 0

Even(l, d) ==
  /\ IsFiniteSet(Sends(l, d))
  /\ FinishedBy(l, d) + Works(l, d) + Waits(l, d) + Cardinality(Sends(l, d)) = Through(l, d)

LEMMA LeftSame ==
  ASSUME NEW pr, NEW qr, NEW S, NEW t \in Thread,
         \A u \in Thread : u # t => qr[u] = pr[u],
         Places(qr[t], S) = Places(pr[t], S)
  PROVE  Left(qr, S) = Left(pr, S)
<1>1. Left(qr, S) = {w \in Thread \X Nat :
        IF w[1] = t THEN w[2] \in Places(qr[t], S) ELSE w \in Left(pr, S)}
  BY DEF Left
<1>. QED  BY <1>1 DEF Left

LEMMA LeftLess ==
  ASSUME NEW pr, NEW qr, NEW S, NEW t \in Thread, NEW k \in Nat,
         \A u \in Thread : u # t => qr[u] = pr[u],
         IsFiniteSet(Left(pr, S)),
         k \notin Places(qr[t], S),
         Places(pr[t], S) = Places(qr[t], S) \cup {k}
  PROVE  /\ IsFiniteSet(Left(qr, S))
         /\ Cardinality(Left(pr, S)) = Cardinality(Left(qr, S)) + 1
<1> DEFINE A == Left(pr, S)
           B == Left(qr, S)
<1>1. B = {w \in Thread \X Nat :
        IF w[1] = t THEN w[2] \in Places(qr[t], S) ELSE w \in A}
  BY DEF Left
<1>2. B = A \ {<<t, k>>}
  <2>1. ASSUME NEW w \in Thread \X Nat PROVE w \in B <=> w \in A /\ w # <<t, k>>
    <3>1. w = <<w[1], w[2]>> /\ (w = <<t, k>> <=> w[1] = t /\ w[2] = k)
      OBVIOUS
    <3>2. CASE w[1] = t
      <4>1. w \in B <=> w[2] \in Places(qr[t], S)
        BY <1>1, <3>2
      <4>2. w \in A <=> w[2] \in Places(pr[t], S)
        BY <3>2 DEF Left
      <4> HIDE DEF A, B
      <4>. QED  BY <3>1, <3>2, <4>1, <4>2
    <3>3. CASE w[1] # t
      <4> HIDE DEF A, B
      <4>. QED  BY <1>1, <3>1, <3>3
    <3>. QED  BY <3>2, <3>3
  <2>2. A \subseteq Thread \X Nat
    BY DEF Left
  <2> HIDE DEF A
  <2>3. B \subseteq Thread \X Nat
    BY <1>1
  <2> HIDE DEF B
  <2>. QED  BY <2>1, <2>2, <2>3
<1>3. <<t, k>> \in A
  BY DEF Left
<1> HIDE DEF A, B
<1>4. IsFiniteSet(A)
  BY DEF A
<1>5. IsFiniteSet(B) /\ Cardinality(B) = Cardinality(A) - 1
  BY <1>2, <1>3, <1>4, FS_RemoveElement
<1>6. Cardinality(A) \in Nat
  BY <1>4, FS_CardinalityType
<1>. QED  BY <1>5, <1>6 DEF A, B

LEMMA LeftMore ==
  ASSUME NEW pr, NEW qr, NEW S, NEW t \in Thread, NEW Q \in SUBSET Nat,
         \A u \in Thread : u # t => qr[u] = pr[u],
         IsFiniteSet(Left(pr, S)), Places(pr[t], S) = {},
         IsFiniteSet(Q), Places(qr[t], S) = Q
  PROVE  /\ IsFiniteSet(Left(qr, S))
         /\ Cardinality(Left(qr, S)) = Cardinality(Left(pr, S)) + Cardinality(Q)
<1> DEFINE A == Left(pr, S)
           B == Left(qr, S)
           N == {t} \X Q
<1>1. B = {w \in Thread \X Nat : IF w[1] = t THEN w[2] \in Q ELSE w \in A}
  BY DEF Left
<1>2. A \subseteq Thread \X Nat /\ \A w \in A : w[1] # t
  BY DEF Left
<1> HIDE DEF A
<1>3. B \subseteq Thread \X Nat
  BY <1>1
<1> HIDE DEF B
<1>4. B = A \cup N
  <2>1. ASSUME NEW w \in Thread \X Nat PROVE w \in B <=> w \in A \/ w \in N
    <3>1. w \in N <=> w[1] = t /\ w[2] \in Q
      OBVIOUS
    <3> HIDE DEF N
    <3>. QED  BY <1>1, <1>2, <3>1
  <2>2. N \subseteq Thread \X Nat
    OBVIOUS
  <2> HIDE DEF N
  <2>. QED  BY <1>2, <1>3, <2>1, <2>2
<1>5. A \cap N = {}
  BY <1>2
<1>6. IsFiniteSet({t}) /\ Cardinality({t}) = 1
  BY FS_Singleton
<1>7. IsFiniteSet(N) /\ Cardinality(N) = 1 * Cardinality(Q)
  BY <1>6, FS_Product
<1>8. Cardinality(Q) \in Nat /\ 1 * Cardinality(Q) = Cardinality(Q)
  BY FS_CardinalityType
<1> HIDE DEF N
<1>9. IsFiniteSet(A)
  BY DEF A
<1>10. /\ IsFiniteSet(A \cup N)
       /\ Cardinality(A \cup N) = Cardinality(A) + Cardinality(N) - Cardinality(A \cap N)
  BY <1>7, <1>9, FS_Union
<1>11. Cardinality(A \cap N) = 0 /\ Cardinality(A) \in Nat
  BY <1>5, <1>9, FS_EmptySet, FS_CardinalityType
<1>12. Cardinality(A \cup N) = Cardinality(A) + Cardinality(Q)
  <2>1. Cardinality(N) = Cardinality(Q)
    BY <1>7, <1>8
  <2>. QED  BY <1>8, <1>10, <1>11, <2>1
<1>. QED  BY <1>4, <1>10, <1>12 DEF A, B

\* a step of t after which it has the same sends of d into l before it
LEMMA QuietEven ==
  ASSUME TypeOK, UNCHANGED <<log, queue>>, NEW t \in Thread, NEW p, prog' = [prog EXCEPT ![t] = p],
         NEW l \in Link, NEW d \in Data, Even(l, d),
         Places(p, Hands(l, d)) = Places(prog[t], Hands(l, d)),
         t = l => Calls(l)' = Calls(l)
  PROVE  Even(l, d)'
<1>1. Sends(l, d)' = Sends(l, d)
  <2> DEFINE D == Hands(l, d)
  <2>1. Places(prog'[t], D) = Places(prog[t], D) /\ \A u \in Thread : u # t => prog'[u] = prog[u]
    BY DEF TypeOK
  <2> HIDE DEF D
  <2>2. \A u \in Thread : Places(prog'[u], D) = Places(prog[u], D)
    BY <2>1
  <2>3. Left(prog', D) = Left(prog, D)
    BY <2>2 DEF Left
  <2>. QED  BY <2>3 DEF Sends, D
<1>2. Calls(l)' = Calls(l)
  <2>1. t # l => prog'[l] = prog[l]
    BY DEF TypeOK, Thread
  <2>. QED  BY <2>1 DEF Calls, Todo
<1>3. Waits(l, d)' = Waits(l, d) /\ Works(l, d)' = Works(l, d)
  BY <1>2 DEF Waits, Works
<1>4. FinishedBy(l, d)' = FinishedBy(l, d) /\ Through(l, d)' = Through(l, d)
  BY DEF FinishedBy, Through, Finished
<1>. QED  BY <1>1, <1>3, <1>4 DEF Even

LEMMA NoCalls ==
  ASSUME TypeOK, LoneCall, NEW l \in Link, NEW k, Running(l, k), k # "exec"
  PROVE  Calls(l) = {} /\ \A s \in Ent(Tail(prog[l])) : s.op # "exec"
<1>1. l \in Thread
  BY DEF Thread
<1>2. Head(prog[l]).op = k /\ prog[l] \in Seq(Statement) /\ prog[l] # <<>>
  BY <1>1, RunningHead DEF Running
<1>3. Todo(l) = {Head(prog[l])} \cup Ent(Tail(prog[l]))
  BY <1>2, EntHead DEF Todo
<1>4. \A s \in Ent(Tail(prog[l])) : s.op # "exec"
  BY <1>1, NotTheCall
<1>. QED  BY <1>2, <1>3, <1>4 DEF Calls

LEMMA PopEven ==
  ASSUME TypeOK, LoneCall, UNCHANGED <<log, queue>>, NEW t \in Thread, NEW k, Running(t, k), k # "exec",
         k = "send" => Head(prog[t]).links = {}, Pop(t),
         NEW l \in Link, NEW d \in Data, Even(l, d)
  PROVE  Even(l, d)'
<1> DEFINE p == Tail(prog[t])
<1>1. /\ prog[t] \in Seq(Statement) /\ prog[t] # <<>> /\ Head(prog[t]).op = k
      /\ prog' = [prog EXCEPT ![t] = p]
  BY RunningHead DEF Running, Pop
<1>2. Head(prog[t]) \notin Hands(l, d)
  BY <1>1 DEF Hands
<1> DEFINE D == Hands(l, d)
<1> HIDE DEF D
<1>3. Places(prog[t], D) = Places(p, D)
  <2>1. Places(prog[t], D) = Places(Tail(prog[t]), D) \cup (IF Head(prog[t]) \in D THEN {Len(prog[t])} ELSE {})
    BY <1>1, PlacesTail
  <2>. QED  BY <1>2, <2>1 DEF D
<1>4. t = l => Calls(l)' = Calls(l)
  <2> SUFFICES ASSUME t = l PROVE Calls(l)' = Calls(l)
    OBVIOUS
  <2>1. Calls(l) = {} /\ \A s \in Ent(p) : s.op # "exec"
    BY NoCalls
  <2>2. prog'[l] = p
    BY <1>1 DEF TypeOK
  <2>. QED  BY <2>1, <2>2 DEF Calls, Todo
<1> HIDE DEF p
<1>. QED  BY <1>1, <1>3, <1>4, QuietEven DEF D

LEMMA StopEven ==
  ASSUME TypeOK, LoneCall, NEW t \in Thread, StopStep(t),
         NEW l \in Link, NEW d \in Data, Even(l, d)
  PROVE  Even(l, d)'
<1> DEFINE wake == Send({Head(prog[t]).link}, Stop)
           r == Tail(prog[t])
           p == <<wake>> \o r
<1>1. /\ prog[t] \in Seq(Statement) /\ prog[t] # <<>> /\ Head(prog[t]).op = "stop"
      /\ r \in Seq(Statement) /\ Head(prog[t]).link \in Link
  BY RunningHead, HeadFields DEF StopStep, Running
<1>2. wake \in Statement /\ wake.op = "send" /\ wake.event = Stop
  BY <1>1, StatementTypes DEF Send, Event
<1>3. prog' = [prog EXCEPT ![t] = p] /\ UNCHANGED <<log, queue>>
  BY DEF StopStep
<1>4. Head(prog[t]) \notin Hands(l, d) /\ wake \notin Hands(l, d)
  BY <1>1, <1>2 DEF Hands, Data, Stop
<1> DEFINE D == Hands(l, d)
<1> HIDE DEF wake, D, r
<1>5. Places(p, D) = Places(r, D)
  <2>1. Places(<<wake>> \o r, D) = Places(r, D) \cup (IF wake \in D THEN {Len(r) + 1} ELSE {})
    BY <1>1, <1>2, PlacesAhead
  <2>. QED  BY <1>4, <2>1 DEF D
<1>6. Places(prog[t], D) = Places(r, D)
  <2>1. Places(prog[t], D) = Places(Tail(prog[t]), D) \cup (IF Head(prog[t]) \in D THEN {Len(prog[t])} ELSE {})
    BY <1>1, PlacesTail
  <2>. QED  BY <1>4, <2>1 DEF D, r
<1>7. t = l => Calls(l)' = Calls(l)
  <2> SUFFICES ASSUME t = l PROVE Calls(l)' = Calls(l)
    OBVIOUS
  <2>1. Calls(l) = {} /\ \A s \in Ent(r) : s.op # "exec"
    BY NoCalls DEF StopStep, r
  <2>2. Ent(p) = {wake} \cup Ent(r)
    <3>1. <<wake>> \in Seq(Statement)
      BY <1>2
    <3>. QED  BY <1>1, <3>1, StatementConcat, EntSingle
  <2>3. prog'[l] = p
    BY <1>3 DEF TypeOK
  <2> HIDE DEF p, r
  <2>. QED  BY <1>2, <2>1, <2>2, <2>3 DEF Calls, Todo
<1> HIDE DEF p
<1>. QED  BY <1>3, <1>5, <1>6, <1>7, QuietEven DEF D

\* the entries of a log that the worker of l made of d, and those with a result
Made(l, d) == {r \in Result : r.data = d /\ r.by = l}
With(d, R) == {r \in Result : r.data = d /\ r.result \in R}

LEMMA Counts ==
  ASSUME TypeOK, NEW l \in Link, NEW d \in Data
  PROVE  /\ FinishedBy(l, d) = Count(log[Links[l].to], Made(l, d)) /\ FinishedBy(l, d) \in Nat
         /\ \A x \in Exec, R \in SUBSET {"ok", "fail", "stop"} :
              Finished(x, d, R) = Count(log[x], With(d, R)) /\ Finished(x, d, R) \in Nat
         /\ Works(l, d) \in Nat /\ Waits(l, d) \in Nat
<1>1. \A x \in Exec : log[x] \in Seq(Result) /\ DOMAIN log[x] = 1..Len(log[x])
  <2>1. log \in [Exec -> Seq(Result)]
    BY DEF TypeOK, Result
  <2>2. \A s \in Seq(Result) : DOMAIN s = 1..Len(s)
    OBVIOUS
  <2>. QED  BY <2>1, <2>2
<1>2. \A x \in Exec : \A i \in 1..Len(log[x]) : log[x][i] \in Result
  BY <1>1
<1>3. Links[l].to \in Exec
  BY LinkFacts
<1>4. FinishedBy(l, d) = Count(log[Links[l].to], Made(l, d))
  <2> DEFINE x == Links[l].to
  <2> HIDE DEF x
  <2>1. {i \in DOMAIN log[x] : log[x][i].data = d /\ log[x][i].by = l} = Hits(log[x], Made(l, d))
    BY <1>1, <1>2, <1>3 DEF Hits, Made, x
  <2>. QED  BY <2>1 DEF FinishedBy, Count, x
<1>5. ASSUME NEW x \in Exec, NEW R \in SUBSET {"ok", "fail", "stop"}
      PROVE  Finished(x, d, R) = Count(log[x], With(d, R))
  <2>1. {i \in DOMAIN log[x] : log[x][i].data = d /\ log[x][i].result \in R} = Hits(log[x], With(d, R))
    BY <1>1, <1>2 DEF Hits, With
  <2>. QED  BY <2>1 DEF Finished, Count
<1>6. \A x \in Exec : \A D : Count(log[x], D) \in Nat
  BY <1>1, HitsFinite
<1>7. Waits(l, d) \in Nat
  <2>1. queue[l] \in Seq(Event)
    BY DEF TypeOK
  <2>. QED  BY <2>1, HitsFinite DEF Waits
<1>. QED  BY <1>3, <1>4, <1>5, <1>6, <1>7 DEF Works

LEMMA TakeEven ==
  ASSUME TypeOK, NEW k \in Link, Take(k), prog[k] = <<>>,
         NEW l \in Link, NEW d \in Data, Even(l, d)
  PROVE  Even(l, d)'
<1> DEFINE e == Head(queue[k])
           p == OnEvent(Links[k].to, e)
<1>1. /\ queue[k] \in Seq(Event) /\ queue[k] # <<>> /\ e \in Event
      /\ queue' = [queue EXCEPT ![k] = Tail(@)]
      /\ prog' = [prog EXCEPT ![k] = p]
      /\ log' = log
  BY DEF Take, TypeOK
<1>2. k \in Thread /\ Links[k].to \in Exec
  BY LinkFacts DEF Thread
<1> HIDE DEF e
<1>3. p \in Seq(Statement) /\ Ent(p) = IF e = Stop THEN {} ELSE {Call(Links[k].to, e, 0)}
  <2>1. p \in Seq(Statement)
    BY <1>1, <1>2, OnEventType
  <2>. QED  BY <2>1, EntNone, EntSingle DEF OnEvent
<1>4. Places(p, Hands(l, d)) = {}
  <2>1. Ent(p) \cap Hands(l, d) = {}
    BY <1>3 DEF Call, Hands
  <2> HIDE DEF p
  <2>. QED  BY <1>3, <2>1, PlacesNone
<1>5. Places(prog[k], Hands(l, d)) = {}
  BY DEF Places
<1> HIDE DEF p
<1>6. Sends(l, d)' = Sends(l, d)
  <2> DEFINE D == Hands(l, d)
  <2>1. Places(prog'[k], D) = Places(prog[k], D) /\ \A u \in Thread : u # k => prog'[u] = prog[u]
    BY <1>1, <1>2, <1>4, <1>5 DEF TypeOK
  <2> HIDE DEF D
  <2>2. Left(prog', D) = Left(prog, D)
    BY <1>2, <2>1, LeftSame
  <2>. QED  BY <2>2 DEF Sends, D
<1>7. FinishedBy(l, d)' = FinishedBy(l, d) /\ Through(l, d)' = Through(l, d)
  BY <1>1 DEF FinishedBy, Through, Finished
<1>8. Works(l, d)' + Waits(l, d)' = Works(l, d) + Waits(l, d)
  <2>1. CASE l # k
    <3>1. queue'[l] = queue[l] /\ prog'[l] = prog[l]
      BY <1>1, <2>1 DEF TypeOK, Thread
    <3>. QED  BY <3>1 DEF Works, Waits, Calls, Todo
  <2>2. CASE l = k
    <3>1. queue'[l] = Tail(queue[l]) /\ prog'[l] = p
      BY <1>1, <1>2, <2>2 DEF TypeOK
    <3>2. Calls(l) = {}
      BY <2>2, EntNone DEF Calls, Todo
    <3>3. Calls(l)' = IF e = Stop THEN {} ELSE {e}
      <4> DEFINE c == Call(Links[k].to, e, 0)
      <4>1. c.op = "exec" /\ c.data = e
        BY DEF Call
      <4> HIDE DEF c
      <4>2. Todo(l)' = IF e = Stop THEN {} ELSE {c}
        BY <1>3, <3>1 DEF Todo, c
      <4>. QED  BY <4>1, <4>2 DEF Calls
    <3>4. Count(queue[l], {d}) = Count(Tail(queue[l]), {d}) + One(e, {d})
      BY <1>1, <2>2, CountTail DEF e
    <3>5. Count(queue[l], {d}) \in Nat /\ Count(Tail(queue[l]), {d}) \in Nat
      <4>1. queue[l] \in Seq(Event) /\ Tail(queue[l]) \in Seq(Event)
        BY <1>1, <2>2
      <4>. QED  BY <4>1, HitsFinite
    <3>6. Waits(l, d)' = Count(Tail(queue[l]), {d})
      BY <3>1 DEF Waits
    <3>7. d # Stop
      BY DEF Data, Stop
    <3>. QED  BY <3>2, <3>3, <3>4, <3>5, <3>6, <3>7 DEF Works, Waits, One
  <2>. QED  BY <2>1, <2>2
<1>9. Works(l, d)' \in Nat /\ Waits(l, d)' \in Nat
  <2>1. queue'[l] \in Seq(Event)
    BY <1>1 DEF TypeOK
  <2>2. Count(queue'[l], {d}) \in Nat
    BY <2>1, HitsFinite
  <2>. QED  BY <2>2 DEF Works, Waits
<1>10. /\ FinishedBy(l, d) \in Nat /\ Works(l, d) \in Nat /\ Waits(l, d) \in Nat
       /\ Cardinality(Sends(l, d)) \in Nat
  BY Counts, FS_CardinalityType DEF Even
<1>11. /\ IsFiniteSet(Sends(l, d))
       /\ FinishedBy(l, d) + Works(l, d) + Waits(l, d) + Cardinality(Sends(l, d)) = Through(l, d)
  BY DEF Even
<1>12. /\ IsFiniteSet(Sends(l, d)') /\ Cardinality(Sends(l, d)') = Cardinality(Sends(l, d))
  BY <1>6, <1>11
<1>13. FinishedBy(l, d)' + Works(l, d)' + Waits(l, d)' + Cardinality(Sends(l, d)') = Through(l, d)'
  <2> DEFINE f == FinishedBy(l, d)
             c == Cardinality(Sends(l, d))
             v == Works(l, d)
             w == Waits(l, d)
             x == Works(l, d)'
             y == Waits(l, d)'
             n == Through(l, d)
  <2>1. f \in Nat /\ c \in Nat /\ v \in Nat /\ w \in Nat /\ x \in Nat /\ y \in Nat
    BY <1>9, <1>10
  <2>2. f + v + w + c = n /\ x + y = v + w
    BY <1>8, <1>11
  <2> HIDE DEF f, c, v, w, x, y, n
  <2>3. f + x + y + c = n
    BY <2>1, <2>2
  <2>. QED  BY <1>7, <1>12, <2>3 DEF f, c, x, y, n
<1>. QED  BY <1>12, <1>13 DEF Even

LEMMA SendEven ==
  ASSUME TypeOK, LoneCall, NEW t \in Thread, SendStep(t),
         NEW l \in Link, NEW d \in Data, Even(l, d)
  PROVE  Even(l, d)'
<1> DEFINE s == Head(prog[t])
           r == Tail(prog[t])
           n == Len(prog[t])
           D == Hands(l, d)
<1>1. /\ prog[t] \in Seq(Statement) /\ prog[t] # <<>>
      /\ s \in Statement /\ s.op = "send" /\ r \in Seq(Statement)
  BY RunningHead DEF SendStep, Running
<1>2. s.links \in SUBSET Link /\ s.event \in Event
  BY <1>1, HeadFields
<1>3. PICK k \in s.links :
        /\ queue' = [queue EXCEPT ![k] = Append(@, s.event)]
        /\ prog' = [prog EXCEPT ![t] = Rest(s, k) \o Tail(@)]
        /\ log' = log
  BY DEF SendStep, Put
<1>4. /\ Places(prog[t], D) = Places(r, D) \cup (IF s \in D THEN {n} ELSE {})
      /\ n \in Nat /\ n \notin Places(r, D) /\ Len(r) + 1 = n
  <2> HIDE DEF D
  <2>1. Len(Tail(prog[t])) + 1 = Len(prog[t])
    BY <1>1, TailIndex
  <2>. QED  BY <1>1, <2>1, PlacesTail
<1>5. s \in D <=> s.event = d /\ l \in s.links
  BY <1>1 DEF Hands
<1> DEFINE rest == Send(s.links \ {k}, s.event)
           p == Rest(s, k) \o r
<1>6. /\ rest \in Statement /\ rest.op = "send"
      /\ rest \in D <=> s.event = d /\ l \in s.links \ {k}
  <2>1. s.links \ {k} \in SUBSET Link
    BY <1>2
  <2>2. rest \in Statement /\ rest.op = "send" /\ rest.links = s.links \ {k} /\ rest.event = s.event
    BY <1>2, <2>1, StatementTypes DEF Send
  <2> HIDE DEF rest
  <2>. QED  BY <2>2 DEF Hands
<1>7. /\ prog'[t] = p /\ \A u \in Thread : u # t => prog'[u] = prog[u]
      /\ queue'[k] = Append(queue[k], s.event)
      /\ \A j \in Link : j # k => queue'[j] = queue[j]
  BY <1>2, <1>3 DEF TypeOK
<1>8. Places(p, D) = IF s.links = {k} THEN Places(r, D)
                     ELSE Places(r, D) \cup (IF rest \in D THEN {n} ELSE {})
  <2> HIDE DEF D, s
  <2>1. CASE s.links = {k}
    <3>1. p = r
      BY <1>1, <2>1 DEF Rest
    <3>. QED  BY <2>1, <3>1
  <2>2. CASE s.links # {k}
    <3>1. p = <<rest>> \o r
      BY <2>2 DEF Rest
    <3> HIDE DEF rest, r, n
    <3>2. Places(<<rest>> \o r, D) = Places(r, D) \cup (IF rest \in D THEN {Len(r) + 1} ELSE {})
      BY <1>1, <1>6, PlacesAhead
    <3>. QED  BY <1>4, <2>2, <3>1, <3>2
  <2>. QED  BY <2>1, <2>2
<1>9. Calls(l)' = Calls(l)
  <2>1. CASE t # l
    <3>1. prog'[l] = prog[l]
      BY <1>7, <2>1 DEF Thread
    <3>. QED  BY <3>1 DEF Calls, Todo
  <2>2. CASE t = l
    <3>1. Calls(l) = {} /\ \A a \in Ent(r) : a.op # "exec"
      BY <2>2, NoCalls DEF SendStep
    <3>2. Ent(p) \subseteq {rest} \cup Ent(r)
      <4> HIDE DEF rest, s
      <4>1. Rest(s, k) \in Seq(Statement) /\ Ent(Rest(s, k)) \subseteq {rest}
        <5>1. CASE s.links = {k}
          BY <5>1, EntNone DEF Rest
        <5>2. CASE s.links # {k}
          BY <1>6, <5>2, EntSingle DEF Rest, rest
        <5>. QED  BY <5>1, <5>2
      <4>2. Ent(p) = Ent(Rest(s, k)) \cup Ent(r)
        BY <1>1, <4>1, StatementConcat
      <4>. QED  BY <4>1, <4>2
    <3> HIDE DEF p, r, rest
    <3>. QED  BY <1>6, <1>7, <2>2, <3>1, <3>2 DEF Calls, Todo
  <2>. QED  BY <2>1, <2>2
<1>10. Works(l, d)' = Works(l, d)
  BY <1>9 DEF Works
<1>11. FinishedBy(l, d)' = FinishedBy(l, d) /\ Through(l, d)' = Through(l, d)
  BY <1>3 DEF FinishedBy, Through, Finished
<1>12. Count(Append(queue[l], s.event), {d}) = Count(queue[l], {d}) + One(s.event, {d})
  <2>1. queue[l] \in Seq(Event)
    BY DEF TypeOK
  <2>. QED  BY <1>2, <2>1, CountAppend
<1>13. /\ FinishedBy(l, d) \in Nat /\ Works(l, d) \in Nat /\ Waits(l, d) \in Nat
       /\ Cardinality(Sends(l, d)) \in Nat /\ IsFiniteSet(Sends(l, d))
  BY Counts, FS_CardinalityType DEF Even
<1> HIDE DEF s, r, n, D, rest, p
<1>14. CASE l = k /\ s.event = d
  <2>1. /\ Places(prog[t], D) = Places(prog'[t], D) \cup {n}
        /\ n \notin Places(prog'[t], D)
    BY <1>3, <1>4, <1>5, <1>6, <1>7, <1>8, <1>14
  <2>2. IsFiniteSet(Left(prog, D))
    BY <1>13 DEF Sends, D
  <2>3. /\ IsFiniteSet(Left(prog', D))
        /\ Cardinality(Left(prog, D)) = Cardinality(Left(prog', D)) + 1
    <3>1. n \in Nat /\ \A u \in Thread : u # t => prog'[u] = prog[u]
      BY <1>4, <1>7
    <3>. QED  BY <2>1, <2>2, <3>1, LeftLess
  <2>4. /\ IsFiniteSet(Sends(l, d)')
        /\ Cardinality(Sends(l, d)) = Cardinality(Sends(l, d)') + 1
    BY <2>3 DEF Sends, D
  <2>5. Waits(l, d)' = Waits(l, d) + 1
    BY <1>7, <1>12, <1>14 DEF Waits, One
  <2>6. Cardinality(Sends(l, d)') \in Nat
    BY <2>4, FS_CardinalityType
  <2>. QED  BY <1>10, <1>11, <1>13, <2>4, <2>5, <2>6 DEF Even
<1>15. CASE ~(l = k /\ s.event = d)
  <2>1. Places(prog'[t], D) = Places(prog[t], D)
    BY <1>3, <1>4, <1>5, <1>6, <1>7, <1>8, <1>15
  <2>2. Left(prog', D) = Left(prog, D)
    BY <1>7, <2>1, LeftSame
  <2>3. Sends(l, d)' = Sends(l, d)
    BY <2>2 DEF Sends, D
  <2>4. Waits(l, d)' = Waits(l, d)
    <3>1. CASE l # k
      BY <1>7, <3>1 DEF Waits
    <3>2. CASE l = k
      <4>1. Waits(l, d)' = Waits(l, d) + One(s.event, {d})
        BY <1>7, <1>12, <3>2 DEF Waits
      <4>2. One(s.event, {d}) = 0
        BY <1>15, <3>2 DEF One
      <4>. QED  BY <1>13, <4>1, <4>2
    <3>. QED  BY <3>1, <3>2
  <2>. QED  BY <1>10, <1>11, <2>3, <2>4 DEF Even
<1>. QED  BY <1>14, <1>15

\* the programs of the engine neither execute nor send, and only start() runs links
LEMMA ProgramOps ==
  /\ \A s \in Ent(Commit) \cup Ent(StopProgram) : s.op \in {"execs", "stop", "read", "write"}
  /\ \A s \in Ent(StartProgram) : s.op \in {"execs", "run", "read", "write"}
<1> DEFINE A == {s \in Statement : s.op \in {"execs", "stop", "read", "write"}}
           B == {s \in Statement : s.op \in {"execs", "run", "read", "write"}}
<1>1. /\ \A k \in Link : RunLink(k) \in B /\ StopLink(k) \in A
      /\ \A s \in Status : SetExecs(s) \in A /\ SetExecs(s) \in B
      /\ ReadState \in A /\ ReadState \in B
      /\ \A s \in {"commit", "RUNNING", "STOPPED"} : WriteState(s) \in A /\ WriteState(s) \in B
  BY StatementTypes DEF RunLink, StopLink, SetExecs, ReadState, WriteState
<1> HIDE DEF A, B
<1>2. /\ [k \in Link |-> RunLink(k)] \in [1..Len(Links) -> B]
      /\ [k \in Link |-> StopLink(k)] \in [1..Len(Links) -> A]
  BY <1>1 DEF Link
<1>3. /\ [k \in Link |-> RunLink(k)] \in Seq(B)
      /\ [k \in Link |-> StopLink(k)] \in Seq(A)
  BY <1>2, RuntimeAssumption
<1>4. Commit \in Seq(A) /\ StopProgram \in Seq(A) /\ StartProgram \in Seq(B)
  BY <1>1, <1>3 DEF Commit, StartProgram, StopProgram, Update, Status
<1>5. /\ Ent(Commit) \subseteq A /\ Ent(StopProgram) \subseteq A /\ Ent(StartProgram) \subseteq B
  BY <1>4, EntType
<1>. QED  BY <1>5 DEF A, B

LEMMA ThroughCases ==
  ASSUME TypeOK, NEW l \in Link, NEW d \in Data
  PROVE  Through(l, d) =
           IF l \in BroadcastLinks(Links[l].from)
             THEN Units[Links[l].from] * Count(log[Links[l].from], With(d, {"ok"}))
           ELSE IF l \in ErrorLinks(Links[l].from)
             THEN Count(log[Links[l].from], With(d, {"fail"}))
           ELSE 0
<1> DEFINE x == Links[l].from
<1>1. x \in Exec
  BY LinkFacts
<1>2. /\ Finished(x, d, {"ok"}) = Count(log[x], With(d, {"ok"}))
      /\ Finished(x, d, {"fail"}) = Count(log[x], With(d, {"fail"}))
  BY <1>1, Counts
<1>3. BroadcastLinks(x) \cap ErrorLinks(x) = {}
  BY DEF BroadcastLinks, ErrorLinks
<1>4. Through(l, d) = CASE l \in BroadcastLinks(x) -> Units[x] * Finished(x, d, {"ok"})
                        [] l \in ErrorLinks(x) -> Finished(x, d, {"fail"})
                        [] OTHER -> 0
  BY DEF Through
<1> HIDE DEF x
<1>5. CASE l \in BroadcastLinks(x)
  <2>1. l \notin ErrorLinks(x)
    BY <1>3, <1>5
  <2>. QED  BY <1>2, <1>4, <1>5, <2>1 DEF x
<1>6. CASE l \notin BroadcastLinks(x)
  BY <1>2, <1>4, <1>6 DEF x
<1>. QED  BY <1>5, <1>6

\* what one more entry in the log of an exec puts through, and hands to send
LEMMA MoreThrough ==
  ASSUME NEW x \in Exec, NEW l \in Link, Links[l].from = x, NEW d \in Data,
         NEW outcome \in {"ok", "fail", "stop"}, NEW n \in Nat,
         ~(outcome = "fail" /\ n < RetryMax[x]),
         NEW Q, Q = Places(AfterExec(x, d, n, outcome), Hands(l, d))
  PROVE  /\ Q \in SUBSET Nat /\ IsFiniteSet(Q)
         /\ Cardinality(Q) =
              IF l \in BroadcastLinks(x) THEN (IF outcome = "ok" THEN Units[x] ELSE 0)
              ELSE IF l \in ErrorLinks(x) THEN (IF outcome = "fail" THEN 1 ELSE 0)
              ELSE 0
<1> DEFINE D == Hands(l, d)
           p == AfterExec(x, d, n, outcome)
<1>1. /\ d \in Event /\ Units[x] \in Nat
      /\ BroadcastLinks(x) \in SUBSET Link /\ ErrorLinks(x) \in SUBSET Link
      /\ BroadcastLinks(x) \cap ErrorLinks(x) = {}
  BY RuntimeAssumption DEF Event, BroadcastLinks, ErrorLinks, Outlets
<1>2. \A ls \in SUBSET Link : Send(ls, d) \in Statement /\ (Send(ls, d) \in D <=> l \in ls)
  <2> SUFFICES ASSUME NEW ls \in SUBSET Link
               PROVE  Send(ls, d) \in Statement /\ (Send(ls, d) \in D <=> l \in ls)
    OBVIOUS
  <2>1. /\ Send(ls, d) \in Statement /\ Send(ls, d).op = "send"
        /\ Send(ls, d).event = d /\ Send(ls, d).links = ls
    BY <1>1, StatementTypes DEF Send
  <2>. QED  BY <2>1 DEF Hands
<1>3. p \in Seq(Statement)
  BY AfterExecType
<1>4. Q = {} => Q \in SUBSET Nat /\ IsFiniteSet(Q) /\ Cardinality(Q) = 0
  BY FS_EmptySet
<1>5. CASE outcome = "ok"
  <2> DEFINE e == Send(BroadcastLinks(x), d)
  <2>1. p = [i \in 1..Units[x] |-> e] \o Commit
    BY <1>5 DEF AfterExec
  <2>2. Commit \in Seq(Statement) /\ Len(Commit) = 2 /\ Ent(Commit) \cap D = {}
    <3>1. Len(Commit) = 2 /\ Commit[1] = ReadState /\ Commit[2] = WriteState("commit")
      BY DEF Commit
    <3>2. ReadState.op # "send" /\ WriteState("commit").op # "send"
      BY DEF ReadState, WriteState
    <3>3. Ent(Commit) \subseteq {ReadState, WriteState("commit")}
      BY <3>1 DEF Ent
    <3>. QED  BY <3>1, <3>2, <3>3, ProgramTypes DEF Hands
  <2>3. e \in Statement /\ (e \in D <=> l \in BroadcastLinks(x))
    BY <1>1, <1>2
  <2> DEFINE a == [i \in 1..Units[x] |-> e]
  <2>7. a \in Seq(Statement) /\ Len(a) = Units[x] /\ \A i \in 1..Len(a) : a[i] = e
    BY <1>1, <2>3
  <2> HIDE DEF e, D, a
  <2>4. Places(a \o Commit, D) = IF e \in D THEN 3..(Len(a) + 2) ELSE {}
    <3>1. \A i \in 1..Len(a) : a[i] = e
      BY <2>7
    <3> DEFINE q == Commit
    <3>2. q \in Seq(Statement) /\ Len(q) = 2 /\ Ent(q) \cap D = {}
      BY <2>2
    <3> HIDE DEF q
    <3>3. Places(a \o q, D) = IF e \in D THEN 3..(Len(a) + 2) ELSE {}
      BY <2>7, <3>1, <3>2, PlacesUnits
    <3>. QED  BY <3>3 DEF q
  <2>5. Q = IF l \in BroadcastLinks(x) THEN 3..(Units[x] + 2) ELSE {}
    BY <2>1, <2>3, <2>4, <2>7 DEF D, a
  <2>6. /\ 3..(Units[x] + 2) \in SUBSET Nat /\ IsFiniteSet(3..(Units[x] + 2))
        /\ Cardinality(3..(Units[x] + 2)) = Units[x]
    <3> DEFINE b == Units[x] + 2
    <3>1. b \in Int /\ 3 \in Int
      BY <1>1
    <3> HIDE DEF b
    <3>2. IsFiniteSet(3..b) /\ Cardinality(3..b) = IF 3 > b THEN 0 ELSE b - 3 + 1
      BY <3>1, FS_Interval
    <3>3. (IF 3 > b THEN 0 ELSE b - 3 + 1) = Units[x]
      BY <1>1 DEF b
    <3>. QED  BY <3>2, <3>3 DEF b
  <2>. QED  BY <1>1, <1>4, <1>5, <2>5, <2>6
<1>6. CASE outcome = "stop"
  <2>1. \A s \in Ent(p) : s.op # "send"
    <3>1. p = Commit \o StopProgram
      BY <1>6 DEF AfterExec
    <3>2. Ent(p) = Ent(Commit) \cup Ent(StopProgram)
      BY <3>1, ProgramTypes, StatementConcat
    <3>. QED  BY <3>2, ProgramOps
  <2>2. Ent(p) \cap D = {}
    BY <2>1 DEF Hands
  <2> HIDE DEF D, p
  <2>3. Places(p, D) = {}
    BY <1>3, <2>2, PlacesNone
  <2>. QED  BY <1>4, <1>6, <2>3 DEF D, p
<1>7. CASE outcome = "fail"
  <2> DEFINE e == Send(ErrorLinks(x), d)
  <2>1. p = <<e>>
    BY <1>7 DEF AfterExec
  <2>2. e \in D <=> l \in ErrorLinks(x)
    BY <1>1, <1>2
  <2> HIDE DEF e, D
  <2>3. Places(<<e>>, D) = IF e \in D THEN {1} ELSE {}
    <3>1. Len(<<e>>) = 1 /\ <<e>>[1] = e
      OBVIOUS
    <3>2. 1..1 = {1} /\ 1 + 1 - 1 = 1
      OBVIOUS
    <3>. QED  BY <3>1, <3>2 DEF Places
  <2>4. Q = IF l \in ErrorLinks(x) THEN {1} ELSE {}
    BY <2>1, <2>2, <2>3 DEF D
  <2>5. {1} \in SUBSET Nat /\ IsFiniteSet({1}) /\ Cardinality({1}) = 1
    BY FS_Singleton
  <2>. QED  BY <1>1, <1>4, <1>7, <2>4, <2>5
<1>. QED  BY <1>5, <1>6, <1>7

\* a send of what exec() made of d goes only to the links out of that exec
LEMMA NoOtherThrough ==
  ASSUME NEW x \in Exec, NEW c \in Data, NEW outcome \in {"ok", "fail", "stop"}, NEW n \in Nat,
         ~(outcome = "fail" /\ n < RetryMax[x]),
         NEW l \in Link, NEW d \in Data, ~(Links[l].from = x /\ d = c)
  PROVE  Places(AfterExec(x, c, n, outcome), Hands(l, d)) = {}
<1> DEFINE p == AfterExec(x, c, n, outcome)
           D == Hands(l, d)
<1>1. p \in Seq(Output(x, c))
  BY AfterExecOutput
<1>2. Ent(p) \cap D = {}
  <2>1. Ent(p) \subseteq Output(x, c)
    BY <1>1, EntType
  <2>. QED  BY <2>1 DEF Output, Hands
<1> HIDE DEF p, D
<1>3. Places(p, D) = {}
  BY <1>1, <1>2, PlacesNone
<1>. QED  BY <1>3 DEF p, D

LEMMA TimesOneMore == \A u, n \in Nat : u * (n + 1) = u * n + u
OBVIOUS

\* what has been counted, in terms of the entries of the logs
Tallies ==
  \A l \in Link, d \in Data :
    /\ FinishedBy(l, d) = Count(log[Links[l].to], Made(l, d)) /\ FinishedBy(l, d) \in Nat
    /\ Through(l, d) =
         IF l \in BroadcastLinks(Links[l].from)
           THEN Units[Links[l].from] * Count(log[Links[l].from], With(d, {"ok"}))
         ELSE IF l \in ErrorLinks(Links[l].from)
           THEN Count(log[Links[l].from], With(d, {"fail"}))
         ELSE 0

LEMMA NowTallies == TypeOK => Tallies
BY Counts, ThroughCases DEF Tallies

LEMMA ThenTallies == TypeOK' => Tallies'
BY NowTallies, PTL

LEMMA ExecEven ==
  ASSUME TypeOK, LoneCall, NEW t \in Thread, ExecStep(t),
         NEW l \in Link, NEW d \in Data, Even(l, d)
  PROVE  Even(l, d)'
<1> DEFINE c == Head(prog[t])
           x == c.exec
           a == c.data
           n == c.retry
           r(outcome) == [data |-> a, result |-> outcome, by |-> t]
<1>1. /\ c \in Statement /\ c.op = "exec" /\ Tail(prog[t]) \in Seq(Statement)
      /\ prog[t] \in Seq(Statement) /\ prog[t] # <<>>
  BY RunningHead DEF ExecStep, Running
<1>2. x \in Exec /\ a \in Data /\ n \in Nat
  BY <1>1, HeadFields
<1>3. Todo(t) = {c} /\ t \in Executors(x) /\ Tail(prog[t]) = <<>>
  <2>1. /\ Todo(t) = {c} \cup Ent(Tail(prog[t]))
        /\ Len(prog[t]) \in Nat /\ Len(Tail(prog[t])) = Len(prog[t]) - 1
    BY <1>1, EntHead DEF Todo
  <2>2. Len(prog[t]) = 1 /\ t \in Executors(x)
    BY <1>1, <2>1 DEF LoneCall
  <2>3. Len(Tail(prog[t])) = 0
    BY <2>1, <2>2
  <2>4. \A s \in Seq(Statement) : Len(s) = 0 => s = <<>>
    OBVIOUS
  <2>5. Tail(prog[t]) = <<>>
    BY <1>1, <2>3, <2>4, Zenon
  <2>. QED  BY <2>1, <2>2, <2>5, EntNone
<1>4. PICK outcome \in Outcomes[x] \ {"throw"} :
        /\ prog' = [prog EXCEPT ![t] = AfterExec(x, a, n, outcome) \o Tail(@)]
        /\ log' = IF outcome = "fail" /\ n < RetryMax[x] THEN log
                  ELSE [log EXCEPT ![x] = Append(@, r(outcome))]
        /\ queue' = queue
  BY DEF ExecStep
<1>5. outcome \in {"ok", "fail", "stop"}
  BY <1>2, RuntimeAssumption
<1> DEFINE p == AfterExec(x, a, n, outcome)
           D == Hands(l, d)
<1>6. r(outcome) \in Result
  BY <1>2, <1>5 DEF Result
<1>7. r(outcome).data = a /\ r(outcome).result = outcome /\ r(outcome).by = t
  OBVIOUS
<1>8. Places(prog[t], D) = {}
  <2>1. c \notin D
    BY <1>1 DEF Hands
  <2>2. Ent(prog[t]) \cap D = {}
    BY <1>3, <2>1 DEF Todo
  <2> HIDE DEF D
  <2>. QED  BY <1>1, <2>2, PlacesNone
<1> HIDE DEF x, a, n, c, r
<1>9. prog'[t] = p /\ p \in Seq(Statement) /\ \A u \in Thread : u # t => prog'[u] = prog[u]
  <2>1. p \in Seq(Statement)
    BY <1>2, <1>5, AfterExecType
  <2> HIDE DEF p
  <2>2. p \o <<>> = p
    BY <2>1
  <2>. QED  BY <1>3, <1>4, <2>1, <2>2 DEF TypeOK, p
<1>10. Todo(t)' = Ent(p)
  BY <1>9 DEF Todo
<1>11. /\ FinishedBy(l, d) \in Nat /\ Works(l, d) \in Nat /\ Waits(l, d) \in Nat
       /\ Cardinality(Sends(l, d)) \in Nat /\ IsFiniteSet(Sends(l, d))
  BY Counts, FS_CardinalityType DEF Even
<1>12. CASE outcome = "fail" /\ n < RetryMax[x]
  <2> DEFINE again == Call(x, a, n + 1)
  <2>1. p = <<again>> /\ log' = log
    BY <1>4, <1>12 DEF AfterExec
  <2>2. again.op = "exec" /\ again.data = a
    BY DEF Call
  <2> HIDE DEF again
  <2>3. Ent(p) = {again}
    BY <2>1, EntSingle
  <2>4. Places(p, D) = {}
    <3>1. Ent(p) \cap D = {}
      BY <2>2, <2>3 DEF Hands
    <3> HIDE DEF D, p
    <3>. QED  BY <1>9, <3>1, PlacesNone
  <2>5. t = l => Calls(l)' = Calls(l)
    BY <1>1, <1>3, <1>10, <2>2, <2>3 DEF Calls, a
  <2>6. prog' = [prog EXCEPT ![t] = p] /\ UNCHANGED <<log, queue>>
    <3> HIDE DEF p
    <3>. QED  BY <1>4, <1>9, <2>1 DEF TypeOK, p
  <2> HIDE DEF p
  <2>. QED  BY <1>8, <2>4, <2>5, <2>6, QuietEven DEF D
<1>13. CASE ~(outcome = "fail" /\ n < RetryMax[x])
  <2>1. /\ log[x] \in Seq(Result) /\ log'[x] = Append(log[x], r(outcome))
        /\ \A z \in Exec : z # x => log'[z] = log[z]
    BY <1>2, <1>4, <1>13 DEF TypeOK, Result
  <2>2. \A S : Count(log'[x], S) = Count(log[x], S) + One(r(outcome), S)
    BY <1>6, <2>1, CountAppend
  <2>3. \A S : Count(log[x], S) \in Nat
    BY <2>1, HitsFinite
  <2>4. Tallies /\ Tallies'
    <3>1. TypeOK'
      BY NextTypeOK DEF Next, Step
    <3>. QED  BY <3>1, NowTallies, ThenTallies
  <2>5. FinishedBy(l, d)' + Works(l, d)' = FinishedBy(l, d) + Works(l, d)
    <3> DEFINE y == Links[l].to
    <3>1. /\ FinishedBy(l, d) = Count(log[y], Made(l, d))
          /\ FinishedBy(l, d)' = Count(log'[y], Made(l, d))
          /\ y \in Exec
      <4>1. y \in Exec
        BY LinkFacts
      <4>. QED  BY <2>4, <4>1 DEF Tallies
    <3>2. Works(l, d)' \in Nat
      BY DEF Works
    <3>3. CASE t = l
      <4>1. x = y
        BY <1>3, <3>3, RuntimeAssumption DEF Executors
      <4>2. Calls(l) = {a}
        BY <1>1, <1>3, <3>3 DEF Calls, a
      <4>3. Calls(l)' = {}
        <5>1. Ent(p) \subseteq Output(x, a)
          BY <1>2, <1>5, <1>13, AfterExecOutput, EntType
        <5> HIDE DEF p
        <5>. QED  BY <1>10, <3>3, <5>1 DEF Calls, Output
      <4>4. r(outcome) \in Made(l, d) <=> a = d
        BY <1>6, <1>7, <3>3 DEF Made
      <4> HIDE DEF y
      <4>5. Works(l, d) = One(r(outcome), Made(l, d)) /\ Works(l, d)' = 0
        BY <4>2, <4>3, <4>4 DEF Works, One
      <4>6. FinishedBy(l, d)' = FinishedBy(l, d) + One(r(outcome), Made(l, d))
        BY <2>2, <3>1, <4>1
      <4>. QED  BY <1>11, <4>5, <4>6
    <3>4. CASE t # l
      <4>1. Works(l, d)' = Works(l, d)
        <5>1. prog'[l] = prog[l]
          BY <1>9, <3>4 DEF Thread
        <5>. QED  BY <5>1 DEF Works, Calls, Todo
      <4>2. One(r(outcome), Made(l, d)) = 0
        BY <1>7, <3>4 DEF Made, One
      <4> HIDE DEF y
      <4>3. CASE y = x
        <5>1. Count(log'[y], Made(l, d)) = Count(log[y], Made(l, d))
          BY <2>2, <2>3, <4>2, <4>3
        <5>. QED  BY <3>1, <4>1, <5>1
      <4>4. CASE y # x
        BY <2>1, <3>1, <4>1, <4>4
      <4>. QED  BY <4>3, <4>4
    <3>. QED  BY <3>3, <3>4
  <2>6. Waits(l, d)' = Waits(l, d)
    BY <1>4 DEF Waits
  <2> DEFINE y == Links[l].from
             ok == Count(log[y], With(d, {"ok"}))
             bad == Count(log[y], With(d, {"fail"}))
  <2>7. /\ Through(l, d) = IF l \in BroadcastLinks(y) THEN Units[y] * ok
                           ELSE IF l \in ErrorLinks(y) THEN bad ELSE 0
        /\ Through(l, d)' = IF l \in BroadcastLinks(y) THEN Units[y] * Count(log'[y], With(d, {"ok"}))
                            ELSE IF l \in ErrorLinks(y) THEN Count(log'[y], With(d, {"fail"})) ELSE 0
    BY <2>4 DEF Tallies
  <2>8. y \in Exec /\ Units[y] \in Nat
    BY LinkFacts, RuntimeAssumption
  <2>9. ok \in Nat /\ bad \in Nat
    <3>1. log[y] \in Seq(Result)
      BY <2>8 DEF TypeOK, Result
    <3>. QED  BY <3>1, HitsFinite
  <2>10. Units[y] * ok \in Nat /\ Units[y] * (ok + 1) = Units[y] * ok + Units[y]
    BY <2>8, <2>9, TimesOneMore
  <2>11. FinishedBy(l, d)' \in Nat /\ Works(l, d)' \in Nat
    BY <2>4 DEF Tallies, Works
  <2>12. Places(prog'[t], D) = Places(p, D)
    BY <1>9
  <2> HIDE DEF y, ok, bad
  <2>13. CASE y = x /\ a = d
    <3> DEFINE Q == Places(p, D)
    <3>1. Links[l].from = x
      BY <2>13 DEF y
    <3>2. /\ Q \in SUBSET Nat /\ IsFiniteSet(Q)
          /\ Cardinality(Q) =
               IF l \in BroadcastLinks(x) THEN (IF outcome = "ok" THEN Units[x] ELSE 0)
               ELSE IF l \in ErrorLinks(x) THEN (IF outcome = "fail" THEN 1 ELSE 0)
               ELSE 0
      BY <1>2, <1>5, <1>13, <2>13, <3>1, MoreThrough
    <3> HIDE DEF Q, p
    <3>3. Places(prog'[t], D) = Q
      BY <2>12 DEF Q
    <3> HIDE DEF D
    <3>4. IsFiniteSet(Left(prog, D))
      BY <1>11 DEF Sends, D
    <3>5. \A u \in Thread : u # t => prog'[u] = prog[u]
      BY <1>9
    <3>6. /\ IsFiniteSet(Left(prog', D))
          /\ Cardinality(Left(prog', D)) = Cardinality(Left(prog, D)) + Cardinality(Q)
      BY <1>8, <3>2, <3>3, <3>4, <3>5, LeftMore
    <3>7. /\ IsFiniteSet(Sends(l, d)')
          /\ Cardinality(Sends(l, d)') = Cardinality(Sends(l, d)) + Cardinality(Q)
      BY <3>6 DEF Sends, D
    <3>8. /\ Count(log'[y], With(d, {"ok"})) = IF outcome = "ok" THEN ok + 1 ELSE ok
          /\ Count(log'[y], With(d, {"fail"})) = IF outcome = "fail" THEN bad + 1 ELSE bad
      <4>1. /\ r(outcome) \in With(d, {"ok"}) <=> outcome = "ok"
            /\ r(outcome) \in With(d, {"fail"}) <=> outcome = "fail"
        BY <1>6, <1>7, <2>13 DEF With
      <4>. QED  BY <2>2, <2>9, <2>13, <4>1 DEF One, ok, bad
    <3>9. Through(l, d)' = Through(l, d) + Cardinality(Q)
      <4>1. CASE l \in BroadcastLinks(y)
        BY <2>7, <2>10, <2>13, <3>2, <3>8, <4>1
      <4>2. CASE l \notin BroadcastLinks(y)
        BY <2>7, <2>9, <2>13, <3>2, <3>8, <4>2
      <4>. QED  BY <4>1, <4>2
    <3>10. Cardinality(Q) \in Nat
      BY <3>2, FS_CardinalityType
    <3>. QED  BY <1>11, <2>5, <2>6, <2>11, <3>7, <3>9, <3>10 DEF Even
  <2>14. CASE ~(y = x /\ a = d)
    <3>1. Places(p, D) = {}
      BY <1>2, <1>5, <1>13, <2>14, NoOtherThrough DEF y
    <3> HIDE DEF p
    <3>2. Places(prog'[t], D) = Places(prog[t], D)
      BY <1>8, <2>12, <3>1
    <3> HIDE DEF D
    <3>3. \A u \in Thread : u # t => prog'[u] = prog[u]
      BY <1>9
    <3>4. Left(prog', D) = Left(prog, D)
      BY <3>2, <3>3, LeftSame
    <3>5. Sends(l, d)' = Sends(l, d)
      BY <3>4 DEF Sends, D
    <3>6. /\ Count(log'[y], With(d, {"ok"})) = ok
          /\ Count(log'[y], With(d, {"fail"})) = bad
      <4>1. CASE y = x
        <5>1. One(r(outcome), With(d, {"ok"})) = 0 /\ One(r(outcome), With(d, {"fail"})) = 0
          BY <1>7, <2>14, <4>1 DEF With, One
        <5>. QED  BY <2>2, <2>9, <4>1, <5>1 DEF ok, bad
      <4>2. CASE y # x
        BY <2>1, <2>8, <4>2 DEF ok, bad
      <4>. QED  BY <4>1, <4>2
    <3>7. Through(l, d)' = Through(l, d)
      BY <2>7, <3>6
    <3>. QED  BY <1>11, <2>5, <2>6, <2>11, <3>5, <3>7 DEF Even
  <2>. QED  BY <2>13, <2>14
<1>. QED  BY <1>12, <1>13

\* a caller that had nothing to do begins a program that sends no data into l
LEMMA BeginEven ==
  ASSUME TypeOK, UNCHANGED <<log, queue>>, NEW c \in Callers, Idle(c),
         NEW p \in Seq(Statement), prog' = [prog EXCEPT ![c] = p],
         NEW l \in Link, NEW d \in Data, Even(l, d), Ent(p) \cap Hands(l, d) = {}
  PROVE  Even(l, d)'
<1> DEFINE D == Hands(l, d)
<1>1. c \in Thread /\ c # l
  BY RuntimeAssumption DEF Thread
<1>2. Places(prog[c], D) = {}
  BY DEF Places, Idle
<1> HIDE DEF D
<1>3. Places(p, D) = {}
  BY PlacesNone DEF D
<1>. QED  BY <1>1, <1>2, <1>3, QuietEven DEF D

LEMMA CallEven ==
  ASSUME TypeOK, NEW c \in Callers, StartCall(c) \/ EmitCall(c) \/ StopCall(c),
         NEW l \in Link, NEW d \in Data, ~Fed(l), Even(l, d)
  PROVE  Even(l, d)'
<1>1. Idle(c) /\ UNCHANGED <<log, queue>>
  BY DEF StartCall, EmitCall, StopCall
<1>2. CASE StartCall(c) \/ StopCall(c)
  <2>1. PICK p \in {StartProgram, StopProgram} : prog' = [prog EXCEPT ![c] = p]
    BY <1>2 DEF StartCall, StopCall
  <2>2. p \in Seq(Statement) /\ Ent(p) \cap Hands(l, d) = {}
    BY ProgramTypes, ProgramOps DEF Hands
  <2>. QED  BY <1>1, <2>1, <2>2, BeginEven
<1>3. CASE EmitCall(c)
  <2> DEFINE e == emitted'
  <2>1. PICK inlet \in Entry : prog' = [prog EXCEPT ![c] = EmitProgram(inlet[1], inlet[2], e)]
    BY <1>3 DEF EmitCall
  <2>2. e \in Data
    BY <1>3, RuntimeAssumption DEF EmitCall, TypeOK, Data
  <2> HIDE DEF e
  <2> DEFINE p == EmitProgram(inlet[1], inlet[2], e)
             ls == InLink(inlet[1], inlet[2])
             s == IF ls # {} THEN Send(ls, e) ELSE Call(inlet[1], e, 0)
  <2>3. p \in Seq(Statement)
    BY <2>2, EmitType, RuntimeAssumption
  <2>4. p = <<s>>
    BY <2>2 DEF EmitProgram, OnEvent, Data, Stop
  <2>5. l \notin ls
    BY DEF Fed
  <2>6. s \notin Hands(l, d)
    BY <2>5 DEF Hands, Send, Call
  <2> HIDE DEF s, p
  <2>7. Ent(p) \cap Hands(l, d) = {}
    BY <2>4, <2>6, EntSingle
  <2>. QED  BY <1>1, <2>1, <2>3, <2>7, BeginEven DEF p
<1>. QED  BY <1>2, <1>3

LEMMA InitEven ==
  ASSUME Init, NEW l \in Link, NEW d \in Data
  PROVE  Even(l, d)
<1>1. TypeOK
  BY InitTypeOK
<1>2. \A x \in Exec : log[x] = <<>>
  BY DEF Init
<1>3. \A D : Count(<<>>, D) = 0
  BY FS_EmptySet DEF Count, Hits
<1>4. FinishedBy(l, d) = 0
  BY <1>1, <1>2, <1>3, Counts, LinkFacts
<1>5. Through(l, d) = 0
  <2>1. Units[Links[l].from] \in Nat /\ log[Links[l].from] = <<>>
    BY <1>2, LinkFacts, RuntimeAssumption
  <2>2. Units[Links[l].from] * 0 = 0
    BY <2>1
  <2>. QED  BY <1>1, <1>3, <2>1, <2>2, ThroughCases
<1>6. Waits(l, d) = 0
  <2>1. queue[l] = <<>>
    BY DEF Init
  <2>. QED  BY <1>3, <2>1 DEF Waits
<1>7. Works(l, d) = 0
  <2>1. prog[l] = <<>>
    BY DEF Init, Thread
  <2>. QED  BY <2>1, EntNone DEF Works, Calls, Todo
<1>8. Sends(l, d) = {}
  BY DEF Sends, Left, Places, Init
<1>9. IsFiniteSet(Sends(l, d)) /\ Cardinality(Sends(l, d)) = 0
  BY <1>8, FS_EmptySet
<1>. QED  BY <1>4, <1>5, <1>6, <1>7, <1>9 DEF Even
-----------------------------------------------------------------------------
\* a worker that has something to do is busy with it
WorkInv == \A l \in Link : prog[l] # <<>> => worker[l] = "busy"

HasRun(p) == \E i \in 1..Len(p) : p[i].op = "run"

\* what is left of start(): it starts each thread once, and ends with RUNNING
Runs(p) ==
  \A i \in 1..Len(p) : p[i].op = "run" =>
    /\ i < Len(p) /\ p[Len(p)] = WriteState("RUNNING")
    /\ \A j \in 1..Len(p) : p[j].op = "run" /\ p[j].link = p[i].link => i = j

RunInv ==
  /\ \A t \in Thread : Runs(prog[t])
  /\ \A t \in Thread : \A i \in 1..Len(prog[t]) :
       prog[t][i].op = "run" => t \in Callers /\ worker[prog[t][i].link] = "new"
  /\ \A t, u \in Thread : HasRun(prog[t]) /\ HasRun(prog[u]) => t = u

\* putting statements that are no runs in the place of the first one
Splice(a, p) == a \o Tail(p)

RunsFrom(q, p) ==
  \A i \in 1..Len(q) : q[i].op = "run" =>
    /\ \E j \in 1..Len(p) : j > 1 /\ p[j] = q[i]
    /\ Head(p).op = "run" => Head(p).link # q[i].link

LEMMA SpliceIndex ==
  ASSUME NEW p \in Seq(Statement), NEW a \in Seq(Statement), p # <<>>
  PROVE  /\ Len(p) \in Nat /\ Len(p) >= 1 /\ Len(a) \in Nat
         /\ Len(Splice(a, p)) = Len(a) + Len(p) - 1
         /\ Head(p) = p[1]
         /\ \A i \in 1..Len(a) : Splice(a, p)[i] = a[i]
         /\ \A i \in 1..Len(Splice(a, p)) : i > Len(a) => Splice(a, p)[i] = p[i - Len(a) + 1]
BY DEF Splice

LEMMA RunsTail ==
  ASSUME NEW p \in Seq(Statement), NEW a \in Seq(Statement), p # <<>>, Runs(p), ~HasRun(a)
  PROVE  /\ Runs(Splice(a, p))
         /\ HasRun(Splice(a, p)) => HasRun(p)
         /\ RunsFrom(Splice(a, p), p)
<1> DEFINE q == Splice(a, p)
           n == Len(a)
           m == Len(p)
<1>1. /\ m \in Nat /\ m >= 1 /\ n \in Nat /\ Len(q) = n + m - 1 /\ Head(p) = p[1]
      /\ \A i \in 1..n : q[i] = a[i]
      /\ \A i \in 1..(n + m - 1) : i > n => q[i] = p[i - n + 1]
  BY SpliceIndex
<1>2. \A i \in 1..n : a[i].op # "run"
  BY DEF HasRun
<1>3. \A i \in 1..m : p[i].op = "run" =>
        /\ i < m /\ p[m] = WriteState("RUNNING")
        /\ \A j \in 1..m : p[j].op = "run" /\ p[j].link = p[i].link => i = j
  BY DEF Runs
<1> HIDE DEF q, n, m
<1>4. ASSUME NEW i \in 1..(n + m - 1), q[i].op = "run"
      PROVE  i - n + 1 \in 1..m /\ i - n + 1 > 1 /\ q[i] = p[i - n + 1]
  <2>1. i > n
    <3>1. i \in 1..n => q[i] = a[i] /\ a[i].op # "run"
      BY <1>1, <1>2
    <3>2. i \notin 1..n
      BY <1>4, <3>1
    <3>. QED  BY <1>1, <3>2
  <2>. QED  BY <1>1, <2>1
<1>5. HasRun(q) => HasRun(p)
  BY <1>1, <1>4 DEF HasRun, m
<1>6. Runs(q)
  <2>1. ASSUME NEW i \in 1..(n + m - 1), q[i].op = "run"
        PROVE  /\ i < n + m - 1 /\ q[n + m - 1] = WriteState("RUNNING")
               /\ \A j \in 1..(n + m - 1) : q[j].op = "run" /\ q[j].link = q[i].link => i = j
    <3> DEFINE k == i - n + 1
    <3>1. k \in 1..m /\ k > 1 /\ q[i] = p[k] /\ i = k + n - 1
      BY <1>1, <1>4, <2>1
    <3> HIDE DEF k
    <3>2. /\ k < m /\ p[m] = WriteState("RUNNING")
          /\ \A j \in 1..m : p[j].op = "run" /\ p[j].link = p[k].link => k = j
      BY <1>3, <2>1, <3>1
    <3>3. i < n + m - 1 /\ n + m - 1 \in 1..(n + m - 1) /\ n + m - 1 > n /\ (n + m - 1) - n + 1 = m
      BY <1>1, <3>1, <3>2
    <3>4. q[n + m - 1] = p[m]
      BY <1>1, <3>3
    <3>5. ASSUME NEW j \in 1..(n + m - 1), q[j].op = "run", q[j].link = q[i].link PROVE i = j
      <4>1. j - n + 1 \in 1..m /\ q[j] = p[j - n + 1]
        BY <1>4, <3>5
      <4>2. k = j - n + 1
        BY <3>1, <3>2, <3>5, <4>1
      <4>. QED  BY <1>1, <3>1, <4>2
    <3>. QED  BY <3>2, <3>3, <3>4, <3>5
  <2>. QED  BY <1>1, <2>1 DEF Runs
<1>7. ASSUME NEW i \in 1..(n + m - 1), q[i].op = "run", Head(p).op = "run"
      PROVE  Head(p).link # q[i].link
  <2> DEFINE k == i - n + 1
  <2>1. k \in 1..m /\ k > 1 /\ q[i] = p[k]
    BY <1>4, <1>7
  <2> HIDE DEF k
  <2>2. 1 \in 1..m /\ p[1].op = "run"
    BY <1>1, <1>7
  <2>. QED  BY <1>1, <1>3, <1>7, <2>1, <2>2
<1>8. RunsFrom(q, p)
  <2>1. ASSUME NEW i \in 1..(n + m - 1), q[i].op = "run"
        PROVE  \E j \in 1..m : j > 1 /\ p[j] = q[i]
    BY <1>4, <2>1
  <2>. QED  BY <1>1, <1>7, <2>1 DEF RunsFrom, m
<1>. QED  BY <1>5, <1>6, <1>8 DEF q

LEMMA JoinThree ==
  ASSUME NEW h \in Statement, NEW r \in Seq(Statement), NEW b \in Statement, NEW c \in Statement
  PROVE  LET p == (<<h>> \o r) \o <<b, c>> n == Len(r)
         IN  /\ n \in Nat /\ Len(p) = n + 3
             /\ p[1] = h /\ p[n + 2] = b /\ p[n + 3] = c
             /\ \A i \in 1..Len(r) : p[i + 1] = r[i]
OBVIOUS

LEMMA StartRuns == Runs(StartProgram)
<1> DEFINE h == SetExecs("RUNNING")
           r == [l \in Link |-> RunLink(l)]
           c == WriteState("RUNNING")
           p == StartProgram
           n == Len(r)
<1>1. h \in Statement /\ ReadState \in Statement /\ c \in Statement
  BY StatementTypes DEF Status
<1>2. r \in [1..Len(Links) -> Statement]
  BY StatementTypes DEF Link
<1>3. r \in Seq(Statement) /\ n = Len(Links)
  BY <1>2, RuntimeAssumption
<1>4. \A l \in 1..n : r[l].link = l
  <2>1. \A l \in Link : r[l].link = l
    BY DEF RunLink
  <2> HIDE DEF r
  <2>. QED  BY <1>3, <2>1 DEF Link
<1>5. h.op # "run" /\ ReadState.op # "run" /\ c.op # "run"
  BY DEF SetExecs, ReadState, WriteState
<1>6. p = (<<h>> \o r) \o <<ReadState, c>>
  BY DEF StartProgram, Update
<1>0. c = WriteState("RUNNING")
  OBVIOUS
<1> HIDE DEF h, r, c, p
<1>7. /\ n \in Nat /\ Len(p) = n + 3
      /\ p[1] = h /\ p[n + 2] = ReadState /\ p[n + 3] = c
      /\ \A i \in 1..n : p[i + 1] = r[i]
  BY <1>1, <1>3, <1>6, JoinThree
<1> HIDE DEF n
<1>8. ASSUME NEW i \in 1..(n + 3), p[i].op = "run"
      PROVE  i < n + 2 /\ p[i].link = i - 1
  <2>1. i # 1 /\ i # n + 2 /\ i # n + 3
    BY <1>5, <1>7, <1>8
  <2>2. i - 1 \in 1..n /\ (i - 1) + 1 = i
    BY <1>7, <2>1
  <2>3. p[i] = r[i - 1]
    BY <1>7, <2>2
  <2>. QED  BY <1>4, <1>7, <2>1, <2>2, <2>3
<1>9. ASSUME NEW i \in 1..(n + 3), p[i].op = "run"
      PROVE  /\ i < n + 3 /\ p[n + 3] = WriteState("RUNNING")
             /\ \A j \in 1..(n + 3) : p[j].op = "run" /\ p[j].link = p[i].link => i = j
  <2>1. i < n + 2 /\ p[i].link = i - 1
    BY <1>8, <1>9
  <2>2. \A j \in 1..(n + 3) : p[j].op = "run" => p[j].link = j - 1
    BY <1>8
  <2>. QED  BY <1>0, <1>7, <2>1, <2>2
<1>. QED  BY <1>7, <1>9 DEF Runs, p

\* a step of t that changes nothing but its program, and no worker
LEMMA RunKept ==
  ASSUME TypeOK, RunInv, UNCHANGED worker, NEW t \in Thread, prog[t] # <<>>,
         NEW a \in Seq(Statement), ~HasRun(a),
         prog' = [prog EXCEPT ![t] = a \o Tail(prog[t])]
  PROVE  RunInv'
<1> DEFINE q == Splice(a, prog[t])
<1>1. prog'[t] = q /\ \A u \in Thread : u # t => prog'[u] = prog[u]
  BY DEF TypeOK, Splice
<1>2. prog[t] \in Seq(Statement) /\ Runs(prog[t])
  BY DEF TypeOK, RunInv
<1>3. /\ Runs(q)
      /\ HasRun(q) => HasRun(prog[t])
      /\ \A i \in 1..Len(q) : q[i].op = "run" => \E j \in 1..Len(prog[t]) : j > 1 /\ prog[t][j] = q[i]
  BY <1>2, RunsTail DEF RunsFrom
<1> HIDE DEF q
<1>4. \A u \in Thread : Runs(prog'[u])
  BY <1>1, <1>3 DEF RunInv
<1>5. ASSUME NEW u \in Thread, NEW i \in 1..Len(prog'[u]), prog'[u][i].op = "run"
      PROVE  u \in Callers /\ worker[prog'[u][i].link] = "new"
  <2>1. CASE u # t
    BY <1>1, <1>5, <2>1 DEF RunInv
  <2>2. CASE u = t
    <3>1. i \in 1..Len(q) /\ q[i].op = "run" /\ prog'[u][i] = q[i]
      BY <1>1, <1>5, <2>2
    <3>2. PICK j \in 1..Len(prog[t]) : prog[t][j] = q[i]
      BY <1>3, <3>1
    <3>. QED  BY <2>2, <3>1, <3>2 DEF RunInv
  <2>. QED  BY <2>1, <2>2
<1>6. \A u, v \in Thread : HasRun(prog'[u]) /\ HasRun(prog'[v]) => u = v
  BY <1>1, <1>3 DEF RunInv
<1>. QED  BY <1>4, <1>5, <1>6 DEF RunInv

\* a thread that has nothing to do begins something that runs no link, or ends
LEMMA RunFresh ==
  ASSUME TypeOK, RunInv, NEW t \in Thread, NEW p, ~HasRun(p),
         prog' = [prog EXCEPT ![t] = p],
         \A k \in Link : worker[k] = "new" => worker'[k] = "new"
  PROVE  RunInv'
<1>1. prog'[t] = p /\ \A u \in Thread : u # t => prog'[u] = prog[u]
  BY DEF TypeOK
<1>2. ~HasRun(p) /\ Runs(p)
  BY DEF HasRun, Runs
<1>3. \A u \in Thread : Runs(prog'[u])
  BY <1>1, <1>2 DEF RunInv
<1>4. ASSUME NEW u \in Thread, NEW i \in 1..Len(prog'[u]), prog'[u][i].op = "run"
      PROVE  u \in Callers /\ worker'[prog'[u][i].link] = "new"
  <2>1. u # t
    BY <1>1, <1>2, <1>4 DEF HasRun
  <2>2. u \in Callers /\ worker[prog[u][i].link] = "new" /\ prog'[u][i] = prog[u][i]
    BY <1>1, <1>4, <2>1 DEF RunInv
  <2>3. prog[u][i].link \in Link
    <3>1. prog[u][i] \in Statement
      BY <1>1, <1>4, <2>1 DEF TypeOK
    <3>. QED  BY <1>4, <2>2, <3>1, HeadFields
  <2>. QED  BY <2>2, <2>3
<1>5. \A u, v \in Thread : HasRun(prog'[u]) /\ HasRun(prog'[v]) => u = v
  BY <1>1, <1>2 DEF RunInv
<1>. QED  BY <1>3, <1>4, <1>5 DEF RunInv

TurnInv == WorkInv /\ RunInv

\* nothing starts again the worker of a link that has ended
Ended(w, v) == \A l \in Link : w[l] = "done" => v[l] = "done"

LEMMA TameRuns ==
  ASSUME NEW p, Tame(p)
  PROVE  ~HasRun(p)
BY DEF Tame, Quiet, HasRun

\* a worker goes on with what it is busy with
LEMMA WorkKept ==
  ASSUME TypeOK, WorkInv, UNCHANGED worker, NEW t \in Thread, prog[t] # <<>> \/ t \in Callers,
         NEW p, prog' = [prog EXCEPT ![t] = p]
  PROVE  WorkInv'
<1>1. \A u \in Thread : u # t => prog'[u] = prog[u]
  BY DEF TypeOK
<1>2. \A l \in Link : l \in Thread /\ l \notin Callers
  BY RuntimeAssumption DEF Thread
<1>3. ASSUME NEW l \in Link, prog'[l] # <<>> PROVE worker[l] = "busy"
  BY <1>1, <1>2, <1>3 DEF WorkInv
<1>. QED  BY <1>3 DEF WorkInv

\* a step that puts tame statements in the place of the first one
LEMMA AheadRun ==
  ASSUME TypeOK, TurnInv, UNCHANGED worker, NEW t \in Thread, prog[t] # <<>>,
         NEW a \in Seq(Statement), ~HasRun(a),
         prog' = [prog EXCEPT ![t] = a \o Tail(prog[t])]
  PROVE  TurnInv'
BY WorkKept, RunKept DEF TurnInv

LEMMA PopRun ==
  ASSUME TypeOK, TurnInv, UNCHANGED worker, NEW t \in Thread, prog[t] # <<>>, Pop(t)
  PROVE  TurnInv'
<1>1. <<>> \in Seq(Statement) /\ ~HasRun(<<>>) /\ Tail(prog[t]) \in Seq(Statement)
  BY DEF HasRun, TypeOK
<1>2. Tail(prog[t]) = <<>> \o Tail(prog[t])
  BY <1>1
<1>3. prog' = [prog EXCEPT ![t] = <<>> \o Tail(prog[t])]
  BY <1>2 DEF Pop
<1>. QED  BY <1>1, <1>3, AheadRun

\* start() begins: no thread runs, and no other call can start one
LEMMA StartRun ==
  ASSUME TypeOK, TurnInv, NEW c \in Callers, StartCall(c)
  PROVE  TurnInv'
<1>1. /\ prog' = [prog EXCEPT ![c] = StartProgram] /\ UNCHANGED worker /\ c \in Thread
      /\ \A l \in Link : worker[l] = "new"
      /\ \A u \in Callers : \A i \in DOMAIN prog[u] : prog[u][i] # WriteState("RUNNING")
  BY DEF StartCall, Started, Thread
<1>2. prog'[c] = StartProgram /\ \A u \in Thread : u # c => prog'[u] = prog[u]
  BY <1>1 DEF TypeOK
<1>3. ASSUME NEW u \in Thread PROVE ~HasRun(prog[u])
  <2> SUFFICES ASSUME NEW i \in 1..Len(prog[u]), prog[u][i].op = "run" PROVE FALSE
    BY DEF HasRun
  <2>1. u \in Callers /\ prog[u] \in Seq(Statement)
    BY DEF TurnInv, RunInv, TypeOK
  <2>2. i < Len(prog[u]) /\ prog[u][Len(prog[u])] = WriteState("RUNNING")
    BY DEF TurnInv, RunInv, Runs
  <2>3. Len(prog[u]) \in DOMAIN prog[u]
    BY <2>1, <2>2
  <2>. QED  BY <1>1, <2>1, <2>2, <2>3
<1>4. \A u \in Thread : Runs(prog'[u])
  BY <1>2, StartRuns DEF TurnInv, RunInv
<1>5. ASSUME NEW u \in Thread, NEW i \in 1..Len(prog'[u]), prog'[u][i].op = "run"
      PROVE  u \in Callers /\ worker'[prog'[u][i].link] = "new"
  <2>1. u = c
    BY <1>2, <1>3, <1>5 DEF HasRun
  <2>2. prog'[u][i].link \in Link
    <3>1. prog'[u][i] \in Statement
      BY <1>2, <2>1, ProgramTypes
    <3>. QED  BY <1>5, <3>1, HeadFields
  <2>. QED  BY <1>1, <2>1, <2>2
<1>6. \A u, v \in Thread : HasRun(prog'[u]) /\ HasRun(prog'[v]) => u = v
  BY <1>2, <1>3
<1>7. RunInv'
  BY <1>4, <1>5, <1>6 DEF RunInv
<1>. QED  BY <1>1, <1>7, WorkKept DEF TurnInv

\* RunningThread.start: a thread that was new is busy, the others are as they were
LEMMA StepRun ==
  ASSUME TypeOK, TurnInv, NEW t \in Thread, RunStep(t)
  PROVE  TurnInv' /\ Ended(worker, worker')
<1> DEFINE k == Head(prog[t]).link
           q == Tail(prog[t])
<1>1. /\ prog[t] \in Seq(Statement) /\ prog[t] # <<>> /\ Head(prog[t]).op = "run" /\ k \in Link
      /\ q \in Seq(Statement) /\ prog' = [prog EXCEPT ![t] = q]
      /\ worker' = [worker EXCEPT ![k] = "busy"]
  BY RunningHead, HeadFields DEF RunStep, Running, Pop
<1>2. t \in Callers /\ worker[k] = "new" /\ HasRun(prog[t])
  <2>1. 1 \in 1..Len(prog[t]) /\ prog[t][1] = Head(prog[t])
    BY <1>1
  <2>. QED  BY <1>1, <2>1 DEF TurnInv, RunInv, HasRun
<1>3. /\ worker'[k] = "busy" /\ \A l \in Link : l # k => worker'[l] = worker[l]
      /\ prog'[t] = q /\ \A u \in Thread : u # t => prog'[u] = prog[u]
  BY <1>1 DEF TypeOK
<1>4. Runs(q) /\ RunsFrom(q, prog[t])
  <2> DEFINE none == <<>>
  <2>1. none \in Seq(Statement) /\ ~HasRun(none) /\ q = Splice(none, prog[t])
    BY <1>1 DEF HasRun, Splice
  <2>2. Runs(prog[t])
    BY DEF TurnInv, RunInv
  <2> HIDE DEF none, q
  <2>3. Runs(Splice(none, prog[t])) /\ RunsFrom(Splice(none, prog[t]), prog[t])
    BY <1>1, <2>1, <2>2, RunsTail
  <2>. QED  BY <2>1, <2>3
<1>5. WorkInv'
  <2>1. \A l \in Link : l \in Thread /\ l # t
    BY <1>2, RuntimeAssumption DEF Thread
  <2>. QED  BY <1>3, <2>1 DEF TurnInv, WorkInv
<1> HIDE DEF q
<1>6. \A u \in Thread : u # t => ~HasRun(prog[u])
  BY <1>2 DEF TurnInv, RunInv
<1>7. ASSUME NEW u \in Thread, NEW i \in 1..Len(prog'[u]), prog'[u][i].op = "run"
      PROVE  u \in Callers /\ worker'[prog'[u][i].link] = "new"
  <2>1. u = t
    BY <1>3, <1>6, <1>7 DEF HasRun
  <2>2. prog'[u] = q
    BY <1>3, <2>1
  <2>3. PICK j \in 1..Len(prog[t]) : prog[t][j] = q[i]
    BY <1>4, <1>7, <2>2 DEF RunsFrom
  <2>4. k # q[i].link
    BY <1>1, <1>4, <1>7, <2>2 DEF RunsFrom
  <2>5. worker[q[i].link] = "new" /\ q[i].link \in Link
    <3>1. q[i] \in Statement
      BY <1>1, <2>3
    <3>. QED  BY <1>7, <2>2, <2>3, <3>1, HeadFields DEF TurnInv, RunInv
  <2>. QED  BY <1>2, <1>3, <2>1, <2>2, <2>4, <2>5
<1>8. \A u \in Thread : Runs(prog'[u])
  BY <1>3, <1>4 DEF TurnInv, RunInv
<1>9. \A u, v \in Thread : HasRun(prog'[u]) /\ HasRun(prog'[v]) => u = v
  BY <1>3, <1>6
<1>10. RunInv'
  BY <1>7, <1>8, <1>9 DEF RunInv
<1>11. Ended(worker, worker')
  BY <1>2, <1>3 DEF Ended
<1>. QED  BY <1>5, <1>10, <1>11 DEF TurnInv

LEMMA NextRun == TypeOK /\ FlowInv /\ TurnInv /\ [Next]_vars => TurnInv' /\ Ended(worker, worker')
<1> SUFFICES ASSUME TypeOK, FlowInv, TurnInv, [Next]_vars
             PROVE  TurnInv' /\ Ended(worker, worker')
  OBVIOUS
<1> USE DEF state, calls
<1>1. ASSUME UNCHANGED worker PROVE Ended(worker, worker')
  BY <1>1 DEF Ended
<1>2. ASSUME NEW l \in Link, LoopTest(l) PROVE TurnInv' /\ Ended(worker, worker')
  <2>1. /\ prog' = prog /\ prog[l] = <<>> /\ worker[l] = "busy"
        /\ worker'[l] \in {"done", "take"} /\ \A k \in Link : k # l => worker'[k] = worker[k]
    BY <1>2 DEF LoopTest, Idle, TypeOK
  <2>2. \A k \in Link : worker[k] = "new" => worker'[k] = "new"
    BY <2>1
  <2>3. l \in Thread /\ prog[l] = <<>> /\ prog' = [prog EXCEPT ![l] = prog[l]] /\ ~HasRun(prog[l])
    BY <2>1 DEF Thread, TypeOK, HasRun
  <2>4. RunInv'
    BY <2>2, <2>3, RunFresh DEF TurnInv
  <2>. QED  BY <2>1, <2>4 DEF TurnInv, WorkInv, Ended
<1>3. ASSUME NEW l \in Link, Take(l) PROVE TurnInv' /\ Ended(worker, worker')
  <2> DEFINE p == OnEvent(Links[l].to, Head(queue[l]))
  <2>1. /\ l \in Thread /\ prog' = [prog EXCEPT ![l] = p] /\ worker[l] = "take"
        /\ worker'[l] = "busy" /\ \A k \in Link : k # l => worker'[k] = worker[k]
    BY <1>3 DEF Take, TypeOK, Thread
  <2>2. ~HasRun(p)
    BY OnEventTame, TameRuns
  <2>3. \A k \in Link : worker[k] = "new" => worker'[k] = "new"
    BY <2>1
  <2> HIDE DEF p
  <2>4. RunInv'
    BY <2>1, <2>2, <2>3, RunFresh DEF TurnInv
  <2>5. \A u \in Thread : u # l => prog'[u] = prog[u]
    BY <2>1 DEF TypeOK
  <2>6. WorkInv'
    BY <2>1, <2>5 DEF TurnInv, WorkInv, Thread
  <2>. QED  BY <2>1, <2>4, <2>6 DEF TurnInv, Ended
<1>4. ASSUME NEW t \in Thread, ExecStep(t) PROVE TurnInv' /\ Ended(worker, worker')
  <2>1. PICK p : prog' = [prog EXCEPT ![t] = p] /\ Tame(p)
    BY <1>4, ExecProgram
  <2>2. UNCHANGED worker /\ prog[t] # <<>>
    BY <1>4 DEF ExecStep, Running
  <2>3. WorkInv'
    BY <2>1, <2>2, WorkKept DEF TurnInv
  <2>4. RunInv'
    BY <2>1, <2>2, TameRuns, RunFresh DEF TurnInv
  <2>. QED  BY <1>1, <2>2, <2>3, <2>4 DEF TurnInv
<1>5. ASSUME NEW t \in Thread, ExecThrow(t) PROVE TurnInv' /\ Ended(worker, worker')
  <2>1. /\ prog' = [prog EXCEPT ![t] = <<>>] /\ prog[t] # <<>>
        /\ worker' = IF t \in Link THEN [worker EXCEPT ![t] = "done"] ELSE worker
    BY <1>5 DEF ExecThrow, Running
  <2>2. t \in Link => worker[t] = "busy"
    BY <2>1 DEF TurnInv, WorkInv
  <2>3. /\ \A k \in Link : k # t => worker'[k] = worker[k]
        /\ t \in Link => worker'[t] = "done"
        /\ prog'[t] = <<>> /\ \A u \in Thread : u # t => prog'[u] = prog[u]
    BY <2>1 DEF TypeOK
  <2>4. \A k \in Link : worker[k] = "new" => worker'[k] = "new"
    BY <2>2, <2>3
  <2>5. ~HasRun(<<>>)
    BY DEF HasRun
  <2>6. RunInv'
    BY <2>1, <2>4, <2>5, RunFresh DEF TurnInv
  <2>7. WorkInv'
    BY <2>3 DEF TurnInv, WorkInv, Thread
  <2>. QED  BY <2>3, <2>6, <2>7 DEF TurnInv, Ended
<1>6. ASSUME NEW t \in Thread, SendStep(t) \/ StopStep(t) PROVE TurnInv' /\ Ended(worker, worker')
  <2>1. PICK a : /\ a \in Seq(Statement) /\ Tame(a) /\ Tail(prog[t]) \in Seq(Statement)
                 /\ prog' = [prog EXCEPT ![t] = a \o Tail(prog[t])]
    BY <1>6, SendProgram, Zenon
  <2>2. UNCHANGED worker /\ prog[t] # <<>>
    BY <1>6 DEF SendStep, StopStep, Running
  <2>. QED  BY <1>1, <2>1, <2>2, TameRuns, AheadRun
<1>7. ASSUME NEW t \in Thread, SendDone(t) \/ ExecsStep(t) \/ ReadStep(t) \/ WriteStep(t)
      PROVE  TurnInv' /\ Ended(worker, worker')
  <2>1. UNCHANGED worker /\ prog[t] # <<>> /\ Pop(t)
    BY <1>7 DEF SendDone, ExecsStep, ReadStep, WriteStep, Running
  <2>. QED  BY <1>1, <2>1, PopRun
<1>8. ASSUME NEW t \in Thread, RunStep(t) PROVE TurnInv' /\ Ended(worker, worker')
  BY <1>8, StepRun
<1>9. ASSUME NEW c \in Callers, StartCall(c) PROVE TurnInv' /\ Ended(worker, worker')
  BY <1>1, <1>9, StartRun DEF StartCall
<1>10. ASSUME NEW c \in Callers, EmitCall(c) \/ StopCall(c) PROVE TurnInv' /\ Ended(worker, worker')
  <2>1. \E p : Tame(p) /\ prog' = [prog EXCEPT ![c] = p]
    BY <1>10, StopTame, EmitTame DEF EmitCall, StopCall
  <2>2. PICK p : Tame(p) /\ prog' = [prog EXCEPT ![c] = p]
    BY <2>1
  <2>3. c \in Thread /\ UNCHANGED worker
    BY <1>10 DEF EmitCall, StopCall, Thread
  <2>4. RunInv'
    BY <2>2, <2>3, TameRuns, RunFresh DEF TurnInv
  <2>5. WorkInv'
    BY <2>2, <2>3, WorkKept DEF TurnInv
  <2>. QED  BY <1>1, <2>3, <2>4, <2>5 DEF TurnInv
<1>11. ASSUME UNCHANGED vars PROVE TurnInv' /\ Ended(worker, worker')
  BY <1>1, <1>11 DEF vars, control, TurnInv, WorkInv, RunInv
<1>. QED
  BY <1>2, <1>3, <1>4, <1>5, <1>6, <1>7, <1>8, <1>9, <1>10, <1>11 DEF Next, Step

LEMMA InitRun == Init => TurnInv
BY DEF Init, TurnInv, WorkInv, RunInv, Runs, HasRun, Thread
-----------------------------------------------------------------------------
\* a worker that has ended stays so, and what it held is not counted on
BalInv ==
  \/ \E k \in Link : worker[k] = "done"
  \/ \A l \in Link, d \in Data : ~Fed(l) => Even(l, d)

\* an exception out of exec() ends the worker, or the call of a caller
LEMMA ThrowEven ==
  ASSUME TypeOK, LoneCall, NEW c \in Callers, ExecThrow(c),
         NEW l \in Link, NEW d \in Data, Even(l, d)
  PROVE  Even(l, d)'
<1> DEFINE D == Hands(l, d)
           none == <<>>
<1>1. /\ c \in Thread /\ c # l /\ UNCHANGED <<log, queue>>
      /\ prog' = [prog EXCEPT ![c] = none]
      /\ prog[c] \in Seq(Statement) /\ prog[c] # <<>> /\ Head(prog[c]).op = "exec"
  BY RunningHead, RuntimeAssumption DEF ExecThrow, Thread, Running
<1>2. Ent(prog[c]) = {Head(prog[c])}
  <2>1. /\ Todo(c) = {Head(prog[c])} \cup Ent(Tail(prog[c]))
        /\ Len(prog[c]) \in Nat /\ Len(Tail(prog[c])) = Len(prog[c]) - 1
    BY <1>1, EntHead DEF Todo
  <2>2. Len(Tail(prog[c])) = 0
    BY <1>1, <2>1 DEF LoneCall
  <2>3. Ent(Tail(prog[c])) = {}
    BY <2>2 DEF Ent
  <2>. QED  BY <2>1, <2>3 DEF Todo
<1>3. Ent(prog[c]) \cap D = {} /\ Ent(none) \cap D = {}
  BY <1>1, <1>2, EntNone DEF Hands
<1> HIDE DEF D, none
<1>4. Places(prog[c], D) = {} /\ Places(none, D) = {}
  <2>1. none \in Seq(Statement)
    BY DEF none
  <2>. QED  BY <1>1, <1>3, <2>1, PlacesNone
<1>. QED  BY <1>1, <1>4, QuietEven DEF D

LEMMA NextBal == TypeOK /\ FlowInv /\ TurnInv /\ BalInv /\ [Next]_vars => BalInv'
<1> SUFFICES ASSUME TypeOK, FlowInv, TurnInv, BalInv, [Next]_vars PROVE BalInv'
  OBVIOUS
<1>1. CASE \E k \in Link : worker[k] = "done"
  <2>1. Ended(worker, worker')
    BY NextRun
  <2>. QED  BY <1>1, <2>1 DEF Ended, BalInv
<1>2. CASE \A k \in Link : worker[k] # "done"
  <2> SUFFICES ASSUME NEW l \in Link, NEW d \in Data, ~Fed(l), \A k \in Link : worker'[k] # "done"
               PROVE  Even(l, d)'
    BY DEF BalInv, Fed
  <2>1. Even(l, d) /\ LoneCall
    BY <1>2 DEF BalInv, FlowInv
  <2> USE DEF state, calls
  <2>2. ASSUME UNCHANGED <<log, queue, prog>> PROVE Even(l, d)'
    <3>1. /\ Sends(l, d)' = Sends(l, d) /\ Waits(l, d)' = Waits(l, d) /\ Works(l, d)' = Works(l, d)
          /\ FinishedBy(l, d)' = FinishedBy(l, d) /\ Through(l, d)' = Through(l, d)
      BY <2>2 DEF Sends, Waits, Works, FinishedBy, Through, Finished, Calls, Todo
    <3>. QED  BY <2>1, <3>1 DEF Even
  <2>3. ASSUME NEW k \in Link, LoopTest(k) PROVE Even(l, d)'
    BY <2>2, <2>3 DEF LoopTest
  <2>4. ASSUME NEW k \in Link, Take(k) PROVE Even(l, d)'
    <3>1. prog[k] = <<>>
      BY <2>4 DEF Take, TurnInv, WorkInv
    <3>. QED  BY <2>1, <2>4, <3>1, TakeEven
  <2>5. ASSUME NEW t \in Thread, ExecThrow(t) PROVE Even(l, d)'
    <3>1. t \notin Link
      BY <2>5 DEF ExecThrow, TypeOK
    <3>. QED  BY <2>1, <2>5, <3>1, ThrowEven DEF Thread
  <2>6. ASSUME NEW t \in Thread,
               SendDone(t) \/ RunStep(t) \/ ExecsStep(t) \/ ReadStep(t) \/ WriteStep(t)
        PROVE  Even(l, d)'
    <3>1. /\ UNCHANGED <<log, queue>> /\ Pop(t)
          /\ \E k \in {"send", "run", "execs", "read", "write"} :
               Running(t, k) /\ (k = "send" => Head(prog[t]).links = {})
      BY <2>6 DEF SendDone, RunStep, ExecsStep, ReadStep, WriteStep
    <3>2. PICK k \in {"send", "run", "execs", "read", "write"} :
            Running(t, k) /\ (k = "send" => Head(prog[t]).links = {})
      BY <3>1
    <3>. QED  BY <2>1, <3>1, <3>2, PopEven
  <2>7. ASSUME NEW t \in Thread, ExecStep(t) \/ SendStep(t) \/ StopStep(t) PROVE Even(l, d)'
    BY <2>1, <2>7, ExecEven, SendEven, StopEven
  <2>8. ASSUME NEW c \in Callers, StartCall(c) \/ EmitCall(c) \/ StopCall(c) PROVE Even(l, d)'
    BY <2>1, <2>8, CallEven
  <2>9. ASSUME UNCHANGED vars PROVE Even(l, d)'
    BY <2>2, <2>9 DEF vars, control
  <2>. QED
    BY <2>3, <2>4, <2>5, <2>6, <2>7, <2>8, <2>9 DEF Next, Step
<1>. QED  BY <1>1, <1>2

LEMMA InitBal == Init => BalInv
BY InitEven DEF BalInv

\* at rest no worker has ended, and there is nothing to send, to take or to do
LEMMA RestConserves == TypeOK /\ BalInv => Conservation
<1> SUFFICES ASSUME TypeOK, BalInv, AtRest, NEW l \in Link, NEW d \in Data, ~Fed(l)
             PROVE  FinishedBy(l, d) = Through(l, d)
  BY DEF Conservation
<1>1. Even(l, d)
  BY DEF BalInv, AtRest
<1>2. FinishedBy(l, d) \in Nat
  BY NowTallies DEF Tallies
<1>3. Waits(l, d) = 0
  <2>1. queue[l] = <<>> /\ \A D : Count(<<>>, D) = 0
    BY FS_EmptySet DEF AtRest, Count, Hits
  <2>. QED  BY <2>1 DEF Waits
<1>4. Works(l, d) = 0
  <2>1. prog[l] = <<>>
    BY DEF AtRest, Idle, Thread
  <2>. QED  BY <2>1, EntNone DEF Works, Calls, Todo
<1>5. Sends(l, d) = {}
  BY DEF Sends, Left, Places, AtRest, Idle
<1>6. Cardinality(Sends(l, d)) = 0
  BY <1>5, FS_EmptySet
<1>. QED  BY <1>1, <1>2, <1>3, <1>4, <1>6 DEF Even

\* Whatever the mesh, the queues, the retries and the callers: a workflow that
\* comes to rest has neither lost an event in a link nor delivered one twice.
THEOREM AlwaysConserved == Spec => []Conservation
<1> DEFINE Inv == TypeOK /\ FlowInv /\ TurnInv /\ BalInv
<1>1. Init => Inv
  BY InitTypeOK, InitFlow, InitRun, InitBal
<1>2. Inv /\ [Next]_vars => Inv'
  BY NextTypeOK, NextFlow, NextRun, NextBal
<1>3. Inv => Conservation
  BY RestConserves
<1>. QED  BY <1>1, <1>2, <1>3, PTL DEF Spec
-----------------------------------------------------------------------------
(* The end of a stop.  What is left of start() is with one caller, and     *)
(* with none once it has returned; a stop that begins then has statements  *)
(* left until the execs and the workflow say STOPPED, and nothing that     *)
(* says RUNNING is left to say it after that.                              *)

\* start() has not returned: nobody has emitted or stopped anything
StartLeft(p) ==
  /\ p # <<>> /\ p[Len(p)] = WriteState("RUNNING")
  /\ \A i \in 1..Len(p) : i < Len(p) => p[i].op \in {"execs", "run", "read"}

LEMMA StartLeftTail ==
  ASSUME NEW p \in Seq(Statement), StartLeft(p)
  PROVE  /\ Head(p).op \in {"execs", "run", "read", "write"}
         /\ Head(p).op = "write" => Tail(p) = <<>> /\ Head(p).change = "RUNNING"
         /\ Head(p).op # "write" => StartLeft(Tail(p))
<1> DEFINE w == Tail(p)
<1>1. /\ w \in Seq(Statement) /\ Len(p) \in Nat /\ Len(p) >= 1 /\ Len(w) = Len(p) - 1
      /\ Head(p) = p[1]
      /\ \A i \in 1..Len(w) : i + 1 \in 1..Len(p) /\ w[i] = p[i + 1]
  BY TailIndex DEF StartLeft
<1>2. /\ WriteState("RUNNING").op = "write" /\ WriteState("RUNNING").change = "RUNNING"
  BY DEF WriteState
<1> HIDE DEF w
<1>3. CASE Len(p) = 1
  <2>1. Head(p) = WriteState("RUNNING") /\ Len(w) = 0
    BY <1>1, <1>3 DEF StartLeft
  <2>2. \A s \in Seq(Statement) : Len(s) = 0 => s = <<>>
    OBVIOUS
  <2>3. w = <<>>
    BY <1>1, <2>1, <2>2, Zenon
  <2>. QED  BY <1>2, <2>1, <2>3 DEF w
<1>4. CASE Len(p) # 1
  <2>1. Head(p).op \in {"execs", "run", "read"}
    BY <1>1, <1>4 DEF StartLeft
  <2>2. Len(w) \in 1..Len(w) /\ Len(w) + 1 = Len(p)
    BY <1>1, <1>4
  <2>3. w # <<>> /\ w[Len(w)] = WriteState("RUNNING")
    BY <1>1, <2>2 DEF StartLeft
  <2>4. \A i \in 1..Len(w) : i < Len(w) => w[i].op \in {"execs", "run", "read"}
    BY <1>1, <2>2 DEF StartLeft
  <2>. QED  BY <2>1, <2>3, <2>4 DEF StartLeft, w
<1>. QED  BY <1>3, <1>4

LEMMA StartShape ==
  ASSUME NEW T, NEW a \in Seq(T), NEW b \in Seq(T)
  PROVE  /\ \A i \in 1..Len(a) : a[i].op \in {"execs", "run"}
         /\ Len(b) = 2 /\ b[1].op = "read" /\ b[2] = WriteState("RUNNING")
         => StartLeft(a \o b)
<1> DEFINE p == a \o b
<1>0. /\ Len(a) \in Nat /\ Len(b) \in Nat /\ Len(p) = Len(a) + Len(b)
      /\ \A i \in 1..Len(a) : p[i] = a[i]
      /\ \A i \in 1..Len(b) : p[i + Len(a)] = b[i]
  BY ConcatIndex
<1> HIDE DEF p
<1> SUFFICES ASSUME \A i \in 1..Len(a) : a[i].op \in {"execs", "run"},
                    Len(b) = 2, b[1].op = "read", b[2] = WriteState("RUNNING")
             PROVE  StartLeft(p)
  BY DEF p
<1>1. /\ Len(a) \in Nat /\ Len(p) = Len(a) + 2
      /\ \A i \in 1..Len(a) : p[i] = a[i]
      /\ p[Len(a) + 1] = b[1] /\ p[Len(a) + 2] = b[2]
  <2>1. 1 \in 1..Len(b) /\ 2 \in 1..Len(b)
    OBVIOUS
  <2>2. p[1 + Len(a)] = b[1] /\ p[2 + Len(a)] = b[2]
    BY <1>0, <2>1
  <2>. QED  BY <1>0, <2>2
<1>2. p # <<>>
  <2>1. Len(p) # 0 /\ Len(<<>>) = 0
    BY <1>1
  <2>. QED  BY <2>1
<1>3. ASSUME NEW i \in 1..Len(p), i < Len(p) PROVE p[i].op \in {"execs", "run", "read"}
  <2>1. i \in 1..Len(a) \/ i = Len(a) + 1
    BY <1>1, <1>3
  <2>. QED  BY <1>1, <2>1
<1>4. p[Len(p)] = WriteState("RUNNING")
  BY <1>1
<1>. QED  BY <1>2, <1>3, <1>4 DEF StartLeft

LEMMA StartProgramLeft == StartLeft(StartProgram)
<1> DEFINE head == <<SetExecs("RUNNING")>>
           runs == [l \in Link |-> RunLink(l)]
<1>1. head \in Seq(Statement) /\ Update("RUNNING") \in Seq(Statement)
  BY StatementTypes DEF Update, Status
<1>2. runs \in [1..Len(Links) -> Statement]
  BY StatementTypes DEF Link
<1>3. runs \in Seq(Statement) /\ Len(runs) = Len(Links)
  BY <1>2, RuntimeAssumption
<1>4. \A s \in Ent(runs) : s.op = "run"
  <2>1. \A i \in Link : runs[i].op = "run"
    BY DEF RunLink
  <2> HIDE DEF runs
  <2>. QED  BY <1>3, <2>1 DEF Ent, Link
<1>5. \A s \in Ent(head) : s.op = "execs"
  BY EntSingle DEF SetExecs
<1>6. /\ Len(Update("RUNNING")) = 2 /\ Update("RUNNING")[1].op = "read"
      /\ Update("RUNNING")[2] = WriteState("RUNNING")
  BY DEF Update, ReadState
<1>7. StartProgram = (head \o runs) \o Update("RUNNING")
  BY DEF StartProgram
<1> HIDE DEF head, runs
<1>8. head \o runs \in Seq(Statement)
  BY <1>1, <1>3
<1>9. Ent(head \o runs) = Ent(head) \cup Ent(runs)
  BY <1>1, <1>3, EntConcat
<1>10. \A i \in 1..Len(head \o runs) : (head \o runs)[i].op \in {"execs", "run"}
  BY <1>4, <1>5, <1>9 DEF Ent
<1>. QED  BY <1>1, <1>6, <1>7, <1>8, <1>10, StartShape

LEMMA StartLeftLoud == \A p \in Seq(Statement) : StartLeft(p) => ~Quiet(p)
<1> SUFFICES ASSUME NEW p \in Seq(Statement), StartLeft(p) PROVE ~Quiet(p)
  OBVIOUS
<1>1. Len(p) \in 1..Len(p) /\ p[Len(p)] = WriteState("RUNNING")
  BY TailIndex DEF StartLeft
<1>2. WriteState("RUNNING").op = "write" /\ WriteState("RUNNING").change = "RUNNING"
  BY DEF WriteState
<1>. QED  BY <1>1, <1>2 DEF Quiet

ExecsStopped == \A x \in Exec : execStatus[x] = "STOPPED"

Ahead(s) == \E t \in Thread : s \in Todo(t)

StartInv ==
  /\ \A t \in Thread : Quiet(prog[t]) \/ (t \in Callers /\ StartLeft(prog[t]))
  /\ \A t, u \in Thread : StartLeft(prog[t]) /\ StartLeft(prog[u]) => t = u
  /\ "RUNNING" \in updates => \A t \in Thread : ~StartLeft(prog[t])

StopInv ==
  begun =>
    /\ "RUNNING" \in updates
    /\ ExecsStopped \/ Ahead(SetExecs("STOPPED"))
    /\ store = NoState \/ wstate = "STOPPED" \/ Ahead(WriteState("STOPPED"))

LEMMA HeadStart ==
  ASSUME TypeOK, StartInv, NEW t \in Thread, NEW k, Running(t, k)
  PROVE  \/ Quiet(prog[t]) /\ Quiet(Tail(prog[t]))
         \/ /\ t \in Callers /\ StartLeft(prog[t]) /\ k \in {"execs", "run", "read", "write"}
            /\ k # "write" => StartLeft(Tail(prog[t]))
<1>1. prog[t] \in Seq(Statement) /\ prog[t] # <<>> /\ Head(prog[t]).op = k
  BY RunningHead DEF Running
<1>2. Ent(prog[t]) = {Head(prog[t])} \cup Ent(Tail(prog[t]))
  BY <1>1, EntHead
<1>3. Quiet(prog[t]) => Quiet(Tail(prog[t]))
  BY <1>2, QuietEnt
<1>. QED  BY <1>1, <1>3, StartLeftTail DEF StartInv

\* a thread goes on, and says no more of start() than it had left of it
LEMMA StartKept ==
  ASSUME TypeOK, StartInv, updates' = updates, NEW t \in Thread, NEW p \in Seq(Statement),
         prog' = [prog EXCEPT ![t] = p],
         Quiet(p) \/ (t \in Callers /\ StartLeft(prog[t]) /\ StartLeft(p))
  PROVE  StartInv'
<1>1. prog'[t] = p /\ \A u \in Thread : u # t => prog'[u] = prog[u]
  BY DEF TypeOK
<1>2. StartLeft(p) => StartLeft(prog[t])
  BY StartLeftLoud
<1>3. \A u \in Thread : StartLeft(prog'[u]) => StartLeft(prog[u])
  BY <1>1, <1>2
<1>4. \A u \in Thread : Quiet(prog'[u]) \/ (u \in Callers /\ StartLeft(prog'[u]))
  BY <1>1 DEF StartInv
<1>. QED  BY <1>3, <1>4 DEF StartInv

LEMMA StopKept ==
  ASSUME TypeOK, StopInv, UNCHANGED <<execStatus, store, wstate, updates>>, begun' => begun,
         NEW t \in Thread, NEW p, prog' = [prog EXCEPT ![t] = p],
         StopWork \cap Todo(t) \subseteq Ent(p)
  PROVE  StopInv'
<1>1. prog'[t] = p /\ \A u \in Thread : u # t => prog'[u] = prog[u]
  BY DEF TypeOK
<1>2. ASSUME NEW s \in StopWork, Ahead(s) PROVE Ahead(s)'
  <2>1. PICK u \in Thread : s \in Todo(u)
    BY <1>2 DEF Ahead
  <2>2. s \in Todo(u)'
    BY <1>1, <2>1 DEF Todo
  <2>. QED  BY <2>2 DEF Ahead
<1>3. /\ Ahead(SetExecs("STOPPED")) => Ahead(SetExecs("STOPPED"))'
      /\ Ahead(WriteState("STOPPED")) => Ahead(WriteState("STOPPED"))'
  BY <1>2 DEF StopWork
<1>. QED  BY <1>3 DEF StopInv, ExecsStopped

\* once start() has returned, a stop that begins has all of its work ahead
LEMMA StopBegins ==
  ASSUME TypeOK, updates' = updates,
         NEW t \in Thread, NEW p, prog' = [prog EXCEPT ![t] = p], Begins(p)
  PROVE  StopInv'
<1>1. prog'[t] = p
  BY DEF TypeOK
<1>2. \A s \in StopWork : Ahead(s)'
  BY <1>1 DEF Ahead, Todo, Begins
<1>. QED  BY <1>2 DEF StopInv, StopWork, Begins

LEMMA NextStart == TypeOK /\ FlowInv /\ StartInv /\ [Next]_vars => StartInv'
<1> SUFFICES ASSUME TypeOK, FlowInv, StartInv, [Next]_vars PROVE StartInv'
  OBVIOUS
<1> USE DEF state, calls
<1>t. TypeOK'
  BY NextTypeOK
<1>1. ASSUME UNCHANGED <<prog, updates>> PROVE StartInv'
  BY <1>1 DEF StartInv
<1>2. ASSUME NEW t \in Thread, NEW p, Tame(p), prog' = [prog EXCEPT ![t] = p], updates' = updates
      PROVE  StartInv'
  <2>1. p \in Seq(Statement)
    BY <1>2, <1>t DEF TypeOK
  <2>. QED  BY <1>2, <2>1, StartKept DEF Tame
<1>3. ASSUME NEW l \in Link, Take(l) PROVE StartInv'
  <2>1. l \in Thread /\ prog' = [prog EXCEPT ![l] = OnEvent(Links[l].to, Head(queue[l]))]
        /\ updates' = updates
    BY <1>3 DEF Take, Thread
  <2>. QED  BY <1>2, <2>1, OnEventTame
<1>4. ASSUME NEW t \in Thread, ExecStep(t) PROVE StartInv'
  <2>1. updates' = updates
    BY <1>4 DEF ExecStep
  <2>. QED  BY <1>2, <1>4, <2>1, ExecProgram
<1>5. ASSUME NEW t \in Thread, ExecThrow(t) PROVE StartInv'
  <2>1. prog' = [prog EXCEPT ![t] = <<>>] /\ updates' = updates
    BY <1>5 DEF ExecThrow
  <2>. QED  BY <1>2, <2>1, NoneTame
<1>6. ASSUME NEW t \in Thread, SendStep(t) \/ StopStep(t) PROVE StartInv'
  <2>1. PICK a : /\ a \in Seq(Statement) /\ Tame(a) /\ Tail(prog[t]) \in Seq(Statement)
                 /\ prog' = [prog EXCEPT ![t] = a \o Tail(prog[t])]
    BY <1>6, SendProgram
  <2>2. updates' = updates /\ \E k \in {"send", "stop"} : Running(t, k)
    BY <1>6 DEF SendStep, StopStep
  <2>3. Quiet(Tail(prog[t]))
    BY <2>2, HeadStart
  <2>4. Ent(a \o Tail(prog[t])) = Ent(a) \cup Ent(Tail(prog[t]))
    BY <2>1, StatementConcat
  <2>5. Quiet(a \o Tail(prog[t]))
    BY <2>1, <2>3, <2>4, QuietEnt DEF Tame
  <2>6. a \o Tail(prog[t]) \in Seq(Statement)
    BY <2>1
  <2>. QED  BY <2>1, <2>2, <2>5, <2>6, StartKept
<1>7. ASSUME NEW t \in Thread, SendDone(t) \/ RunStep(t) \/ ReadStep(t) \/ ExecsStep(t)
      PROVE  StartInv'
  <2>1. /\ \E k \in {"send", "run", "read", "execs"} : Running(t, k)
        /\ prog' = [prog EXCEPT ![t] = Tail(prog[t])] /\ updates' = updates
    BY <1>7 DEF SendDone, RunStep, ReadStep, ExecsStep, Pop
  <2>2. Tail(prog[t]) \in Seq(Statement)
    BY <2>1, RunningHead
  <2>3. Quiet(Tail(prog[t])) \/ (t \in Callers /\ StartLeft(prog[t]) /\ StartLeft(Tail(prog[t])))
    BY <2>1, HeadStart
  <2>. QED  BY <2>1, <2>2, <2>3, StartKept
<1>8. ASSUME NEW t \in Thread, WriteStep(t) PROVE StartInv'
  <2> DEFINE c == Head(prog[t]).change
  <2>1. /\ prog[t] \in Seq(Statement) /\ prog[t] # <<>> /\ Head(prog[t]).op = "write"
        /\ Tail(prog[t]) \in Seq(Statement) /\ Running(t, "write")
    BY <1>8, RunningHead DEF WriteStep, Running
  <2>2. /\ prog' = [prog EXCEPT ![t] = Tail(prog[t])]
        /\ updates' = IF c = "commit" THEN updates ELSE updates \cup {c}
    BY <1>8 DEF WriteStep, Pop
  <2>3. prog'[t] = Tail(prog[t]) /\ \A u \in Thread : u # t => prog'[u] = prog[u]
    BY <2>2 DEF TypeOK
  <2>4. CASE StartLeft(prog[t])
    <3>1. Tail(prog[t]) = <<>>
      BY <2>1, <2>4, StartLeftTail
    <3>2. Quiet(<<>>) /\ ~StartLeft(<<>>)
      BY NoneTame DEF Tame, StartLeft
    <3>3. \A u \in Thread : u # t => ~StartLeft(prog[u])
      BY <2>4 DEF StartInv
    <3>4. \A u \in Thread : Quiet(prog'[u]) /\ ~StartLeft(prog'[u])
      BY <2>3, <3>1, <3>2, <3>3 DEF StartInv
    <3>. QED  BY <3>4 DEF StartInv
  <2>5. CASE ~StartLeft(prog[t])
    <3>1. Quiet(prog[t]) /\ Quiet(Tail(prog[t]))
      BY <2>1, <2>5, HeadStart
    <3>2. c # "RUNNING"
      <4>1. Head(prog[t]) \in Ent(prog[t])
        BY <2>1, EntHead
      <4>. QED  BY <2>1, <3>1, <4>1, QuietEnt
    <3>3. ~StartLeft(Tail(prog[t]))
      BY <2>1, <3>1, StartLeftLoud
    <3>4. "RUNNING" \in updates' => "RUNNING" \in updates
      BY <2>2, <3>2
    <3>5. \A u \in Thread : StartLeft(prog'[u]) => StartLeft(prog[u])
      BY <2>3, <3>3
    <3>6. \A u \in Thread : Quiet(prog'[u]) \/ (u \in Callers /\ StartLeft(prog'[u]))
      BY <2>3, <3>1 DEF StartInv
    <3>. QED  BY <3>4, <3>5, <3>6 DEF StartInv
  <2>. QED  BY <2>4, <2>5
<1>9. ASSUME NEW c \in Callers, StartCall(c) PROVE StartInv'
  <2>1. /\ prog' = [prog EXCEPT ![c] = StartProgram] /\ "RUNNING" \notin updates
        /\ updates' = updates /\ c \in Thread
        /\ \A t \in Callers : \A i \in DOMAIN prog[t] : prog[t][i] # WriteState("RUNNING")
    BY <1>9 DEF StartCall, Started, Thread
  <2>2. ASSUME NEW t \in Thread, StartLeft(prog[t]) PROVE FALSE
    <3>1. prog[t] \in Seq(Statement) /\ t \in Callers
      BY <2>2, StartLeftLoud DEF StartInv, TypeOK
    <3>2. Len(prog[t]) \in DOMAIN prog[t]
      BY <2>2, <3>1, TailIndex DEF StartLeft
    <3>. QED  BY <2>1, <2>2, <3>1, <3>2 DEF StartLeft
  <2>3. prog'[c] = StartProgram /\ \A u \in Thread : u # c => prog'[u] = prog[u]
    BY <2>1 DEF TypeOK
  <2>4. \A u \in Thread : StartLeft(prog'[u]) => u = c
    BY <2>2, <2>3
  <2>5. \A u \in Thread : Quiet(prog'[u]) \/ (u \in Callers /\ StartLeft(prog'[u]))
    BY <2>2, <2>3, StartProgramLeft DEF StartInv
  <2>. QED  BY <2>1, <2>4, <2>5 DEF StartInv
<1>10. ASSUME NEW c \in Callers, EmitCall(c) \/ StopCall(c) PROVE StartInv'
  <2>1. c \in Thread /\ updates' = updates
    BY <1>10 DEF EmitCall, StopCall, Thread
  <2>2. \E p : Tame(p) /\ prog' = [prog EXCEPT ![c] = p]
    BY <1>10, StopTame, EmitTame DEF EmitCall, StopCall
  <2>. QED  BY <1>2, <2>1, <2>2
<1>11. ASSUME NEW l \in Link, LoopTest(l) PROVE StartInv'
  BY <1>1, <1>11 DEF LoopTest
<1>12. ASSUME UNCHANGED vars PROVE StartInv'
  BY <1>1, <1>12 DEF vars, control
<1>. QED
  BY <1>3, <1>4, <1>5, <1>6, <1>7, <1>8, <1>9, <1>10, <1>11, <1>12 DEF Next, Step

LEMMA NextStop ==
  TypeOK /\ FlowInv /\ TurnInv /\ ReadInv /\ StartInv /\ StopInv /\ [Next]_vars => StopInv'
<1> SUFFICES ASSUME TypeOK, FlowInv, TurnInv, ReadInv, StartInv, StopInv, [Next]_vars
             PROVE  StopInv'
  OBVIOUS
<1> USE DEF state, calls
<1>1. ASSUME UNCHANGED <<prog, execStatus, store, wstate, updates, begun>> PROVE StopInv'
  BY <1>1 DEF StopInv, ExecsStopped, Ahead, Todo
<1>w. \A s \in StopWork : s.op \in {"execs", "write"}
  BY DEF StopWork, SetExecs, WriteState
<1>2. ASSUME NEW l \in Link, Take(l) PROVE StopInv'
  <2>1. /\ prog' = [prog EXCEPT ![l] = OnEvent(Links[l].to, Head(queue[l]))] /\ l \in Thread
        /\ UNCHANGED <<execStatus, store, wstate, updates, begun>> /\ worker[l] = "take"
    BY <1>2 DEF Take, Thread
  <2>2. Todo(l) = {}
    BY <2>1, EntNone DEF TurnInv, WorkInv, Todo
  <2>. QED  BY <2>1, <2>2, StopKept
<1>3. ASSUME NEW t \in Thread, ExecStep(t) PROVE StopInv'
  <2>1. PICK p : prog' = [prog EXCEPT ![t] = p]
    BY <1>3, ExecProgram
  <2>2. UNCHANGED <<execStatus, store, wstate, updates>> /\ Running(t, "exec")
    BY <1>3 DEF ExecStep
  <2>3. StopWork \cap Todo(t) = {}
    BY <1>w, <2>2, ExecAlone, RunningHead
  <2>4. CASE begun' => begun
    BY <2>1, <2>2, <2>3, <2>4, StopKept
  <2>5. CASE begun' /\ ~begun
    <3>1. prog'[t] = p
      BY <2>1 DEF TypeOK
    <3>2. Begins(prog'[t])
      BY <1>3, <2>5, ExecBegins
    <3>3. Begins(p)
      BY <3>1, <3>2 DEF Begins
    <3>. QED  BY <2>1, <2>2, <3>3, StopBegins
  <2>. QED  BY <2>4, <2>5
<1>4. ASSUME NEW t \in Thread, ExecThrow(t) PROVE StopInv'
  <2>1. /\ prog' = [prog EXCEPT ![t] = <<>>] /\ Running(t, "exec")
        /\ UNCHANGED <<execStatus, store, wstate, updates, begun>>
    BY <1>4 DEF ExecThrow
  <2>2. StopWork \cap Todo(t) = {}
    BY <1>w, <2>1, ExecAlone, RunningHead
  <2>. QED  BY <2>1, <2>2, StopKept
<1>5. ASSUME NEW t \in Thread, SendStep(t) \/ StopStep(t) PROVE StopInv'
  <2>1. PICK a : /\ a \in Seq(Statement) /\ Tail(prog[t]) \in Seq(Statement)
                 /\ prog' = [prog EXCEPT ![t] = a \o Tail(prog[t])]
    BY <1>5, SendProgram
  <2>2. /\ prog[t] \in Seq(Statement) /\ prog[t] # <<>> /\ Head(prog[t]).op \in {"send", "stop"}
        /\ UNCHANGED <<execStatus, store, wstate, updates, begun>>
    BY <1>5, RunningHead DEF SendStep, StopStep, Running
  <2>3. Todo(t) = {Head(prog[t])} \cup Ent(Tail(prog[t]))
    BY <2>2, EntHead DEF Todo
  <2>4. Ent(a \o Tail(prog[t])) = Ent(a) \cup Ent(Tail(prog[t]))
    BY <2>1, StatementConcat
  <2>5. StopWork \cap Todo(t) \subseteq Ent(a \o Tail(prog[t]))
    BY <1>w, <2>2, <2>3, <2>4
  <2>. QED  BY <2>1, <2>2, <2>5, StopKept
<1>6. ASSUME NEW t \in Thread, SendDone(t) \/ RunStep(t) \/ ReadStep(t) PROVE StopInv'
  <2>1. /\ prog[t] \in Seq(Statement) /\ prog[t] # <<>>
        /\ Head(prog[t]).op \in {"send", "run", "read"}
        /\ prog' = [prog EXCEPT ![t] = Tail(prog[t])]
        /\ UNCHANGED <<execStatus, store, wstate, updates, begun>>
    BY <1>6, RunningHead DEF SendDone, RunStep, ReadStep, Running, Pop
  <2>2. Todo(t) = {Head(prog[t])} \cup Ent(Tail(prog[t]))
    BY <2>1, EntHead DEF Todo
  <2>3. StopWork \cap Todo(t) \subseteq Ent(Tail(prog[t]))
    BY <1>w, <2>1, <2>2
  <2>. QED  BY <2>1, <2>3, StopKept
<1>7. ASSUME NEW t \in Thread, ExecsStep(t) \/ WriteStep(t), begun PROVE StopInv'
  <2>1. /\ prog[t] \in Seq(Statement) /\ prog[t] # <<>> /\ Head(prog[t]) \in Statement
        /\ prog' = [prog EXCEPT ![t] = Tail(prog[t])] /\ begun' = begun
        /\ "RUNNING" \in updates /\ "RUNNING" \in updates'
    BY <1>7, RunningHead DEF ExecsStep, WriteStep, Running, Pop, StopInv
  <2>2. Todo(t) = {Head(prog[t])} \cup Ent(Tail(prog[t]))
    BY <2>1, EntHead DEF Todo
  <2>3. Quiet(prog[t]) /\ Head(prog[t]) \in Ent(prog[t])
    BY <2>1, <2>2 DEF StartInv, Todo
  <2>4. prog'[t] = Tail(prog[t]) /\ \A u \in Thread : u # t => prog'[u] = prog[u]
    BY <2>1 DEF TypeOK
  <2>5. ASSUME NEW s, Ahead(s), s # Head(prog[t]) PROVE Ahead(s)'
    <3>1. PICK u \in Thread : s \in Todo(u)
      BY <2>5 DEF Ahead
    <3>2. s \in Todo(u)'
      BY <2>2, <2>4, <2>5, <3>1 DEF Todo
    <3>. QED  BY <3>2 DEF Ahead
  <2>6. CASE ExecsStep(t)
    <3>1. /\ Head(prog[t]).op = "execs" /\ UNCHANGED <<store, wstate>>
          /\ execStatus' = [x \in Exec |-> Head(prog[t]).status]
      BY <2>6 DEF ExecsStep, Running
    <3>2. Head(prog[t]).status = "STOPPED"
      BY <2>3, <3>1, QuietEnt
    <3>3. ExecsStopped'
      BY <3>1, <3>2 DEF ExecsStopped
    <3>4. Head(prog[t]) # WriteState("STOPPED")
      BY <3>1 DEF WriteState
    <3>5. Ahead(WriteState("STOPPED")) => Ahead(WriteState("STOPPED"))'
      BY <2>5, <3>4
    <3>. QED  BY <1>7, <2>1, <3>1, <3>3, <3>5 DEF StopInv
  <2>7. CASE WriteStep(t)
    <3> DEFINE c == Head(prog[t]).change
    <3>1. /\ Head(prog[t]).op = "write" /\ execStatus' = execStatus
          /\ store' = IF snap[t] = NoState THEN store ELSE Modified(snap[t], c)
          /\ wstate' = IF snap[t] = NoState \/ c = "commit" THEN wstate ELSE c
      BY <2>7 DEF WriteStep, Running
    <3>2. c \in {"commit", "STOPPED"}
      BY <2>1, <2>3, <3>1, HeadFields, QuietEnt
    <3>3. Head(prog[t]) # SetExecs("STOPPED")
      BY <3>1 DEF SetExecs
    <3>4. ExecsStopped' \/ Ahead(SetExecs("STOPPED"))'
      <4>1. Ahead(SetExecs("STOPPED")) => Ahead(SetExecs("STOPPED"))'
        BY <2>5, <3>3
      <4>. QED  BY <1>7, <3>1, <4>1 DEF StopInv, ExecsStopped
    <3>5. snap[t] # NoState \/ store = NoState
      BY <2>1, <3>1, ReadsTail DEF ReadInv
    <3>6. store = NoState => store' = NoState
      BY <3>1 DEF ReadInv
    <3>7. CASE c = "commit"
      <4>1. Head(prog[t]) # WriteState("STOPPED")
        BY <3>7 DEF WriteState
      <4>2. Ahead(WriteState("STOPPED")) => Ahead(WriteState("STOPPED"))'
        BY <2>5, <4>1
      <4>. QED  BY <1>7, <2>1, <3>1, <3>4, <3>6, <3>7, <4>2 DEF StopInv
    <3>8. CASE c = "STOPPED"
      <4>1. store' = NoState \/ wstate' = "STOPPED"
        BY <3>1, <3>5, <3>8
      <4>. QED  BY <2>1, <3>4, <4>1 DEF StopInv
    <3>. QED  BY <3>2, <3>7, <3>8
  <2>. QED  BY <1>7, <2>6, <2>7
<1>8. ASSUME NEW c \in Callers, StartCall(c) PROVE StopInv'
  <2>1. "RUNNING" \notin updates /\ begun' = begun
    BY <1>8 DEF StartCall, Started
  <2>. QED  BY <2>1 DEF StopInv
<1>9. ASSUME NEW c \in Callers, EmitCall(c) PROVE StopInv'
  <2>1. PICK inlet \in Entry : prog' = [prog EXCEPT ![c] = EmitProgram(inlet[1], inlet[2], emitted')]
    BY <1>9 DEF EmitCall
  <2>2. /\ c \in Thread /\ prog[c] = <<>>
        /\ UNCHANGED <<execStatus, store, wstate, updates, begun>>
    BY <1>9 DEF EmitCall, Thread, Idle
  <2>3. Todo(c) = {}
    BY <2>2, EntNone DEF Todo
  <2>. QED  BY <2>1, <2>2, <2>3, StopKept
<1>10. ASSUME NEW c \in Callers, StopCall(c) PROVE StopInv'
  <2>1. /\ c \in Thread /\ prog' = [prog EXCEPT ![c] = StopProgram] /\ updates' = updates
        /\ begun' => begun \/ "RUNNING" \in updates
    BY <1>10 DEF StopCall, Thread
  <2>2. CASE "RUNNING" \in updates
    BY <2>1, <2>2, StopWorkLeft, StopBegins DEF Begins
  <2>3. CASE "RUNNING" \notin updates
    BY <2>1, <2>3 DEF StopInv
  <2>. QED  BY <2>2, <2>3
<1>11. ASSUME NEW l \in Link, LoopTest(l) PROVE StopInv'
  BY <1>1, <1>11 DEF LoopTest
<1>12. ASSUME UNCHANGED vars PROVE StopInv'
  BY <1>1, <1>12 DEF vars, control
<1>13. ASSUME NEW t \in Thread, ExecsStep(t) \/ WriteStep(t), ~begun PROVE StopInv'
  <2>1. begun' = begun
    BY <1>13 DEF ExecsStep, WriteStep
  <2>. QED  BY <1>13, <2>1 DEF StopInv
<1>. QED
  BY <1>2, <1>3, <1>4, <1>5, <1>6, <1>7, <1>8, <1>9, <1>10, <1>11, <1>12, <1>13 DEF Next, Step

\* Whoever starts, emits and stops, early or late, from however many threads:
\* when a stop that began after start() had returned is over and the threads
\* have ended, the workflow and its execs say that they are stopped.
THEOREM AlwaysStateIsStopped == Spec => []StateIsStopped
<1> DEFINE Inv == TypeOK /\ FlowInv /\ TurnInv /\ ReadInv /\ StartInv /\ StopInv
<1>1. Init => Inv
  <2> SUFFICES ASSUME Init PROVE Inv
    OBVIOUS
  <2>1. \A t \in Thread : prog[t] = <<>>
    BY DEF Init
  <2>2. ReadInv
    BY <2>1, NoneTame DEF Init, ReadInv, Tame
  <2>3. StartInv
    BY <2>1, NoneTame DEF StartInv, Tame, StartLeft
  <2>4. StopInv
    BY DEF Init, StopInv
  <2>. QED  BY <2>2, <2>3, <2>4, InitTypeOK, InitFlow, InitRun
<1>2. Inv /\ [Next]_vars => Inv'
  BY NextTypeOK, NextFlow, NextRun, NextRead, NextStart, NextStop
<1>3. Inv => StateIsStopped
  <2> SUFFICES ASSUME StopInv, begun, \A t \in Thread : Idle(t), store # NoState
               PROVE  wstate = "STOPPED" /\ ExecsStopped
    BY DEF StateIsStopped, ExecsStopped
  <2>1. \A s : ~Ahead(s)
    BY EntNone DEF Ahead, Todo, Idle
  <2>. QED  BY <2>1 DEF StopInv
<1>. QED  BY <1>1, <1>2, <1>3, PTL DEF Spec
=============================================================================
