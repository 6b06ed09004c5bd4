-------------------------- MODULE EnrollFlowProofs --------------------------
(***************************************************************************)
(* Theorems about EnrollFlow, for every set of emails, every behaviour of  *)
(* the services and any number of calls, crashes and failed writes.        *)
(*                                                                         *)
(* FinishedStays, for every flow of known phases: a session that has       *)
(* finished never changes.  What could change it is a command still in the *)
(* mailbox, a crash (which forgets a session that is in START, and the     *)
(* flow of one that is kept as events) and a StartFlow of the same         *)
(* enrollment.                                                             *)
(*                                                                         *)
(* The others, for every flow in order (OrderedFlow), from FlowInv:        *)
(*   BaseInv   what sessions, listeners and queues can be at all;          *)
(*   UserInv   the uid of a session is that of a user that was created;    *)
(*   StartInv  where a Start can still be, which replaces name and email;  *)
(*   TokenInv  tokens are drawn one by one, one for each AddEmail;         *)
(*   CountInv  what may still become a user, against what allows one;      *)
(*   MailInv   a mail with the session's token went to its email;          *)
(*   VouchInv  what is on its way to a user has an email that is confirmed.*)
(* Each is kept by every step, given the ones before it.                   *)
(***************************************************************************)
EXTENDS EnrollFlow, TLAPS, Functions, FiniteSetTheorems

\* The types, without the bound on the tokens, which counts messages.
AnySummary == [phase: Phases, name: Names, email: Names, token: Nat,
               uid: Nat, finished: BOOLEAN, flow: Seq(Phases)]
AnyReply == [ok: BOOLEAN, summary: AnySummary]

TypeInv ==
  /\ kind \in {"state", "event"} /\ enrollType \in {"state", "event"}
  /\ stored \in [{"state", "event"} -> AnySummary]
  /\ mailbox \in Seq(Command)
  /\ replies \in Seq(AnyReply)
  /\ at \in [phase: Phases, summary: AnySummary]
  /\ mailed \subseteq [email: Names, token: Nat]
  /\ users \in Seq([email: Names, name: Names])

\* Only a session kept as state has a listener that gets to work, and only the
\* listener finishes a session.
KindInv ==
  /\ session = "none" => listener = "none" /\ mailbox = <<>>
  /\ ~started => session = "none" /\ \A k \in {"state", "event"} : ~stored[k].finished
  /\ kind = "event" => listener # "up" /\ \A i \in 1..Len(mailbox) : mailbox[i].cmd # "Finish"
  /\ ~stored["event"].finished
  /\ stored["state"].finished => stored["state"].phase = "FINISH_ACK"

Inv == TypeInv /\ KindInv

Stays(k) == stored[k].finished => stored'[k] = stored[k]
-----------------------------------------------------------------------------
(* Operators                                                               *)

LEMMA EmptyStateType ==
  ASSUME NEW f \in Seq(Phases) PROVE EmptyState(f) \in AnySummary /\ ~EmptyState(f).finished
  BY DEF EmptyState, AnySummary, Phases, Names, NoToken, NoUser

LEMMA NowhereType == Nowhere \in [phase: Phases, summary: AnySummary]
  <1>1. <<>> \in Seq(Phases) /\ "" \in Phases
        BY DEF Phases
  <1> QED
      BY <1>1, EmptyStateType DEF Nowhere

LEMMA StateType == TypeInv => state \in AnySummary
  BY DEF TypeInv, state

LEMMA NextPhaseType ==
  ASSUME TypeInv, NEW p PROVE NextPhase(p) \in Phases
  <1> DEFINE flow == state.flow
             here == {i \in 1..Len(flow) : flow[i] = p /\ \A j \in 1..(i - 1) : flow[j] # p}
             n == CHOOSE i \in here : TRUE
  <1>1. flow \in Seq(Phases)
        BY StateType DEF AnySummary
  <1> HIDE DEF flow
  <1>2. ASSUME NEW i \in here, i < Len(flow) PROVE flow[n + 1] \in Phases
    <2>1. n \in here
          BY <1>2
    <2>2. n = i
          BY <1>1, <1>2, <2>1
    <2>3. n + 1 \in 1..Len(flow)
          BY <1>1, <1>2, <2>2
    <2> QED
        BY <1>1, <2>3
  <1>3. NextPhase(p) = IF \E i \in here : i < Len(flow) THEN flow[n + 1] ELSE ""
        BY DEF NextPhase, flow
  <1> QED
      BY <1>2, <1>3 DEF Phases

LEMMA MailType == TypeInv => Mail \in [email: Names, token: Nat]
  BY DEF TypeInv, Mail, AnySummary

LEMMA EnterType ==
  ASSUME TypeInv, NEW p \in Phases, Enter(p)
  PROVE  at' \in [phase: Phases, summary: AnySummary]
  BY NowhereType DEF TypeInv, Enter

LEMMA TellType ==
  ASSUME TypeInv, NEW m \in Command PROVE Tell(m) \in Seq(Command)
  BY DEF TypeInv, Tell

LEMMA ReplyType ==
  ASSUME TypeInv, NEW r \in AnyReply PROVE Reply(r) \in Seq(AnyReply)
  BY DEF TypeInv, Reply

\* A message of a kind that does not finish.
LEMMA TellKeeps ==
  ASSUME TypeInv, NEW m \in Command, m.cmd # "Finish",
         \A i \in 1..Len(mailbox) : mailbox[i].cmd # "Finish"
  PROVE  \A i \in 1..Len(Tell(m)) : Tell(m)[i].cmd # "Finish"
  BY DEF TypeInv, Tell

LEMMA MessageType ==
  /\ \A n \in Names, e \in Names : Start(n, e) \in Command /\ Start(n, e).cmd = "Start"
  /\ \A e \in Names : AddEmail(e) \in Command /\ AddEmail(e).cmd = "AddEmail"
  /\ \A t \in Nat : ConfirmEmail(t) \in Command /\ ConfirmEmail(t).cmd = "ConfirmEmail"
  /\ \A p \in Phases : UpdatePhase(p) \in Command /\ UpdatePhase(p).cmd = "UpdatePhase"
  /\ \A u \in Nat : CreateUser(u) \in Command /\ CreateUser(u).cmd = "CreateUser"
  /\ Continue \in Command /\ Continue.cmd = "Continue"
  /\ Finish \in Command /\ Info \in Command /\ Info.cmd = "Info"
  BY DEF Start, AddEmail, ConfirmEmail, UpdatePhase, CreateUser, Continue, Finish, Info, Command

\* What a command makes of a state: only Finish finishes it.
LEMMA ExecutedType ==
  ASSUME NEW s \in AnySummary, NEW m \in Command, m.cmd \in Persisting, ~s.finished
  PROVE  /\ Executed(s, m) \in AnySummary
         /\ m.cmd # "Finish" => ~Executed(s, m).finished
         /\ m.cmd = "Finish" => Executed(s, m).phase = "FINISH_ACK"
  <1>1. CASE m.cmd = "Start"
    <2>1. m.name \in Names /\ m.email \in Names
          BY <1>1 DEF Command
    <2>2. Executed(s, m) = StateStart(s, m.name, m.email)
          BY <1>1 DEF Executed
    <2> QED
        BY <1>1, <2>1, <2>2 DEF StateStart, AnySummary, Phases
  <1>2. CASE m.cmd = "AddEmail"
    <2>1. m.email \in Names
          BY <1>2 DEF Command
    <2>2. Executed(s, m) = StateAddEmail(s, m.email, NewToken(s))
          BY <1>2 DEF Executed
    <2>3. NewToken(s) \in Nat
          BY DEF NewToken, AnySummary
    <2> QED
        BY <1>2, <2>1, <2>2, <2>3 DEF StateAddEmail, AnySummary, Phases
  <1>3. CASE m.cmd = "ConfirmEmail"
    <2>1. Executed(s, m) = StateConfirmEmail(s)
          BY <1>3 DEF Executed
    <2> QED
        BY <1>3, <2>1 DEF StateConfirmEmail, AnySummary, Phases
  <1>4. CASE m.cmd = "UpdatePhase"
    <2>1. m.phase \in Phases
          BY <1>4 DEF Command
    <2>2. Executed(s, m) = StateUpdatePhase(s, m.phase)
          BY <1>4 DEF Executed
    <2> QED
        BY <1>4, <2>1, <2>2 DEF StateUpdatePhase, AnySummary
  <1>5. CASE m.cmd = "CreateUser"
    <2>1. m.uid \in Nat
          BY <1>5 DEF Command
    <2>2. Executed(s, m) = StateCreateUser(s, m.uid)
          BY <1>5 DEF Executed
    <2> QED
        BY <1>5, <2>1, <2>2 DEF StateCreateUser, AnySummary, Phases
  <1>6. CASE m.cmd = "Finish"
    <2>1. Executed(s, m) = StateFinish(s)
          BY <1>6 DEF Executed
    <2> QED
        BY <1>6, <2>1 DEF StateFinish, AnySummary, Phases
  <1> QED
      BY <1>1, <1>2, <1>3, <1>4, <1>5, <1>6 DEF Persisting
-----------------------------------------------------------------------------
(* Steps                                                                   *)

LEMMA InvInit == Init => Inv
  <1> SUFFICES ASSUME Init PROVE Inv
      OBVIOUS
  <1>1. <<"">> \in Seq(Phases)
        BY DEF Phases
  <1>2. stored \in [{"state", "event"} -> AnySummary] /\ \A k \in {"state", "event"} : ~stored[k].finished
        BY <1>1, EmptyStateType DEF Init
  <1>3. mailbox = <<>> /\ replies = <<>> /\ users = <<>> /\ mailed = {}
        BY DEF Init
  <1>4. TypeInv
    <2>1. kind \in {"state", "event"} /\ enrollType \in {"state", "event"}
          BY EnrollAssumption DEF Init
    <2>2. at \in [phase: Phases, summary: AnySummary]
          BY NowhereType DEF Init
    <2> QED
        BY <1>2, <1>3, <2>1, <2>2 DEF TypeInv
  <1>5. KindInv
    <2>1. session = "none" /\ listener = "none" /\ Len(mailbox) = 0
          BY <1>3 DEF Init
    <2> QED
        BY <1>2, <1>3, <2>1 DEF KindInv
  <1> QED
      BY <1>4, <1>5 DEF Inv

\* A step that leaves the sessions alone and finishes none.
LEMMA Leaves ==
  ASSUME Inv, TypeInv', UNCHANGED <<stored, kind, session, started>>,
         session # "none", listener' # "none",
         kind = "event" =>
           listener' # "up" /\ \A i \in 1..Len(mailbox') : mailbox'[i].cmd # "Finish"
  PROVE  KindInv'
  BY DEF Inv, KindInv

\* The calls of the clients.
LEMMA CallStep ==
  ASSUME Inv, NEW call, NEW bound, NEW m \in Command, m.cmd # "Finish", Forward(call, bound, m)
  PROVE  Inv' /\ stored' = stored
  <1>1. /\ started /\ UNCHANGED <<enrollType, stored, replies, at, started, mailed, users>>
        /\ mailbox' = Tell(m)
        /\ IF session = "none" THEN session' = "up" /\ listener' = "new" /\ kind' = "state"
                              ELSE UNCHANGED <<session, listener, kind>>
        BY DEF Forward, Find
  <1>2. TypeInv'
        BY <1>1, TellType DEF Inv, TypeInv
  <1>3. kind' = "event" => \A i \in 1..Len(mailbox') : mailbox'[i].cmd # "Finish"
        BY <1>1, TellKeeps DEF Inv, KindInv
  <1>4. KindInv'
        BY <1>1, <1>3 DEF Inv, KindInv
  <1> QED
      BY <1>1, <1>2, <1>4 DEF Inv

LEMMA StartFlowStep == Inv /\ StartFlow => Inv' /\ \A k \in {"state", "event"} : Stays(k)
  <1> SUFFICES ASSUME Inv, StartFlow PROVE Inv' /\ \A k \in {"state", "event"} : Stays(k)
      OBVIOUS
  <1> DEFINE first == Start(GivenName, GivenEmail)
  <1>1. /\ ~started /\ started' = TRUE /\ kind' = enrollType /\ session' = "up"
        /\ stored' = [stored EXCEPT ![enrollType] = EmptyState(Flow)]
        /\ \/ listener' = "new" /\ mailbox' = <<first>>
           \/ listener' = "asking" /\ mailbox' = <<Info, first>>
        /\ UNCHANGED <<enrollType, replies, at, mailed, users>>
        BY DEF StartFlow
  <1>2. EmptyState(Flow) \in AnySummary /\ ~EmptyState(Flow).finished
        BY EnrollAssumption, EmptyStateType
  <1>3. stored' \in [{"state", "event"} -> AnySummary] /\ \A k \in {"state", "event"} : ~stored'[k].finished
        BY <1>1, <1>2 DEF Inv, TypeInv, KindInv
  <1>4. GivenName \in Names /\ GivenEmail \in Names
        BY DEF Names
  <1>5. first \in Command /\ first.cmd = "Start" /\ Info \in Command /\ Info.cmd = "Info"
        BY <1>4, MessageType
  <1> HIDE DEF first
  <1>6. mailbox' \in Seq(Command) /\ \A i \in 1..Len(mailbox') : mailbox'[i].cmd # "Finish"
    <2>1. CASE mailbox' = <<first>>
      <3>1. Len(mailbox') = 1 /\ mailbox'[1] = first
            BY <2>1
      <3> QED
          BY <1>5, <2>1, <3>1
    <2>2. CASE mailbox' = <<Info, first>>
      <3>1. Len(mailbox') = 2 /\ mailbox'[1] = Info /\ mailbox'[2] = first
            BY <2>2
      <3> QED
          BY <1>5, <2>2, <3>1
    <2> QED
        BY <1>1, <2>1, <2>2
  <1>7. TypeInv'
        BY <1>1, <1>3, <1>6 DEF Inv, TypeInv
  <1>8. KindInv'
        BY <1>1, <1>3, <1>6 DEF KindInv
  <1> QED
      BY <1>1, <1>7, <1>8 DEF Inv, KindInv, Stays

\* The session executes a command.
LEMMA ExecuteStep == Inv /\ Execute => Inv' /\ \A k \in {"state", "event"} : Stays(k)
  <1> SUFFICES ASSUME Inv, Execute PROVE Inv' /\ \A k \in {"state", "event"} : Stays(k)
      OBVIOUS
  <1> DEFINE m == Head(mailbox)
             s == Executed(state, m)
  <1>1. /\ session = "up" /\ mailbox # <<>> /\ m.cmd \in Persisting /\ ~state.finished
        /\ stored' = [stored EXCEPT ![kind] = s] /\ mailbox' = Tail(mailbox)
        /\ replies' = (IF m.cmd = "UpdatePhase" THEN replies ELSE Reply(Success(s)))
        /\ UNCHANGED <<enrollType, kind, session, listener, at, started, mailed, users>>
        BY DEF Execute, IsFinished, Becomes, world
  <1>2. m \in Command /\ Tail(mailbox) \in Seq(Command) /\ state \in AnySummary
        BY <1>1, StateType DEF Inv, TypeInv
  <1>3. /\ s \in AnySummary
        /\ m.cmd # "Finish" => ~s.finished
        /\ m.cmd = "Finish" => s.phase = "FINISH_ACK"
        BY <1>1, <1>2, ExecutedType
  <1>4. Success(s) \in AnyReply
        BY <1>3 DEF Success, AnyReply
  <1> HIDE DEF s
  <1>5. replies' \in Seq(AnyReply)
        BY <1>1, <1>4, ReplyType DEF Inv, TypeInv
  <1>6. kind = "event" => m.cmd # "Finish" /\ \A i \in 1..Len(Tail(mailbox)) : Tail(mailbox)[i].cmd # "Finish"
    <2>1. mailbox \in Seq(Command)
          BY DEF Inv, TypeInv
    <2>2. SUFFICES ASSUME \A i \in 1..Len(mailbox) : mailbox[i].cmd # "Finish"
                   PROVE  m.cmd # "Finish" /\ \A i \in 1..Len(Tail(mailbox)) : Tail(mailbox)[i].cmd # "Finish"
          BY DEF Inv, KindInv
    <2> QED
        BY <1>1, <2>1, <2>2
  <1> HIDE DEF m
  <1>7. TypeInv'
        BY <1>1, <1>2, <1>3, <1>5 DEF Inv, TypeInv
  <1>8. /\ ~stored'["event"].finished
        /\ stored'["state"].finished => stored'["state"].phase = "FINISH_ACK"
        BY <1>1, <1>3, <1>6 DEF Inv, TypeInv, KindInv
  <1>9. KindInv'
        BY <1>1, <1>6, <1>8 DEF Inv, KindInv
  <1>10. \A k \in {"state", "event"} : Stays(k)
         BY <1>1 DEF Inv, TypeInv, Stays, state
  <1> QED
      BY <1>7, <1>9, <1>10 DEF Inv

\* What a crash makes of a session: it finishes none, and one that has
\* finished, which is not in START, stays if it is kept as state.
LEMMA RevivedType ==
  ASSUME NEW k, NEW s \in AnySummary
  PROVE  /\ Revived(k, s) \in AnySummary
         /\ ~s.finished => ~Revived(k, s).finished
         /\ s.phase # "START" /\ k # "event" => Revived(k, s) = s
  <1>1. <<"">> \in Seq(Phases)
        BY DEF Phases
  <1>2. EmptyState(<<"">>) \in AnySummary /\ ~EmptyState(<<"">>).finished
        BY <1>1, EmptyStateType
  <1>3. ASSUME NEW f \in Seq(Phases)
        PROVE  [s EXCEPT !.flow = f] \in AnySummary /\ [s EXCEPT !.flow = f].finished = s.finished
        BY DEF AnySummary
  <1>4. [s EXCEPT !.flow = <<"">>] \in AnySummary /\ [s EXCEPT !.flow = <<"">>].finished = s.finished
        BY <1>1, <1>3
  <1> QED
      BY <1>2, <1>4 DEF Revived

LEMMA CrashStep == Inv /\ Crash => Inv' /\ \A k \in {"state", "event"} : Stays(k)
  <1> SUFFICES ASSUME Inv, Crash PROVE Inv' /\ \A k \in {"state", "event"} : Stays(k)
      OBVIOUS
  <1> DEFINE revived(k) == Revived(k, stored[k])
  <1>1. /\ started /\ session' = "none" /\ listener' = "none" /\ mailbox' = <<>> /\ replies' = <<>>
        /\ at' = Nowhere /\ stored' = [k \in DOMAIN stored |-> revived(k)]
        /\ UNCHANGED <<enrollType, kind, started, mailed, users>>
        BY DEF Crash
  <1>4. stored["state"] \in AnySummary /\ stored["event"] \in AnySummary /\ DOMAIN stored = {"state", "event"}
        BY DEF Inv, TypeInv
  <1>5. revived("event") \in AnySummary /\ ~revived("event").finished
    <2>1. ~stored["event"].finished
          BY DEF Inv, KindInv
    <2> QED
        BY <1>4, <2>1, RevivedType
  <1>6. /\ revived("state") \in AnySummary
        /\ stored["state"].finished => revived("state") = stored["state"]
        /\ ~stored["state"].finished => ~revived("state").finished
        BY <1>4, RevivedType DEF Inv, KindInv
  <1> HIDE DEF revived
  <1>7. /\ stored' \in [{"state", "event"} -> AnySummary]
        /\ stored'["state"] = revived("state") /\ stored'["event"] = revived("event")
        BY <1>1, <1>4, <1>5, <1>6
  <1>8. TypeInv'
        BY <1>1, <1>7, NowhereType DEF Inv, TypeInv
  <1>9. KindInv'
        BY <1>1, <1>5, <1>6, <1>7 DEF Inv, KindInv
  <1> QED
      BY <1>6, <1>7, <1>8, <1>9 DEF Inv, KindInv, Stays

\* The session takes a message and changes nothing.
LEMMA TakeStep == Inv /\ (Reject \/ ExecuteContinue \/ ExecuteInfo \/ Ignore \/ NoMatch \/ PersistFailure)
                    => Inv' /\ stored' = stored
  <1> SUFFICES ASSUME Inv, Reject \/ ExecuteContinue \/ ExecuteInfo \/ Ignore \/ NoMatch \/ PersistFailure
               PROVE  Inv' /\ stored' = stored
      OBVIOUS
  <1>1. /\ UNCHANGED <<enrollType, stored, kind, at, started, mailed, users>>
        /\ session = "up" /\ session' \in {"up", "down"} /\ mailbox # <<>> /\ mailbox' \in {<<>>, Tail(mailbox)}
        /\ listener' = listener \/ (kind = "state" /\ listener' = "up")
    <2>1. UNCHANGED <<enrollType, stored, kind, at, started, mailed, users>>
          BY DEF Reject, ExecuteContinue, ExecuteInfo, Ignore, NoMatch, PersistFailure, world
    <2>2. session = "up" /\ session' \in {"up", "down"} /\ mailbox # <<>>
          BY DEF Reject, ExecuteContinue, ExecuteInfo, Ignore, NoMatch, PersistFailure, Receives
    <2>3. mailbox' = <<>> \/ mailbox' = Tail(mailbox)
          BY Zenon DEF Reject, ExecuteContinue, ExecuteInfo, Ignore, NoMatch, PersistFailure
    <2>4. listener' = listener \/ (kind = "state" /\ listener' = "up")
          BY DEF Reject, ExecuteContinue, ExecuteInfo, Ignore, NoMatch, PersistFailure
    <2> QED
        BY <2>1, <2>2, <2>3, <2>4
  <1>2. replies' \in Seq(AnyReply)
    <2>1. <<>> \in Seq(Phases)
          OBVIOUS
    <2>2. Error \in AnyReply
          BY <2>1, EmptyStateType DEF Error, AnyReply
    <2>3. Success(state) \in AnyReply
          BY StateType DEF Success, AnyReply, Inv
    <2>4. replies' \in {replies, Reply(Error), Reply(Success(state))}
          BY DEF Reject, ExecuteContinue, ExecuteInfo, Ignore, NoMatch, PersistFailure
    <2> QED
        BY <2>2, <2>3, <2>4, ReplyType DEF Inv, TypeInv
  <1>3. mailbox \in Seq(Command)
        BY DEF Inv, TypeInv
  <1>4. /\ mailbox' \in Seq(Command)
        /\ (\A i \in 1..Len(mailbox) : mailbox[i].cmd # "Finish")
             => \A i \in 1..Len(mailbox') : mailbox'[i].cmd # "Finish"
    <2>1. CASE mailbox' = <<>>
          BY <2>1
    <2>2. CASE mailbox' = Tail(mailbox)
          BY <1>1, <1>3, <2>2
    <2> QED
        BY <1>1, <2>1, <2>2
  <1>5. TypeInv'
        BY <1>1, <1>2, <1>4 DEF Inv, TypeInv
  <1>6. KindInv'
        BY <1>1, <1>4 DEF Inv, KindInv
  <1> QED
      BY <1>1, <1>5, <1>6 DEF Inv

\* The listener tells the session something.
LEMMA TellStep ==
  ASSUME Inv, listener = "up", NEW m \in Command, TellSession(m),
         users' \in Seq([email: Names, name: Names])
  PROVE  Inv' /\ stored' = stored
  <1>1. /\ mailbox' = Tell(m) /\ at' = Nowhere
        /\ UNCHANGED <<enrollType, stored, kind, session, listener, replies, started, mailed>>
        BY DEF TellSession
  <1>2. TypeInv'
        BY <1>1, TellType, NowhereType DEF Inv, TypeInv
  <1>3. KindInv'
        BY <1>1 DEF Inv, KindInv
  <1> QED
      BY <1>1, <1>2, <1>3 DEF Inv

\* The listener asks, waits, stops, or goes from phase to phase.
LEMMA ListenerStep == Inv /\ Listener => Inv' /\ stored' = stored
  <1> SUFFICES ASSUME Inv, Listener PROVE Inv' /\ stored' = stored
      OBVIOUS
  <1>1. CASE ListenerAsk
    <2>1. /\ listener = "new" /\ listener' = "asking" /\ mailbox' = Tell(Info)
          /\ UNCHANGED <<enrollType, stored, kind, session, replies, at, started, mailed, users>>
          BY <1>1 DEF ListenerAsk, world
    <2>2. TypeInv'
          BY <2>1, TellType, MessageType DEF Inv, TypeInv
    <2>3. kind = "event" => \A i \in 1..Len(mailbox') : mailbox'[i].cmd # "Finish"
          BY <2>1, TellKeeps, MessageType DEF Inv, KindInv
    <2>4. KindInv'
          BY <2>1, <2>3 DEF Inv, KindInv
    <2> QED
        BY <2>1, <2>2, <2>4 DEF Inv
  <1>2. CASE ListenerTimeout \/ ServiceLost
    <2>1. /\ listener # "none" /\ listener' = "down" /\ replies' = <<>>
          /\ UNCHANGED <<enrollType, stored, kind, session, mailbox, started>>
          BY <1>2 DEF ListenerTimeout, ServiceLost, At, world
    <2>2. at' \in [phase: Phases, summary: AnySummary]
          BY <1>2, NowhereType DEF ListenerTimeout, ServiceLost, Inv, TypeInv
    <2>3. NewUser \in [email: Names, name: Names]
          BY DEF NewUser, Inv, TypeInv, AnySummary
    <2>4. users' \in {users, Append(users, NewUser)}
          BY <1>2 DEF ListenerTimeout, ServiceLost, world
    <2>5. mailed' \in {mailed, mailed \cup {Mail}}
          BY <1>2 DEF ListenerTimeout, ServiceLost, world
    <2>6. TypeInv'
      <3>1. users' \in Seq([email: Names, name: Names])
        <4>1. users \in Seq([email: Names, name: Names])
              BY DEF Inv, TypeInv
        <4>2. Append(users, NewUser) \in Seq([email: Names, name: Names])
              BY <2>3, <4>1
        <4> QED
            BY <2>4, <4>1, <4>2
      <3>2. mailed' \subseteq [email: Names, token: Nat]
            BY <2>5, MailType DEF Inv, TypeInv
      <3> QED
          BY <2>1, <2>2, <3>1, <3>2 DEF Inv, TypeInv
    <2>7. KindInv'
          BY <2>1 DEF Inv, KindInv
    <2> QED
        BY <2>1, <2>6, <2>7 DEF Inv
  <1>3. CASE Receive \/ Advance \/ PhaseMail \/ PhaseRefused \/ PhaseDone
    <2>1. /\ listener = "up"
          /\ UNCHANGED <<enrollType, stored, kind, session, mailbox, listener, started, users>>
          BY <1>3 DEF Receive, Advance, PhaseMail, PhaseRefused, PhaseDone, At, world
    <2>2. replies' \in Seq(AnyReply)
      <3>1. CASE Receive
            BY <3>1 DEF Receive, Inv, TypeInv
      <3>2. CASE Advance \/ PhaseMail \/ PhaseRefused \/ PhaseDone
        <4>1. replies' = replies
              BY <3>2 DEF Advance, PhaseMail, PhaseRefused, PhaseDone
        <4> QED
            BY <4>1 DEF Inv, TypeInv
      <3> QED
          BY <1>3, <3>1, <3>2
    <2>3. at' \in [phase: Phases, summary: AnySummary]
      <3>1. CASE Receive
        <4>1. Head(replies) \in AnyReply
              BY <3>1 DEF Receive, Inv, TypeInv
        <4> QED
            BY <3>1, <4>1, NowhereType DEF Receive, AnyReply, AnySummary
      <3>2. CASE Advance \/ PhaseMail
        <4>1. PICK p : Enter(NextPhase(p))
              BY <3>2 DEF Advance, PhaseMail
        <4> QED
            BY <4>1, NextPhaseType, EnterType DEF Inv
      <3>3. CASE PhaseRefused \/ PhaseDone
            BY <3>3, NowhereType DEF PhaseRefused, PhaseDone
      <3> QED
          BY <1>3, <3>1, <3>2, <3>3
    <2>4. mailed' \in {mailed, mailed \cup {Mail}}
          BY <1>3 DEF Receive, Advance, PhaseMail, PhaseRefused, PhaseDone, world
    <2>5. mailed' \subseteq [email: Names, token: Nat]
          BY <2>4, MailType DEF Inv, TypeInv
    <2>6. TypeInv'
          BY <2>1, <2>2, <2>3, <2>5 DEF Inv, TypeInv
    <2>7. KindInv'
          BY <2>1 DEF Inv, KindInv
    <2> QED
        BY <2>1, <2>6, <2>7 DEF Inv
  <1>4. CASE PhaseStart
    <2>1. PICK m \in {Start(GivenName, GivenEmail), Start(Blank, Blank)} : TellSession(m)
          BY <1>4 DEF PhaseStart
    <2>2. m \in Command
          BY MessageType DEF Names
    <2>3. listener = "up" /\ users' = users
          BY <1>4 DEF PhaseStart, At
    <2> QED
        BY <2>1, <2>2, <2>3, TellStep DEF Inv, TypeInv
  <1>5. CASE PhaseEmail
    <2>1. PICK p \in {"EMAIL", "CONFIRM_EMAIL"} : TellSession(UpdatePhase(p))
          BY <1>5 DEF PhaseEmail
    <2>2. UpdatePhase(p) \in Command
          BY MessageType DEF Phases
    <2>3. listener = "up" /\ users' = users
          BY <1>5 DEF PhaseEmail, At
    <2> QED
        BY <2>1, <2>2, <2>3, TellStep DEF Inv, TypeInv
  <1>6. CASE PhaseCreateUser
    <2>1. NewUser \in [email: Names, name: Names]
          BY DEF NewUser, Inv, TypeInv, AnySummary
    <2>2. users' \in Seq([email: Names, name: Names])
          BY <1>6, <2>1 DEF PhaseCreateUser, Inv, TypeInv
    <2>3. CreateUser(Len(users')) \in Command
          BY <2>2, MessageType
    <2>4. listener = "up" /\ TellSession(CreateUser(Len(users')))
          BY <1>6 DEF PhaseCreateUser, At
    <2> QED
        BY <2>2, <2>3, <2>4, TellStep
  <1>7. CASE PhaseFinish
    <2>1. listener = "up" /\ users' = users /\ TellSession(Finish)
          BY <1>7 DEF PhaseFinish, At
    <2> QED
        BY <2>1, MessageType, TellStep DEF Inv, TypeInv
  <1> QED
      BY <1>1, <1>2, <1>3, <1>4, <1>5, <1>6, <1>7 DEF Listener

LEMMA InvStep == Inv /\ [Next]_vars => Inv' /\ \A k \in {"state", "event"} : Stays(k)
  <1> SUFFICES ASSUME Inv, [Next]_vars PROVE Inv' /\ \A k \in {"state", "event"} : Stays(k)
      OBVIOUS
  <1>1. stored' = stored => \A k \in {"state", "event"} : Stays(k)
        BY DEF Stays
  <1>2. CASE StartFlow
        BY <1>2, StartFlowStep
  <1>3. CASE ContinueFlow
        BY <1>1, <1>3, CallStep, MessageType DEF ContinueFlow
  <1>4. CASE AddEmailCall
    <2>1. PICK e \in Emails : Forward("emails", MaxEmails, AddEmail(e))
          BY <1>4 DEF AddEmailCall
    <2>2. AddEmail(e) \in Command /\ AddEmail(e).cmd # "Finish"
          BY MessageType DEF Names
    <2> QED
        BY <1>1, <2>1, <2>2, CallStep
  <1>5. CASE ConfirmEmailCall
    <2>1. PICK t \in {m.token : m \in mailed} \cup {MaxEmails + 1} :
                 Forward("confirms", MaxConfirms, ConfirmEmail(t))
          BY <1>5 DEF ConfirmEmailCall
    <2>2. ConfirmEmail(t) \in Command /\ ConfirmEmail(t).cmd # "Finish"
      <3>1. t \in Nat
            BY EnrollAssumption DEF Inv, TypeInv
      <3> QED
          BY <3>1, MessageType
    <2> QED
        BY <1>1, <2>1, <2>2, CallStep
  <1>6. CASE GetSummary
    <2>1. /\ session = "none" /\ started /\ session' = "up" /\ listener' = "new" /\ kind' = enrollType
          /\ UNCHANGED <<enrollType, stored, mailbox, replies, at, started, mailed, users>>
          BY <1>6 DEF GetSummary, Find
    <2>2. mailbox = <<>> /\ Len(mailbox) = 0
          BY <2>1 DEF Inv, KindInv
    <2>3. TypeInv'
          BY <2>1 DEF Inv, TypeInv
    <2>4. KindInv'
          BY <2>1, <2>2 DEF Inv, KindInv
    <2> QED
        BY <1>1, <2>1, <2>3, <2>4 DEF Inv
  <1>7. CASE Execute
        BY <1>7, ExecuteStep
  <1>8. CASE Reject \/ ExecuteContinue \/ ExecuteInfo \/ Ignore \/ NoMatch \/ PersistFailure
        BY <1>1, <1>8, TakeStep
  <1>9. CASE Listener
        BY <1>1, <1>9, ListenerStep
  <1>10. CASE Crash
         BY <1>10, CrashStep
  <1>11. CASE UNCHANGED vars
    <2>1. UNCHANGED <<enrollType, stored, kind, session, listener, mailbox, replies, at, started, mailed, users>>
          BY <1>11 DEF vars, actors, world
    <2> QED
        BY <1>1, <2>1 DEF Inv, TypeInv, KindInv
  <1> QED
      BY <1>2, <1>3, <1>4, <1>5, <1>6, <1>7, <1>8, <1>9, <1>10, <1>11 DEF Next, Session

\* A session that has finished stays as it is, for ever: whatever clients still
\* ask for, whatever the listener still sends, wherever the process crashes.
THEOREM FinishedStays == Spec => FinishedForever
  <1>1. Inv => DOMAIN stored = {"state", "event"}
        BY DEF Inv, TypeInv
  <1>2. Inv /\ [Next]_vars => [\A k \in DOMAIN stored : stored[k].finished => stored'[k] = stored[k]]_vars
        BY <1>1, InvStep DEF Stays
  <1>3. Inv /\ [Next]_vars => Inv'
        BY InvStep
  <1> QED
      BY <1>2, <1>3, InvInit, PTL DEF Spec, FinishedForever

-----------------------------------------------------------------------------
(* Queues: their elements, and how many of them are in a set               *)
\* The elements of a queue, and how many of them are in S.
Ent(q) == {q[i] : i \in 1..Len(q)}
Where(q, S) == {i \in 1..Len(q) : q[i] \in S}
Count(q, S) == Cardinality(Where(q, S))

LEMMA EntEmpty == Ent(<<>>) = {} /\ \A S : Count(<<>>, S) = 0
  <1>1. \A S : Where(<<>>, S) = {}
        BY DEF Where
  <1> QED
      BY <1>1, FS_EmptySet DEF Ent, Count

LEMMA WhereFinite ==
  ASSUME NEW T, NEW q \in Seq(T), NEW S PROVE IsFiniteSet(Where(q, S)) /\ Count(q, S) \in Nat
  <1>1. IsFiniteSet(1..Len(q))
        BY FS_Interval
  <1>2. IsFiniteSet(Where(q, S))
        BY <1>1, FS_Subset DEF Where
  <1> QED
      BY <1>2, FS_CardinalityType DEF Count

LEMMA EntAppend ==
  ASSUME NEW T, NEW q \in Seq(T), NEW e \in T, NEW S
  PROVE  /\ Ent(Append(q, e)) = Ent(q) \cup {e}
         /\ Count(Append(q, e), S) = Count(q, S) + (IF e \in S THEN 1 ELSE 0)
  <1> DEFINE t == Append(q, e)
             n == Len(q) + 1
  <1>1. /\ Len(q) \in Nat /\ Len(t) = n /\ t[n] = e
        /\ \A i \in 1..Len(q) : t[i] = q[i]
        OBVIOUS
  <1> HIDE DEF t
  <1>2. \A i : i \in 1..Len(t) <=> i \in 1..Len(q) \/ i = n
        BY <1>1
  <1>3. ASSUME NEW x \in Ent(t) PROVE x \in Ent(q) \cup {e}
        BY <1>1, <1>2 DEF Ent
  <1>4. ASSUME NEW x \in Ent(q) PROVE x \in Ent(t)
        BY <1>1, <1>2 DEF Ent
  <1>5. e \in Ent(t)
        BY <1>1, <1>2 DEF Ent
  <1>6. n \notin Where(q, S) /\ Where(t, S) = (IF e \in S THEN Where(q, S) \cup {n} ELSE Where(q, S))
        BY <1>1, <1>2 DEF Where
  <1>7. IsFiniteSet(Where(q, S)) /\ Count(q, S) \in Nat
        BY WhereFinite
  <1>8. Count(t, S) = Count(q, S) + (IF e \in S THEN 1 ELSE 0)
    <2>1. Cardinality(Where(q, S) \cup {n}) = Count(q, S) + 1
          BY <1>6, <1>7, FS_AddElement DEF Count
    <2> QED
        BY <1>6, <1>7, <2>1 DEF Count
  <1> QED
      BY <1>3, <1>4, <1>5, <1>8 DEF t

LEMMA EntTail ==
  ASSUME NEW T, NEW q \in Seq(T), q # <<>>, NEW S
  PROVE  /\ Ent(q) = {Head(q)} \cup Ent(Tail(q))
         /\ Count(q, S) = Count(Tail(q), S) + (IF Head(q) \in S THEN 1 ELSE 0)
  <1> DEFINE t == Tail(q)
             later == Where(q, S) \ {1}
             f == [i \in Where(t, S) |-> i + 1]
  <1>1. /\ t \in Seq(T) /\ Len(q) \in Nat /\ Len(q) >= 1 /\ Len(t) = Len(q) - 1 /\ Head(q) = q[1]
        /\ \A i \in 1..Len(t) : t[i] = q[i + 1]
        OBVIOUS
  <1> HIDE DEF t
  <1>2. \A i \in 1..Len(q) : i = 1 \/ (i - 1 \in 1..Len(t) /\ t[i - 1] = q[i])
    <2>1. SUFFICES ASSUME NEW i \in 1..Len(q), i # 1 PROVE i - 1 \in 1..Len(t) /\ t[i - 1] = q[i]
          OBVIOUS
    <2>2. i - 1 \in 1..Len(t) /\ (i - 1) + 1 = i
          BY <1>1, <2>1
    <2>3. t[i - 1] = q[(i - 1) + 1]
          BY <1>1, <2>2
    <2> QED
        BY <2>2, <2>3
  <1>3. 1 \in 1..Len(q) /\ \A i \in 1..Len(t) : i + 1 \in 1..Len(q) /\ i + 1 # 1
        BY <1>1
  <1>4. Ent(q) = {Head(q)} \cup Ent(t)
    <2>1. ASSUME NEW x \in Ent(q) PROVE x \in {Head(q)} \cup Ent(t)
          BY <1>1, <1>2 DEF Ent
    <2>2. ASSUME NEW x \in {Head(q)} \cup Ent(t) PROVE x \in Ent(q)
          BY <1>1, <1>3 DEF Ent
    <2> QED
        BY <2>1, <2>2
  <1>5. f \in Bijection(Where(t, S), later)
    <2>1. \A i \in Where(t, S) : i + 1 \in later
          BY <1>1, <1>3 DEF Where
    <2>2. f \in [Where(t, S) -> later]
          BY <2>1
    <2>3. \A i, k \in Where(t, S) : f[i] = f[k] => i = k
          BY DEF Where
    <2>4. ASSUME NEW k \in later PROVE \E i \in Where(t, S) : f[i] = k
      <3>1. k \in 1..Len(q) /\ k # 1 /\ q[k] \in S
            BY DEF Where
      <3>2. k - 1 \in Where(t, S)
            BY <1>2, <3>1 DEF Where
      <3>3. f[k - 1] = k
            BY <3>1, <3>2
      <3> QED
          BY <3>2, <3>3
    <2>5. f \in Injection(Where(t, S), later)
          BY <2>2, <2>3 DEF Injection, IsInjective
    <2>6. f \in Surjection(Where(t, S), later)
          BY <2>2, <2>4 DEF Surjection
    <2> QED
        BY <2>5, <2>6 DEF Bijection
  <1>6. Cardinality(later) = Count(t, S)
    <2>1. ExistsBijection(Where(t, S), later)
          BY <1>5 DEF ExistsBijection
    <2> QED
        BY <1>1, <2>1, WhereFinite, FS_Bijection DEF Count
  <1>7. IsFiniteSet(Where(q, S)) /\ Count(q, S) \in Nat
        BY WhereFinite
  <1>8. Cardinality(later) = IF 1 \in Where(q, S) THEN Count(q, S) - 1 ELSE Count(q, S)
        BY <1>7, FS_RemoveElement DEF Count
  <1>9. 1 \in Where(q, S) <=> Head(q) \in S
        BY <1>1, <1>3 DEF Where
  <1> QED
      BY <1>4, <1>6, <1>7, <1>8, <1>9 DEF t

-----------------------------------------------------------------------------
(* The messages and the work on their way                                *)
\* The session that is kept as state, the messages on their way to the session,
\* and what the listener works on, or will when it reads its replies.
Kept == stored["state"]
Box == Ent(mailbox)
Item(s) == [phase |-> s.phase, summary |-> s]
Work == {at} \cup {Item(r.summary) : r \in {x \in Ent(replies) : x.ok /\ kind = "state"}}

\* A crash in START makes a session forget its flow, and with it every phase
\* that would create a user.
NoFlow == <<"">>
NoPhase == ""
HasFlow == Kept.flow # NoFlow

SessionPhases == {"START", "START_ACK", "EMAIL", "EMAIL_ACK", "CONFIRM_EMAIL", "CONFIRM_EMAIL_ACK",
                  "CREATE_USER_ACK", "FINISH_ACK"}

BaseInv ==
  /\ session \in {"none", "up", "down"} /\ listener \in {"none", "new", "asking", "up", "down"}
  /\ args \in BOOLEAN /\ started \in BOOLEAN
  /\ calls \in [emails: 0..MaxEmails, confirms: 0..MaxConfirms, continues: 0..MaxContinues]
  /\ crashes \in 0..MaxCrashes /\ failures \in 0..MaxFailures
  /\ session = "none" => replies = <<>> /\ at = Nowhere
  /\ ~started => mailed = {} /\ users = <<>>
  /\ session = "down" => kind = "event"
  /\ kind = "event" => enrollType = "event"
  /\ HasFlow => enrollType = "state" /\ Kept.flow = Flow
  /\ \A k \in {"state", "event"} : stored[k].phase \in SessionPhases
  /\ \A m \in Box : m.cmd = "UpdatePhase" => m.phase \in {"EMAIL", "CONFIRM_EMAIL"}

LEMMA LenOne == \A x : Len(<<x>>) = 1
  OBVIOUS

LEMMA NextIndex ==
  ASSUME TypeInv, NEW p
  PROVE  \/ NextPhase(p) = NoPhase
         \/ \E n \in 1..(Len(state.flow) - 1) : state.flow[n] = p /\ NextPhase(p) = state.flow[n + 1]
  <1> DEFINE flow == state.flow
             here == {i \in 1..Len(flow) : flow[i] = p /\ \A j \in 1..(i - 1) : flow[j] # p}
             n == CHOOSE i \in here : TRUE
  <1>1. flow \in Seq(Phases)
        BY StateType DEF AnySummary
  <1>2. NextPhase(p) = IF \E i \in here : i < Len(flow) THEN flow[n + 1] ELSE ""
        BY DEF NextPhase, flow
  <1> HIDE DEF flow
  <1>3. ASSUME NEW i \in here, i < Len(flow)
        PROVE  n \in 1..(Len(flow) - 1) /\ flow[n] = p
    <2>1. n \in here
          BY <1>3
    <2>2. n = i
          BY <1>1, <1>3, <2>1
    <2> QED
        BY <1>1, <1>3, <2>1, <2>2
  <1>4. SUFFICES ASSUME NEW i \in here, i < Len(flow)
                 PROVE  \E k \in 1..(Len(flow) - 1) : flow[k] = p /\ NextPhase(p) = flow[k + 1]
        BY <1>2, Zenon DEF flow, NoPhase
  <1>5. NextPhase(p) = flow[n + 1] /\ n \in 1..(Len(flow) - 1) /\ flow[n] = p
        BY <1>2, <1>3, <1>4
  <1> HIDE DEF n
  <1> QED
      BY <1>5

\* The phases the listener goes on to, if the flow is in order.
LEMMA NextInOrder ==
  ASSUME OrderedFlow, TypeInv, kind = "state", HasFlow => Kept.flow = Flow, NEW p, NextPhase(p) # NoPhase
  PROVE  /\ HasFlow
         /\ NextPhase(p) # "START"
         /\ NextPhase(p) = "START_ACK" => p = "START"
         /\ NextPhase(p) = "EMAIL_ACK" => p = "EMAIL"
         /\ NextPhase(p) = "CONFIRM_EMAIL_ACK" => p = "CONFIRM_EMAIL"
         /\ NextPhase(p) = "CREATE_USER" => p = "CONFIRM_EMAIL_ACK"
         /\ NextPhase(p) = "CREATE_USER_ACK" => p = "CREATE_USER"
         /\ NextPhase(p) = "FINISH" => p = "CREATE_USER_ACK"
         /\ NextPhase(p) = "FINISH_ACK" => p = "FINISH"
  <1>1. PICK n \in 1..(Len(state.flow) - 1) : state.flow[n] = p /\ NextPhase(p) = state.flow[n + 1]
        BY NextIndex
  <1>2. state.flow = Kept.flow
        BY DEF state, Kept
  <1>3. Kept.flow # NoFlow
    <2>1. Len(NoFlow) = 1
          BY Zenon, LenOne DEF NoFlow
    <2>2. 1..0 = {}
          OBVIOUS
    <2> QED
        BY <1>1, <1>2, <2>1, <2>2
  <1>4. HasFlow /\ Kept.flow = Flow
        BY <1>3 DEF HasFlow
  <1>5. n \in 1..(Len(Flow) - 1) /\ Flow[n] = p /\ NextPhase(p) = Flow[n + 1]
        BY <1>1, <1>2, <1>4
  <1>6. Len(Flow) \in Nat
        BY EnrollAssumption
  <1>7. n + 1 \in 2..Len(Flow)
        BY <1>5, <1>6
  <1>11. ASSUME NEW q, NEW r, FollowsOnly(q, r), NextPhase(p) = q PROVE p = r
         BY <1>5, <1>11 DEF FollowsOnly
  <1>12. NextPhase(p) # "START"
         BY <1>5, <1>7 DEF OrderedFlow
  <1> QED
      BY <1>4, <1>11, <1>12 DEF OrderedFlow

\* What becomes of the two queues.
LEMMA TellBox ==
  ASSUME TypeInv, NEW m \in Command, mailbox' = Tell(m), NEW S
  PROVE  /\ Box' \subseteq Box \cup {m}
         /\ Count(mailbox', S) \in Nat
         /\ Count(mailbox', S) <= Count(mailbox, S) + (IF m \in S THEN 1 ELSE 0)
  <1>1. mailbox \in Seq(Command) /\ mailbox' \in Seq(Command)
        BY TellType DEF TypeInv
  <1>2. Count(mailbox, S) \in Nat /\ Count(mailbox', S) \in Nat
        BY <1>1, WhereFinite
  <1>3. Box' = Ent(mailbox')
        BY DEF Box, Ent
  <1>4. CASE mailbox' = mailbox
        BY <1>2, <1>3, <1>4 DEF Box
  <1>5. CASE mailbox' = Append(mailbox, m)
        BY <1>1, <1>2, <1>3, <1>5, EntAppend DEF Box
  <1> QED
      BY <1>4, <1>5 DEF Tell

LEMMA TakeBox ==
  ASSUME TypeInv, mailbox # <<>>, mailbox' \in {<<>>, Tail(mailbox)}, NEW S
  PROVE  /\ Box' \subseteq Box /\ Head(mailbox) \in Box
         /\ Count(mailbox', S) \in Nat
         /\ Count(mailbox', S) + (IF Head(mailbox) \in S THEN 1 ELSE 0) <= Count(mailbox, S)
  <1>1. mailbox \in Seq(Command) /\ Tail(mailbox) \in Seq(Command)
        BY DEF TypeInv
  <1>2. Count(mailbox, S) \in Nat /\ Count(Tail(mailbox), S) \in Nat
        BY <1>1, WhereFinite
  <1>3. Ent(<<>>) = {} /\ Count(<<>>, S) = 0
        BY EntEmpty
  <1>4. /\ Ent(mailbox) = {Head(mailbox)} \cup Ent(Tail(mailbox))
        /\ Count(mailbox, S) = Count(Tail(mailbox), S) + (IF Head(mailbox) \in S THEN 1 ELSE 0)
        BY <1>1, EntTail
  <1>5. Box' = Ent(mailbox') /\ Box = Ent(mailbox)
        BY DEF Box, Ent
  <1>6. CASE mailbox' = <<>>
        BY <1>2, <1>3, <1>4, <1>5, <1>6
  <1>7. CASE mailbox' = Tail(mailbox)
        BY <1>2, <1>4, <1>5, <1>7
  <1> QED
      BY <1>6, <1>7

LEMMA ReplyWork ==
  ASSUME TypeInv, NEW r \in AnyReply, replies' = Reply(r), at' = at, kind' = kind, NEW S
  PROVE  /\ Ent(replies') \subseteq Ent(replies) \cup {r}
         /\ Work' \subseteq Work \cup {Item(r.summary)}
         /\ ~r.ok \/ kind # "state" => Work' \subseteq Work
         /\ Count(replies', S) \in Nat
         /\ Count(replies', S) <= Count(replies, S) + (IF r \in S THEN 1 ELSE 0)
  <1>1. replies \in Seq(AnyReply) /\ replies' \in Seq(AnyReply)
        BY ReplyType DEF TypeInv
  <1>2. Count(replies, S) \in Nat /\ Count(replies', S) \in Nat
        BY <1>1, WhereFinite
  <1>3. /\ Ent(replies') \subseteq Ent(replies) \cup {r}
        /\ Count(replies', S) <= Count(replies, S) + (IF r \in S THEN 1 ELSE 0)
    <2>1. CASE replies' = replies
          BY <1>2, <2>1
    <2>2. CASE replies' = Append(replies, r)
          BY <1>1, <1>2, <2>2, EntAppend
    <2> QED
        BY <2>1, <2>2 DEF Reply
  <1>4. Work' = {at} \cup {Item(x.summary) : x \in {y \in Ent(replies') : y.ok /\ kind = "state"}}
        BY DEF Work, Item, Ent
  <1> QED
      BY <1>2, <1>3, <1>4 DEF Work

\* Between two steps of the manager nothing changes of the session's actor and
\* of what was asked for.
LEMMA BaseInit == Init => BaseInv
  <1> SUFFICES ASSUME Init PROVE BaseInv
      OBVIOUS
  <1>1. /\ session = "none" /\ listener = "none" /\ args = FALSE /\ started = FALSE
        /\ kind = enrollType /\ replies = <<>> /\ at = Nowhere /\ mailbox = <<>>
        /\ calls = [emails |-> 0, confirms |-> 0, continues |-> 0] /\ crashes = 0 /\ failures = 0
        /\ mailed = {} /\ users = <<>>
        BY DEF Init
  <1>2. /\ stored = [k \in {"state", "event"} |-> EmptyState(NoFlow)]
        /\ EmptyState(NoFlow).phase = "START" /\ EmptyState(NoFlow).flow = NoFlow
        BY Zenon DEF Init, EmptyState, NoFlow
  <1>3. ~HasFlow /\ \A k \in {"state", "event"} : stored[k].phase \in SessionPhases
        BY <1>2 DEF HasFlow, Kept, SessionPhases
  <1>4. Box = {}
        BY <1>1, EntEmpty DEF Box
  <1>5. calls \in [emails: 0..MaxEmails, confirms: 0..MaxConfirms, continues: 0..MaxContinues]
        BY <1>1, EnrollAssumption
  <1>6. crashes \in 0..MaxCrashes /\ failures \in 0..MaxFailures
        BY <1>1, EnrollAssumption
  <1>7. session # "down" /\ kind \in {"state", "event"}
        BY <1>1, EnrollAssumption DEF Init
  <1> QED
      BY <1>1, <1>3, <1>4, <1>5, <1>6, <1>7 DEF BaseInv

\* A step of the session or of the listener, where it leaves the persisted
\* session alone.
LEMMA BaseAside ==
  ASSUME BaseInv, session # "none", session' \in {"up", "down"}, session' = "down" => kind = "event" \/ session = "down",
         listener' \in {"none", "new", "asking", "up", "down"},
         UNCHANGED <<enrollType, stored, kind, args, started, calls, crashes>>,
         failures' = failures \/ (failures < MaxFailures /\ failures' = failures + 1),
         ~started => mailed' = {} /\ users' = <<>>,
         \A m \in Box' : m \in Box \/ (m.cmd = "UpdatePhase" => m.phase \in {"EMAIL", "CONFIRM_EMAIL"})
  PROVE  BaseInv'
  <1>1. HasFlow' = HasFlow /\ Kept' = Kept
        BY DEF HasFlow, Kept
  <1>2. failures' \in 0..MaxFailures
        BY EnrollAssumption DEF BaseInv
  <1>3. /\ session' \in {"none", "up", "down"} /\ listener' \in {"none", "new", "asking", "up", "down"}
        /\ args' \in BOOLEAN /\ started' \in BOOLEAN
        /\ calls' \in [emails: 0..MaxEmails, confirms: 0..MaxConfirms, continues: 0..MaxContinues]
        /\ crashes' \in 0..MaxCrashes
        BY DEF BaseInv
  <1>4. /\ ~(session' = "none")
        /\ ~started' => mailed' = {} /\ users' = <<>>
        /\ session' = "down" => kind' = "event"
        /\ kind' = "event" => enrollType' = "event"
        /\ HasFlow' => enrollType' = "state" /\ Kept'.flow = Flow
        BY <1>1 DEF BaseInv
  <1>5. \A k \in {"state", "event"} : stored'[k].phase \in SessionPhases
        BY DEF BaseInv
  <1>6. \A m \in Box' : m.cmd = "UpdatePhase" => m.phase \in {"EMAIL", "CONFIRM_EMAIL"}
        BY DEF BaseInv
  <1> QED
      BY <1>2, <1>3, <1>4, <1>5, <1>6 DEF BaseInv

\* What executing a command makes of a session, beyond its type.
LEMMA ExecutedFields ==
  ASSUME NEW s \in AnySummary, NEW m \in Command, m.cmd \in Persisting,
         m.cmd = "UpdatePhase" => m.phase \in {"EMAIL", "CONFIRM_EMAIL"}
  PROVE  LET x == Executed(s, m) IN
         /\ x.flow = s.flow /\ x.phase \in SessionPhases \ {"START"}
         /\ m.cmd = "AddEmail" => x.phase = "EMAIL_ACK" /\ x.email = m.email /\ x.token = s.token + 1
         /\ m.cmd # "AddEmail" => x.token = s.token /\ x.phase # "EMAIL_ACK"
         /\ m.cmd \notin {"AddEmail", "Start"} => x.email = s.email
         /\ x.phase = "CONFIRM_EMAIL_ACK" => m.cmd = "ConfirmEmail"
         /\ m.cmd = "CreateUser" => x.uid = m.uid
         /\ m.cmd # "CreateUser" => x.uid = s.uid /\ x.phase # "CREATE_USER_ACK"
         /\ m.cmd # "Finish" => x.finished = s.finished
  <1> DEFINE x == Executed(s, m)
  <1>1. CASE m.cmd = "Start"
    <2>1. x = StateStart(s, m.name, m.email)
          BY <1>1 DEF Executed
    <2>2. x.flow = s.flow /\ x.phase = "START_ACK" /\ x.token = s.token /\ x.uid = s.uid /\ x.finished = s.finished
          BY <2>1 DEF StateStart, AnySummary
    <2> QED
        BY <1>1, <2>2 DEF SessionPhases
  <1>2. CASE m.cmd = "AddEmail"
    <2>1. x = StateAddEmail(s, m.email, NewToken(s))
          BY <1>2 DEF Executed
    <2>2. /\ x.flow = s.flow /\ x.phase = "EMAIL_ACK" /\ x.token = s.token + 1 /\ x.email = m.email
          /\ x.uid = s.uid /\ x.finished = s.finished
          BY <2>1 DEF StateAddEmail, AnySummary, NewToken
    <2> QED
        BY <1>2, <2>2 DEF SessionPhases
  <1>3. CASE m.cmd = "ConfirmEmail"
    <2>1. x = StateConfirmEmail(s)
          BY <1>3 DEF Executed
    <2>2. /\ x.flow = s.flow /\ x.phase = "CONFIRM_EMAIL_ACK" /\ x.token = s.token /\ x.email = s.email
          /\ x.uid = s.uid /\ x.finished = s.finished
          BY <2>1 DEF StateConfirmEmail, AnySummary
    <2> QED
        BY <1>3, <2>2 DEF SessionPhases
  <1>4. CASE m.cmd = "UpdatePhase"
    <2>1. x = StateUpdatePhase(s, m.phase)
          BY <1>4 DEF Executed
    <2>2. /\ x.flow = s.flow /\ x.phase = m.phase /\ x.token = s.token /\ x.email = s.email
          /\ x.uid = s.uid /\ x.finished = s.finished
          BY <2>1 DEF StateUpdatePhase, AnySummary
    <2> QED
        BY <1>4, <2>2 DEF SessionPhases
  <1>5. CASE m.cmd = "CreateUser"
    <2>1. x = StateCreateUser(s, m.uid)
          BY <1>5 DEF Executed
    <2>2. /\ x.flow = s.flow /\ x.phase = "CREATE_USER_ACK" /\ x.token = s.token /\ x.email = s.email
          /\ x.uid = m.uid /\ x.finished = s.finished
          BY <2>1 DEF StateCreateUser, AnySummary
    <2> QED
        BY <1>5, <2>2 DEF SessionPhases
  <1>6. CASE m.cmd = "Finish"
    <2>1. x = StateFinish(s)
          BY <1>6 DEF Executed
    <2>2. /\ x.flow = s.flow /\ x.phase = "FINISH_ACK" /\ x.token = s.token /\ x.email = s.email
          /\ x.uid = s.uid
          BY <2>1 DEF StateFinish, AnySummary
    <2> QED
        BY <1>6, <2>2 DEF SessionPhases
  <1> QED
      BY <1>1, <1>2, <1>3, <1>4, <1>5, <1>6 DEF Persisting

\* No write failed, or nobody continued the session.
Plain == failures = 0 \/ calls.continues = 0
Vouched(e) == \E t \in Ent(confirmed) : [email |-> e, token |-> t] \in mailed

Grows == (failures' = 0 => failures = 0) /\ (calls'.continues = 0 => calls.continues = 0)

\* Where the persisted session stays as it is, some messages are sent to it and
\* the listener gets some work.
Adds(ms, ws) ==
  /\ Kept' = Kept /\ kind' \in {"state", "event"} /\ Grows
  /\ Box' \subseteq Box \cup ms
  /\ Work' \subseteq Work \cup ws
  /\ mailed \subseteq mailed' /\ confirmed' = confirmed

LEMMA CountersGrow ==
  ASSUME BaseInv, failures' \in {failures, failures + 1},
         calls'.continues \in {calls.continues, calls.continues + 1}
  PROVE  Grows
  <1>1. failures \in Nat /\ calls.continues \in Nat
        BY EnrollAssumption DEF BaseInv
  <1> QED
      BY <1>1 DEF Grows

LEMMA CallAdds ==
  ASSUME Inv, BaseInv, NEW call \in {"emails", "confirms", "continues"}, NEW bound, NEW m \in Command,
         Forward(call, bound, m)
  PROVE  Adds({m}, {}) /\ UNCHANGED <<mailed, users, failures>>
  <1>1. /\ UNCHANGED <<enrollType, stored, replies, at, started, mailed, users, confirmed, failures>>
        /\ mailbox' = Tell(m)
        /\ IF session = "none" THEN session' = "up" /\ listener' = "new" /\ kind' = "state"
                              ELSE UNCHANGED <<session, listener, kind>>
        /\ calls' = [calls EXCEPT ![call] = @ + 1]
        BY DEF Forward, Find
  <1>2. calls'.continues \in {calls.continues, calls.continues + 1}
    <2>1. calls \in [emails: 0..MaxEmails, confirms: 0..MaxConfirms, continues: 0..MaxContinues]
          BY DEF BaseInv
    <2>2. CASE call = "continues"
          BY <1>1, <2>1, <2>2
    <2>3. CASE call # "continues"
          BY <1>1, <2>1, <2>3
    <2> QED
        BY <2>2, <2>3
  <1>3. Grows
        BY <1>1, <1>2, CountersGrow
  <1>4. Kept' = Kept
        BY <1>1 DEF Kept
  <1>5. Box' \subseteq Box \cup {m}
        BY <1>1, TellBox DEF Inv
  <1>6. kind' \in {"state", "event"} /\ Work' \subseteq Work
    <2>1. CASE session = "none"
      <3>1. replies = <<>> /\ Ent(replies) = {}
            BY <2>1, EntEmpty DEF BaseInv
      <3> QED
          BY <1>1, <2>1, <3>1 DEF Work, Ent
    <2>2. CASE session # "none"
          BY <1>1, <2>2 DEF Work, Ent, Inv, TypeInv
    <2> QED
        BY <2>1, <2>2
  <1> QED
      BY <1>1, <1>3, <1>4, <1>5, <1>6 DEF Adds

LEMMA GetSummaryAdds ==
  ASSUME Inv, BaseInv, GetSummary
  PROVE  Adds({}, {}) /\ UNCHANGED <<mailed, users, failures, mailbox>>
  <1>1. /\ session = "none" /\ kind' = enrollType
        /\ UNCHANGED <<stored, replies, at, mailed, users, confirmed, failures, mailbox, calls>>
        BY DEF GetSummary, Find
  <1>2. replies = <<>> /\ Ent(replies) = {}
        BY <1>1, EntEmpty DEF BaseInv
  <1>3. Kept' = Kept /\ Box' = Box
        BY <1>1 DEF Kept, Box, Ent
  <1>4. Work' \subseteq Work
        BY <1>1, <1>2 DEF Work, Ent
  <1>5. Grows
        BY <1>1 DEF Grows
  <1> QED
      BY <1>1, <1>3, <1>4, <1>5 DEF Adds, Inv, TypeInv

LEMMA TakeAdds ==
  ASSUME Inv, BaseInv, Reject \/ ExecuteInfo \/ Ignore \/ NoMatch \/ PersistFailure
  PROVE  Adds({}, {}) /\ UNCHANGED <<mailed, users, calls>>
  <1>1. /\ UNCHANGED <<stored, kind, at, mailed, users, confirmed, calls>>
        /\ mailbox # <<>> /\ mailbox' \in {<<>>, Tail(mailbox)}
    <2>1. UNCHANGED <<stored, kind, at, mailed, users, confirmed, calls>>
          BY DEF Reject, ExecuteInfo, Ignore, NoMatch, PersistFailure, world
    <2>2. mailbox # <<>>
          BY DEF Reject, ExecuteInfo, Ignore, NoMatch, PersistFailure, Receives
    <2>3. mailbox' = <<>> \/ mailbox' = Tail(mailbox)
          BY Zenon DEF Reject, ExecuteInfo, Ignore, NoMatch, PersistFailure
    <2> QED
        BY <2>1, <2>2, <2>3
  <1>2. failures' \in {failures, failures + 1}
        BY DEF Reject, ExecuteInfo, Ignore, NoMatch, PersistFailure, world
  <1>3. Box' \subseteq Box
        BY <1>1, TakeBox DEF Inv
  <1>4. Work' \subseteq Work
    <2>1. CASE replies' = replies
          BY <1>1, <2>1 DEF Work, Ent
    <2>2. CASE replies' = Reply(Error)
      <3>1. Error \in AnyReply /\ ~Error.ok
        <4>1. <<>> \in Seq(Phases)
              OBVIOUS
        <4> QED
            BY <4>1, EmptyStateType DEF Error, AnyReply
      <3> QED
          BY <1>1, <2>2, <3>1, ReplyWork DEF Inv
    <2> QED
        BY <2>1, <2>2 DEF Reject, ExecuteInfo, Ignore, NoMatch, PersistFailure
  <1>5. Kept' = Kept /\ kind' \in {"state", "event"}
        BY <1>1 DEF Kept, Inv, TypeInv
  <1>6. Grows
        BY <1>1, <1>2, CountersGrow
  <1> QED
      BY <1>1, <1>3, <1>4, <1>5, <1>6 DEF Adds

LEMMA ContinueAdds ==
  ASSUME Inv, BaseInv, ExecuteContinue
  PROVE  /\ Adds({}, {Item(Kept)}) /\ UNCHANGED <<mailed, users, calls, failures>>
         /\ kind = "state" /\ Continue \in Box /\ mailbox # <<>> /\ Head(mailbox) = Continue
         /\ mailbox' = Tail(mailbox)
  <1>1. /\ UNCHANGED <<stored, kind, at, mailed, users, confirmed, calls, failures>>
        /\ mailbox # <<>> /\ Head(mailbox) = Continue /\ mailbox' = Tail(mailbox) /\ kind = "state"
        /\ replies' = Reply(Success(state))
        BY DEF ExecuteContinue, Receives, world
  <1>2. Success(state) \in AnyReply /\ Success(state).summary = Kept
        BY <1>1, StateType DEF Success, AnyReply, Inv, state, Kept
  <1>3. Box' \subseteq Box /\ Continue \in Box
        BY <1>1, TakeBox DEF Inv
  <1>4. Work' \subseteq Work \cup {Item(Kept)}
        BY <1>1, <1>2, ReplyWork DEF Inv
  <1>5. Kept' = Kept /\ kind' \in {"state", "event"} /\ Grows
        BY <1>1 DEF Kept, Inv, TypeInv, Grows
  <1> QED
      BY <1>1, <1>3, <1>4, <1>5 DEF Adds

\* The listener asks, times out, reads a reply, stops or pauses.
LEMMA PauseAdds ==
  ASSUME Inv, BaseInv, ListenerAsk \/ ListenerTimeout \/ Receive \/ PhaseRefused \/ PhaseDone
  PROVE  /\ Adds({Info}, {Nowhere}) /\ UNCHANGED <<mailed, users, calls, failures>>
         /\ mailbox' = mailbox \/ mailbox' = Tell(Info)
  <1>1. UNCHANGED <<stored, kind, mailed, users, confirmed, calls, failures>>
        BY DEF ListenerAsk, ListenerTimeout, Receive, PhaseRefused, PhaseDone, world
  <1>2. Kept' = Kept /\ kind' \in {"state", "event"} /\ Grows
        BY <1>1 DEF Kept, Inv, TypeInv, Grows
  <1>3. mailbox' = mailbox \/ mailbox' = Tell(Info)
        BY DEF ListenerAsk, ListenerTimeout, Receive, PhaseRefused, PhaseDone
  <1>4. Box' \subseteq Box \cup {Info}
    <2>1. CASE mailbox' = mailbox
          BY <2>1 DEF Box, Ent
    <2>2. CASE mailbox' = Tell(Info)
          BY <2>2, TellBox, MessageType DEF Inv
    <2> QED
        BY <1>3, <2>1, <2>2
  <1>5. Work' \subseteq Work \cup {Nowhere}
    <2>1. CASE ListenerAsk
      <3>1. UNCHANGED <<kind, replies, at>>
            BY <2>1 DEF ListenerAsk
      <3> QED
          BY <3>1 DEF Work, Ent
    <2>2. CASE ListenerTimeout
      <3>1. kind' = kind /\ replies' = <<>> /\ at' = at
            BY <2>2 DEF ListenerTimeout
      <3> QED
          BY <3>1, EntEmpty DEF Work, Ent
    <2>3. CASE Receive
      <3>1. /\ kind' = kind /\ replies # <<>> /\ replies' = Tail(replies)
            /\ at' = IF Head(replies).ok THEN Item(Head(replies).summary) ELSE Nowhere
            BY <2>3 DEF Receive, Item
      <3>2. kind = "state"
            BY <2>3 DEF Receive, Inv, KindInv, TypeInv
      <3>3. Ent(replies) = {Head(replies)} \cup Ent(Tail(replies))
            BY <3>1, EntTail DEF Inv, TypeInv
      <3>4. Work' = {at'} \cup {Item(r.summary) : r \in {x \in Ent(Tail(replies)) : x.ok /\ kind = "state"}}
            BY <3>1 DEF Work, Item, Ent
      <3> QED
          BY <3>1, <3>2, <3>3, <3>4 DEF Work
    <2>4. CASE PhaseRefused \/ PhaseDone
      <3>1. UNCHANGED <<kind, replies>> /\ at' = Nowhere
            BY <2>4 DEF PhaseRefused, PhaseDone
      <3> QED
          BY <3>1 DEF Work, Ent
    <2> QED
        BY <2>1, <2>2, <2>3, <2>4
  <1> QED
      BY <1>1, <1>2, <1>3, <1>4, <1>5 DEF Adds

Pair(s) == [email |-> s.email, token |-> s.token]

\* It goes on to a phase, ...
LEMMA EnterAdds ==
  ASSUME OrderedFlow, Inv, BaseInv, Advance \/ PhaseMail
  PROVE  \E w :
         /\ Adds({}, {w}) /\ UNCHANGED <<mailbox, users, calls, failures, replies>> /\ at' = w
         /\ w.phase \notin {"START", "START_ACK", "EMAIL_ACK", "CONFIRM_EMAIL_ACK", "CREATE_USER_ACK", "FINISH_ACK"}
         /\ w.phase = "CREATE_USER" => HasFlow /\ at.phase = "CONFIRM_EMAIL_ACK" /\ w.summary = at.summary
         /\ w.phase = "FINISH" => at.phase = "CREATE_USER_ACK"
         /\ w.summary.token \in {at.summary.token, 0}
         /\ mailed' = mailed \/ (at.phase = "EMAIL_ACK" /\ mailed' = mailed \cup {Pair(at.summary)})
  <1>1. PICK p \in {"START_ACK", "EMAIL_ACK", "CONFIRM_EMAIL_ACK", "CREATE_USER_ACK"} : At(p) /\ Enter(NextPhase(p))
        BY DEF Advance, PhaseMail
  <1>2. UNCHANGED <<stored, kind, mailbox, replies, users, confirmed, calls, failures>>
        BY DEF Advance, PhaseMail, world
  <1>3. mailed' = mailed \/ (at.phase = "EMAIL_ACK" /\ mailed' = mailed \cup {Pair(at.summary)})
        BY DEF Advance, PhaseMail, At, Mail, Pair, world
  <1>4. kind = "state" /\ at.phase = p
        BY <1>1 DEF At, Inv, KindInv, TypeInv
  <1>5. /\ Kept' = Kept /\ Box' = Box /\ Grows /\ kind' \in {"state", "event"}
        /\ Work' \subseteq Work \cup {at'}
        BY <1>2, <1>4 DEF Kept, Box, Grows, Work, Ent
  <1>6. Adds({}, {at'})
        BY <1>2, <1>3, <1>5 DEF Adds
  <1>7. CASE NextPhase(p) = NoPhase
    <2>1. at' = Nowhere
          BY <1>1, <1>7, Zenon DEF Enter, NoPhase
    <2>2. Nowhere.phase = NoPhase /\ Nowhere.summary.token = 0
          BY Zenon DEF Nowhere, EmptyState, NoToken, NoPhase
    <2>3. NoPhase \notin {"START", "START_ACK", "EMAIL_ACK", "CONFIRM_EMAIL_ACK", "CREATE_USER_ACK", "FINISH_ACK",
                          "CREATE_USER", "FINISH"}
          BY Zenon DEF NoPhase
    <2> QED
        BY <1>2, <1>3, <1>6, <2>1, <2>2, <2>3
  <1>8. CASE NextPhase(p) # NoPhase
    <2>1. at' = [at EXCEPT !.phase = NextPhase(p)]
          BY <1>1, <1>8, Zenon DEF Enter, NoPhase
    <2>2. at \in [phase: Phases, summary: AnySummary]
          BY DEF Inv, TypeInv
    <2>3. at'.phase = NextPhase(p) /\ at'.summary = at.summary
          BY <2>1, <2>2
    <2>4. HasFlow => Kept.flow = Flow
          BY DEF BaseInv
    <2>5. /\ HasFlow
          /\ NextPhase(p) # "START"
          /\ NextPhase(p) = "START_ACK" => p = "START"
          /\ NextPhase(p) = "EMAIL_ACK" => p = "EMAIL"
          /\ NextPhase(p) = "CONFIRM_EMAIL_ACK" => p = "CONFIRM_EMAIL"
          /\ NextPhase(p) = "CREATE_USER" => p = "CONFIRM_EMAIL_ACK"
          /\ NextPhase(p) = "CREATE_USER_ACK" => p = "CREATE_USER"
          /\ NextPhase(p) = "FINISH" => p = "CREATE_USER_ACK"
          /\ NextPhase(p) = "FINISH_ACK" => p = "FINISH"
          BY <1>4, <1>8, <2>4, NextInOrder DEF Inv
    <2>6. /\ NextPhase(p) \notin {"START", "START_ACK", "EMAIL_ACK", "CONFIRM_EMAIL_ACK", "CREATE_USER_ACK", "FINISH_ACK"}
          /\ NextPhase(p) = "CREATE_USER" => HasFlow /\ at.phase = "CONFIRM_EMAIL_ACK"
          /\ NextPhase(p) = "FINISH" => at.phase = "CREATE_USER_ACK"
          BY <1>4, <2>5
    <2> QED
        BY <1>2, <1>3, <1>6, <2>3, <2>6
  <1> QED
      BY <1>7, <1>8

\* ... or tells the session, ...
LEMMA TellAdds ==
  ASSUME Inv, BaseInv, NEW m \in Command, TellSession(m)
  PROVE  /\ Adds({m}, {Nowhere}) /\ UNCHANGED <<mailed, calls, failures, replies>>
         /\ at' = Nowhere /\ mailbox' = Tell(m)
  <1>1. /\ mailbox' = Tell(m) /\ at' = Nowhere
        /\ UNCHANGED <<stored, kind, replies, mailed, confirmed, calls, failures>>
        BY DEF TellSession
  <1>2. /\ Kept' = Kept /\ Grows /\ kind' \in {"state", "event"}
        /\ Work' \subseteq Work \cup {Nowhere}
        BY <1>1 DEF Kept, Grows, Work, Ent, Inv, TypeInv
  <1>3. Box' \subseteq Box \cup {m}
        BY <1>1, TellBox DEF Inv
  <1> QED
      BY <1>1, <1>2, <1>3 DEF Adds

\* ... or is stopped by a service.
LEMMA LostAdds ==
  ASSUME Inv, BaseInv, ServiceLost
  PROVE  /\ Adds({}, {Nowhere}) /\ UNCHANGED <<mailbox, calls, failures>> /\ replies' = <<>> /\ at' = Nowhere
         /\ mailed' = mailed \/ (at.phase = "EMAIL_ACK" /\ mailed' = mailed \cup {Pair(at.summary)})
         /\ users' = users \/ (at.phase = "CREATE_USER" /\ users' = Append(users, NewUser))
  <1>1. /\ replies' = <<>> /\ at' = Nowhere
        /\ UNCHANGED <<stored, kind, mailbox, confirmed, calls, failures>>
        BY DEF ServiceLost
  <1>2. mailed' = mailed \/ (at.phase = "EMAIL_ACK" /\ mailed' = mailed \cup {Pair(at.summary)})
        BY DEF ServiceLost, At, Mail, Pair
  <1>3. users' = users \/ (at.phase = "CREATE_USER" /\ users' = Append(users, NewUser))
        BY DEF ServiceLost, At
  <1>4. /\ Kept' = Kept /\ Box' = Box /\ Grows /\ kind' \in {"state", "event"}
        BY <1>1 DEF Kept, Box, Ent, Grows, Inv, TypeInv
  <1>5. Work' \subseteq {Nowhere}
        BY <1>1, EntEmpty DEF Work, Ent
  <1> QED
      BY <1>1, <1>2, <1>3, <1>4, <1>5 DEF Adds

\* The session executes a command: what it persists is what the listener gets.
LEMMA ExecuteFacts ==
  ASSUME Inv, BaseInv, Execute
  PROVE  \E m \in Command, s \in AnySummary :
         /\ m \in Box /\ m = Head(mailbox) /\ mailbox # <<>> /\ mailbox' = Tail(mailbox) /\ Box' \subseteq Box
         /\ m.cmd \in Persisting /\ ~state.finished /\ Valid(state, m)
         /\ stored' = [stored EXCEPT ![kind] = s]
         /\ IF kind = "state" THEN Kept' = s /\ state = Kept /\ Work' \subseteq Work \cup {Item(s)}
                              ELSE Kept' = Kept /\ Work' \subseteq Work
         /\ s.flow = state.flow /\ s.phase \in SessionPhases \ {"START"}
         /\ m.cmd = "AddEmail" => s.phase = "EMAIL_ACK" /\ s.email = m.email /\ s.token = state.token + 1
         /\ m.cmd # "AddEmail" => s.token = state.token /\ s.phase # "EMAIL_ACK"
         /\ m.cmd \notin {"AddEmail", "Start"} => s.email = state.email
         /\ s.phase = "CONFIRM_EMAIL_ACK" => m.cmd = "ConfirmEmail"
         /\ m.cmd = "CreateUser" => s.uid = m.uid
         /\ m.cmd # "CreateUser" => s.uid = state.uid /\ s.phase # "CREATE_USER_ACK"
         /\ m.cmd # "Finish" => s.finished = state.finished
         /\ replies' = (IF m.cmd = "UpdatePhase" THEN replies ELSE Reply(Success(s)))
         /\ confirmed' = (IF m.cmd = "ConfirmEmail" THEN Append(confirmed, m.token) ELSE confirmed)
         /\ UNCHANGED <<enrollType, kind, session, listener, args, at, started, calls, crashes, failures, mailed, users>>
  <1> DEFINE m == Head(mailbox)
             s == Executed(state, m)
  <1>1. /\ mailbox # <<>> /\ m.cmd \in Persisting /\ ~state.finished /\ Valid(state, m)
        /\ stored' = [stored EXCEPT ![kind] = s] /\ mailbox' = Tail(mailbox)
        /\ replies' = (IF m.cmd = "UpdatePhase" THEN replies ELSE Reply(Success(s)))
        /\ confirmed' = (IF m.cmd = "ConfirmEmail" THEN Append(confirmed, m.token) ELSE confirmed)
        /\ UNCHANGED <<enrollType, kind, session, listener, args, at, started, calls, crashes, failures, mailed, users>>
        BY DEF Execute, IsFinished, Becomes, world
  <1>2. m \in Command /\ state \in AnySummary
        BY <1>1, StateType DEF Inv, TypeInv
  <1>3. m \in Box /\ Box' \subseteq Box
        BY <1>1, TakeBox DEF Inv
  <1>4. m.cmd = "UpdatePhase" => m.phase \in {"EMAIL", "CONFIRM_EMAIL"}
        BY <1>3 DEF BaseInv
  <1>5. s \in AnySummary
        BY <1>1, <1>2, ExecutedType
  <1>6. /\ s.flow = state.flow /\ s.phase \in SessionPhases \ {"START"}
        /\ m.cmd = "AddEmail" => s.phase = "EMAIL_ACK" /\ s.email = m.email /\ s.token = state.token + 1
        /\ m.cmd # "AddEmail" => s.token = state.token /\ s.phase # "EMAIL_ACK"
        /\ m.cmd \notin {"AddEmail", "Start"} => s.email = state.email
        /\ s.phase = "CONFIRM_EMAIL_ACK" => m.cmd = "ConfirmEmail"
        /\ m.cmd = "CreateUser" => s.uid = m.uid
        /\ m.cmd # "CreateUser" => s.uid = state.uid /\ s.phase # "CREATE_USER_ACK"
        /\ m.cmd # "Finish" => s.finished = state.finished
        BY <1>1, <1>2, <1>4, ExecutedFields
  <1> HIDE DEF s, m
  <1>7. Success(s) \in AnyReply /\ Success(s).summary = s
        BY <1>5 DEF Success, AnyReply
  <1>8. Work' \subseteq Work \cup {Item(s)} /\ (kind # "state" => Work' \subseteq Work)
    <2>1. CASE replies' = replies
          BY <1>1, <2>1 DEF Work, Ent
    <2>2. CASE replies' = Reply(Success(s))
          BY <1>1, <1>7, <2>2, ReplyWork DEF Inv
    <2> QED
        BY <1>1, <2>1, <2>2
  <1>9. IF kind = "state" THEN Kept' = s /\ state = Kept ELSE Kept' = Kept
        BY <1>1 DEF Kept, state, Inv, TypeInv
  <1> QED
      BY <1>1, <1>2, <1>3, <1>5, <1>6, <1>8, <1>9, Zenon DEF m

LEMMA EmptyFields ==
  ASSUME NEW f
  PROVE  /\ EmptyState(f).phase = "START" /\ EmptyState(f).token = 0 /\ EmptyState(f).uid = 0
         /\ EmptyState(f).flow = f /\ ~EmptyState(f).finished
  BY DEF EmptyState, NoToken, NoUser

LEMMA StartFlowFacts ==
  ASSUME Inv, BaseInv, StartFlow
  PROVE  /\ session = "none" /\ Work' = {Nowhere} /\ mailed' = {} /\ users' = <<>> /\ replies' = <<>>
         /\ LET first == Start(GivenName, GivenEmail) IN
            /\ first \in Command /\ first.cmd = "Start"
            /\ Box' \subseteq {Info, first} /\ mailbox' \in {<<first>>, <<Info, first>>}
         /\ kind' = enrollType
         /\ stored' = [stored EXCEPT ![kind'] = EmptyState(Flow)]
         /\ IF kind' = "state" THEN Kept' = EmptyState(Flow) ELSE Kept' = Kept /\ ~HasFlow'
         /\ UNCHANGED <<calls, failures, at, confirmed>>
  <1> DEFINE first == Start(GivenName, GivenEmail)
  <1>1. /\ ~started /\ kind' = enrollType /\ stored' = [stored EXCEPT ![kind'] = EmptyState(Flow)]
        /\ mailbox' = <<first>> \/ mailbox' = <<Info, first>>
        /\ UNCHANGED <<replies, at, calls, failures, mailed, users, confirmed>>
        BY DEF StartFlow
  <1>2. session = "none" /\ mailed = {} /\ users = <<>> /\ replies = <<>> /\ at = Nowhere
        BY <1>1 DEF Inv, KindInv, BaseInv
  <1>3. first \in Command /\ first.cmd = "Start" /\ Info \in Command
        BY MessageType DEF Names
  <1> HIDE DEF first
  <1>4. Work' = {Nowhere}
        BY <1>1, <1>2, EntEmpty DEF Work, Ent
  <1>5. Box' \subseteq {Info, first}
    <2>1. Ent(<<first>>) = {first} /\ Ent(<<Info, first>>) = {Info, first}
      <3>1. \A x, y : Ent(<<x>>) = {x} /\ Ent(<<x, y>>) = {x, y}
            BY DEF Ent
      <3> QED
          BY <3>1
    <2> QED
        BY <1>1, <2>1 DEF Box, Ent
  <1>6. IF kind' = "state" THEN Kept' = EmptyState(Flow) ELSE Kept' = Kept /\ ~HasFlow'
    <2>1. CASE kind' = "state"
          BY <1>1, <2>1 DEF Kept, Inv, TypeInv
    <2>2. CASE kind' # "state"
      <3>1. Kept' = Kept
            BY <1>1, <2>2 DEF Kept, Inv, TypeInv
      <3> QED
          BY <1>1, <2>2, <3>1 DEF HasFlow, BaseInv
    <2> QED
        BY <2>1, <2>2
  <1> QED
      BY <1>1, <1>2, <1>3, <1>4, <1>5, <1>6 DEF first

LEMMA CrashFacts ==
  ASSUME Inv, BaseInv, Crash
  PROVE  /\ Work' = {Nowhere} /\ Box' = {} /\ mailbox' = <<>> /\ replies' = <<>> /\ at' = Nowhere
         /\ Kept' = Kept \/ (Kept.phase = "START" /\ Kept' = EmptyState(NoFlow))
         /\ \A k \in {"state", "event"} :
              /\ stored'[k].phase = stored[k].phase
              /\ stored'[k].token = IF stored[k].phase = "START" THEN 0 ELSE stored[k].token
         /\ UNCHANGED <<kind, calls, failures, mailed, users, confirmed>>
  <1>1. /\ mailbox' = <<>> /\ replies' = <<>> /\ at' = Nowhere
        /\ stored' = [k \in DOMAIN stored |-> Revived(k, stored[k])]
        /\ UNCHANGED <<kind, calls, failures, mailed, users, confirmed>>
        BY DEF Crash
  <1>2. Work' = {Nowhere} /\ Box' = {}
        BY <1>1, EntEmpty DEF Work, Box, Ent
  <1>3. stored \in [{"state", "event"} -> AnySummary]
        BY DEF Inv, TypeInv
  <1>4. \A k \in {"state", "event"} : stored'[k] = Revived(k, stored[k])
        BY <1>1, <1>3
  <1>5. ASSUME NEW k \in {"state", "event"}
        PROVE  /\ stored'[k].phase = stored[k].phase
               /\ stored'[k].token = IF stored[k].phase = "START" THEN 0 ELSE stored[k].token
    <2>1. ASSUME NEW s \in AnySummary, NEW f
          PROVE  [s EXCEPT !.flow = f].phase = s.phase /\ [s EXCEPT !.flow = f].token = s.token
          BY DEF AnySummary
    <2>2. stored[k] \in AnySummary
          BY <1>3
    <2>3. Revived(k, stored[k]) = IF stored[k].phase = "START" THEN EmptyState(NoFlow)
            ELSE IF k = "event" THEN [stored[k] EXCEPT !.flow = NoFlow] ELSE stored[k]
          BY Zenon DEF Revived, NoFlow
    <2>7. /\ [stored[k] EXCEPT !.flow = NoFlow].phase = stored[k].phase
          /\ [stored[k] EXCEPT !.flow = NoFlow].token = stored[k].token
          BY <2>1, <2>2
    <2>4. CASE stored[k].phase = "START"
          BY <1>4, <2>3, <2>4, EmptyFields
    <2>5. CASE stored[k].phase # "START" /\ k = "event"
          BY <1>4, <2>3, <2>5, <2>7
    <2>6. CASE stored[k].phase # "START" /\ k # "event"
          BY <1>4, <2>3, <2>6
    <2> QED
        BY <2>4, <2>5, <2>6
  <1>6. Kept' = Kept \/ (Kept.phase = "START" /\ Kept' = EmptyState(NoFlow))
    <2>1. Kept' = Revived("state", Kept)
          BY <1>4 DEF Kept
    <2> QED
        BY <2>1, Zenon DEF Revived, NoFlow
  <1> QED
      BY <1>1, <1>2, <1>5, <1>6
LEMMA PlainMessages ==
  /\ \A n \in Names, e \in Names : Start(n, e).cmd = "Start"
  /\ \A e \in Names : AddEmail(e).cmd = "AddEmail"
  /\ \A t \in Nat : ConfirmEmail(t).cmd = "ConfirmEmail" /\ ConfirmEmail(t).token = t
  /\ \A p \in Phases : UpdatePhase(p).cmd = "UpdatePhase" /\ UpdatePhase(p).phase = p
  /\ \A u \in Nat : CreateUser(u).cmd = "CreateUser" /\ CreateUser(u).uid = u
  /\ Continue.cmd = "Continue" /\ Finish.cmd = "Finish" /\ Info.cmd = "Info"
  BY DEF Start, AddEmail, ConfirmEmail, UpdatePhase, CreateUser, Continue, Finish, Info

\* The phase of what the listener leaves off with.
LEMMA NowherePhase ==
  Nowhere.phase \notin {"START", "START_ACK", "EMAIL", "EMAIL_ACK", "CONFIRM_EMAIL", "CONFIRM_EMAIL_ACK",
                        "CREATE_USER", "CREATE_USER_ACK", "FINISH", "FINISH_ACK"}
  BY Zenon DEF Nowhere

\* What a client's call, and the listener, tell the session.
LEMMA CallMessage ==
  ASSUME Inv, ContinueFlow \/ AddEmailCall \/ ConfirmEmailCall
  PROVE  \E bound : \E call \in {"emails", "confirms", "continues"}, m \in Command :
         /\ Forward(call, bound, m)
         /\ \/ call = "continues" /\ bound = MaxContinues /\ m.cmd = "Continue"
            \/ call = "emails" /\ bound = MaxEmails /\ m.cmd = "AddEmail"
            \/ /\ call = "confirms" /\ bound = MaxConfirms /\ m.cmd = "ConfirmEmail"
               /\ m.token = MaxEmails + 1 \/ \E p \in mailed : p.token = m.token
  <1>1. CASE ContinueFlow
    <2>1. Forward("continues", MaxContinues, Continue) /\ Continue \in Command /\ Continue.cmd = "Continue"
          BY <1>1, MessageType DEF ContinueFlow
    <2> QED
        BY <2>1
  <1>2. CASE AddEmailCall
    <2>1. PICK e \in Emails : Forward("emails", MaxEmails, AddEmail(e))
          BY <1>2 DEF AddEmailCall
    <2>2. AddEmail(e) \in Command /\ AddEmail(e).cmd = "AddEmail"
          BY MessageType DEF Names
    <2> QED
        BY <2>1, <2>2
  <1>3. CASE ConfirmEmailCall
    <2>1. PICK t \in {p.token : p \in mailed} \cup {MaxEmails + 1} : Forward("confirms", MaxConfirms, ConfirmEmail(t))
          BY <1>3 DEF ConfirmEmailCall
    <2>2. t \in Nat /\ (t = MaxEmails + 1 \/ \E p \in mailed : p.token = t)
          BY EnrollAssumption DEF Inv, TypeInv
    <2>3. ConfirmEmail(t) \in Command /\ ConfirmEmail(t).cmd = "ConfirmEmail" /\ ConfirmEmail(t).token = t
          BY <2>2, MessageType, PlainMessages
    <2> QED
        BY <2>1, <2>2, <2>3
  <1> QED
      BY <1>1, <1>2, <1>3

LEMMA TellMessage ==
  ASSUME Inv, PhaseStart \/ PhaseEmail \/ PhaseFinish
  PROVE  \E m \in Command :
         /\ TellSession(m) /\ users' = users
         /\ \/ m.cmd = "Start" /\ at.phase = "START"
            \/ m.cmd = "UpdatePhase" /\ m.phase \in {"EMAIL", "CONFIRM_EMAIL"}
            \/ m.cmd = "Finish" /\ at.phase = "FINISH"
  <1>1. CASE PhaseStart
    <2>1. PICK m \in {Start(GivenName, GivenEmail), Start(Blank, Blank)} : TellSession(m)
          BY <1>1 DEF PhaseStart
    <2>2. m \in Command /\ m.cmd = "Start"
          BY <2>1, MessageType, PlainMessages DEF Names
    <2> QED
        BY <1>1, <2>1, <2>2 DEF PhaseStart, At
  <1>2. CASE PhaseEmail
    <2>1. PICK p \in {"EMAIL", "CONFIRM_EMAIL"} : TellSession(UpdatePhase(p)) /\ users' = users
          BY <1>2 DEF PhaseEmail
    <2>2. UpdatePhase(p) \in Command /\ UpdatePhase(p).cmd = "UpdatePhase" /\ UpdatePhase(p).phase = p
          BY MessageType, PlainMessages DEF Phases
    <2> QED
        BY <2>1, <2>2
  <1>3. CASE PhaseFinish
        BY <1>3, MessageType, PlainMessages DEF PhaseFinish, At
  <1> QED
      BY <1>1, <1>2, <1>3

\* Every step but Execute, StartFlow and Crash leaves the persisted session as it is.
LEMMA AsideStep ==
  ASSUME OrderedFlow, Inv, BaseInv, [Next]_vars, ~Execute, ~StartFlow, ~Crash
  PROVE  \E ms, ws :
         /\ Adds(ms, ws)
         /\ \A m \in ms : /\ m.cmd = "Start" => at.phase = "START"
                          /\ m.cmd = "UpdatePhase" => m.phase \in {"EMAIL", "CONFIRM_EMAIL"}
                          /\ m.cmd = "Continue" => calls'.continues # 0
                          /\ m.cmd = "ConfirmEmail" => m.token = MaxEmails + 1 \/ \E p \in mailed : p.token = m.token
                          /\ m.cmd = "CreateUser" => m.uid \in 1..Len(users')
                          /\ m.cmd = "Finish" => at.phase = "FINISH"
         /\ \A w \in ws : \/ w = Item(Kept) /\ Continue \in Box /\ Head(mailbox) = Continue
                          \/ /\ w.phase \notin {"START", "START_ACK", "EMAIL_ACK", "CONFIRM_EMAIL_ACK", "CREATE_USER_ACK", "FINISH_ACK"}
                             /\ w.phase = "CREATE_USER" => HasFlow /\ at.phase = "CONFIRM_EMAIL_ACK" /\ w.summary = at.summary
                             /\ w.phase = "FINISH" => at.phase = "CREATE_USER_ACK"
         /\ mailed' = mailed \/ (at.phase = "EMAIL_ACK" /\ mailed' = mailed \cup {Pair(at.summary)})
         /\ users' = users \/ (at.phase = "CREATE_USER" /\ users' = Append(users, NewUser))
         /\ \/ mailbox' = mailbox
            \/ \E m \in ms \cap Command : mailbox' = Tell(m)
            \/ mailbox # <<>> /\ mailbox' = Tail(mailbox) /\ (failures' = 0 /\ Head(mailbox).cmd = "Start" => Kept.finished)
            \/ kind = "event"
  <1> DEFINE MFine(m) == /\ m.cmd = "Start" => at.phase = "START"
                         /\ m.cmd = "UpdatePhase" => m.phase \in {"EMAIL", "CONFIRM_EMAIL"}
                         /\ m.cmd = "Continue" => calls'.continues # 0
                         /\ m.cmd = "ConfirmEmail" => m.token = MaxEmails + 1 \/ \E p \in mailed : p.token = m.token
                         /\ m.cmd = "CreateUser" => m.uid \in 1..Len(users')
                         /\ m.cmd = "Finish" => at.phase = "FINISH"
             WFine(w) == \/ w = Item(Kept) /\ Continue \in Box /\ Head(mailbox) = Continue
                         \/ /\ w.phase \notin {"START", "START_ACK", "EMAIL_ACK", "CONFIRM_EMAIL_ACK", "CREATE_USER_ACK", "FINISH_ACK"}
                            /\ w.phase = "CREATE_USER" => HasFlow /\ at.phase = "CONFIRM_EMAIL_ACK" /\ w.summary = at.summary
                            /\ w.phase = "FINISH" => at.phase = "CREATE_USER_ACK"
             Mails == mailed' = mailed \/ (at.phase = "EMAIL_ACK" /\ mailed' = mailed \cup {Pair(at.summary)})
             Creates == users' = users \/ (at.phase = "CREATE_USER" /\ users' = Append(users, NewUser))
             Moves(ms) == \/ mailbox' = mailbox
                          \/ \E m \in ms \cap Command : mailbox' = Tell(m)
                          \/ mailbox # <<>> /\ mailbox' = Tail(mailbox) /\ (failures' = 0 /\ Head(mailbox).cmd = "Start" => Kept.finished)
                          \/ kind = "event"
  <1>1. SUFFICES \E ms, ws : Adds(ms, ws) /\ (\A m \in ms : MFine(m)) /\ (\A w \in ws : WFine(w)) /\ Mails /\ Creates /\ Moves(ms)
        BY Zenon
  <1>2. WFine(Nowhere)
        BY NowherePhase
  <1>3. CASE ContinueFlow \/ AddEmailCall \/ ConfirmEmailCall
    <2>1. PICK bound : \E call \in {"emails", "confirms", "continues"}, m \in Command :
            /\ Forward(call, bound, m) /\ m.cmd \in {"Continue", "AddEmail", "ConfirmEmail"}
            /\ m.cmd = "Continue" => call = "continues"
            /\ m.cmd = "ConfirmEmail" => m.token = MaxEmails + 1 \/ \E p \in mailed : p.token = m.token
          BY <1>3, CallMessage
    <2>2. PICK call \in {"emails", "confirms", "continues"}, m \in Command :
            /\ Forward(call, bound, m) /\ m.cmd \in {"Continue", "AddEmail", "ConfirmEmail"}
            /\ m.cmd = "Continue" => call = "continues"
            /\ m.cmd = "ConfirmEmail" => m.token = MaxEmails + 1 \/ \E p \in mailed : p.token = m.token
          BY <2>1
    <2>3. Adds({m}, {}) /\ Mails /\ Creates /\ Moves({m})
          BY <2>2, CallAdds DEF Forward
    <2>5. m.cmd = "Continue" => calls'.continues # 0
      <3>1. calls' = [calls EXCEPT ![call] = @ + 1]
            BY <2>2 DEF Forward
      <3>2. calls \in [emails: 0..MaxEmails, confirms: 0..MaxConfirms, continues: 0..MaxContinues]
            BY DEF BaseInv
      <3> QED
          BY <2>2, <3>1, <3>2, EnrollAssumption
    <2>4. MFine(m)
          BY <2>2, <2>5
    <2> HIDE DEF MFine, WFine, Mails, Creates, Moves
    <2> QED
        BY <2>3, <2>4
  <1>4. CASE GetSummary \/ Reject \/ ExecuteInfo \/ Ignore \/ NoMatch \/ PersistFailure
    <2>1. Adds({}, {}) /\ Mails /\ Creates
          BY <1>4, GetSummaryAdds, TakeAdds
    <2>2. Moves({})
      <3>1. CASE GetSummary
            BY <3>1, GetSummaryAdds
      <3>2. CASE NoMatch
            BY <3>2 DEF NoMatch
      <3>3. ASSUME Reject \/ ExecuteInfo \/ Ignore \/ PersistFailure, kind # "event" PROVE Moves({})
        <4>1. mailbox # <<>> /\ mailbox' = Tail(mailbox)
              BY <3>3 DEF Reject, ExecuteInfo, Ignore, PersistFailure, Receives
        <4>2. kind = "state" /\ state = Kept
              BY <3>3 DEF Inv, TypeInv, state, Kept
        <4>3. CASE Reject
              BY <4>1, <4>3 DEF Reject, Valid
        <4>4. CASE ExecuteInfo
              BY <4>1, <4>4 DEF ExecuteInfo, Receives, Info
        <4>5. CASE Ignore
              BY <4>1, <4>2, <4>5 DEF Ignore, IsFinished
        <4>6. CASE PersistFailure
          <5>1. failures \in Nat /\ failures' = failures + 1
                BY <4>6, EnrollAssumption DEF PersistFailure, BaseInv
          <5> QED
              BY <4>1, <5>1
        <4> QED
            BY <3>3, <4>3, <4>4, <4>5, <4>6
      <3>4. kind = "event" => Moves({})
            OBVIOUS
      <3> QED
          BY <1>4, <3>1, <3>2, <3>3, <3>4
    <2> HIDE DEF MFine, WFine, Mails, Creates, Moves
    <2> QED
        BY <2>1, <2>2
  <1>5. CASE ExecuteContinue
    <2>1. Adds({}, {Item(Kept)}) /\ WFine(Item(Kept)) /\ Mails /\ Creates /\ Moves({})
          BY <1>5, ContinueAdds, PlainMessages
    <2> HIDE DEF MFine, WFine, Mails, Creates, Moves
    <2> QED
        BY <2>1
  <1>6. CASE ListenerAsk \/ ListenerTimeout \/ Receive \/ PhaseRefused \/ PhaseDone
    <2>1. Adds({Info}, {Nowhere}) /\ Mails /\ Creates /\ Moves({Info})
          BY <1>6, PauseAdds, MessageType
    <2>2. MFine(Info)
          BY PlainMessages
    <2> HIDE DEF MFine, WFine, Mails, Creates, Moves
    <2> QED
        BY <1>2, <2>1, <2>2
  <1>7. CASE Advance \/ PhaseMail
    <2>1. PICK w : Adds({}, {w}) /\ WFine(w) /\ Mails /\ Creates /\ Moves({})
          BY <1>7, EnterAdds
    <2> HIDE DEF MFine, WFine, Mails, Creates, Moves
    <2> QED
        BY <2>1
  <1>8. CASE PhaseStart \/ PhaseEmail \/ PhaseFinish
    <2>1. PICK m \in Command :
            /\ TellSession(m) /\ users' = users
            /\ \/ m.cmd = "Start" /\ at.phase = "START"
               \/ m.cmd = "UpdatePhase" /\ m.phase \in {"EMAIL", "CONFIRM_EMAIL"}
               \/ m.cmd = "Finish" /\ at.phase = "FINISH"
          BY <1>8, TellMessage
    <2>2. Adds({m}, {Nowhere}) /\ Mails /\ Creates /\ Moves({m})
          BY <2>1, TellAdds
    <2>3. MFine(m)
          BY <2>1
    <2> HIDE DEF MFine, WFine, Mails, Creates, Moves
    <2> QED
        BY <1>2, <2>2, <2>3
  <1>9. CASE PhaseCreateUser
    <2> DEFINE m == CreateUser(Len(users'))
    <2>1. TellSession(m) /\ users' = Append(users, NewUser) /\ at.phase = "CREATE_USER"
          BY <1>9 DEF PhaseCreateUser, At
    <2>2. Len(users') \in Nat /\ Len(users') \in 1..Len(users')
      <3>1. Len(users') = Len(users) + 1 /\ Len(users) \in Nat
            BY <2>1 DEF Inv, TypeInv
      <3> QED
          BY <3>1
    <2>3. m \in Command /\ m.uid \in 1..Len(users') /\ m.cmd = "CreateUser"
          BY <2>2, MessageType, PlainMessages
    <2>4. Adds({m}, {Nowhere}) /\ Mails /\ Creates /\ Moves({m})
          BY <2>1, <2>3, TellAdds
    <2>5. MFine(m)
          BY <2>3
    <2> HIDE DEF MFine, WFine, Mails, Creates, Moves, m
    <2> QED
        BY <1>2, <2>4, <2>5
  <1>10. CASE ServiceLost
    <2>1. Adds({}, {Nowhere}) /\ Mails /\ Creates /\ Moves({})
          BY <1>10, LostAdds
    <2> HIDE DEF MFine, WFine, Mails, Creates, Moves
    <2> QED
        BY <1>2, <2>1
  <1>11. CASE UNCHANGED vars
    <2>1. UNCHANGED <<stored, kind, mailbox, replies, at, calls, failures, mailed, confirmed, users>>
          BY <1>11 DEF vars, actors, world
    <2>2. Kept' = Kept /\ Box' = Box /\ Work' = Work /\ Grows
          BY <2>1 DEF Kept, Box, Work, Ent, Grows
    <2>3. Adds({}, {}) /\ Mails /\ Creates /\ Moves({})
          BY <2>1, <2>2 DEF Adds, Inv, TypeInv
    <2> HIDE DEF MFine, WFine, Mails, Creates, Moves
    <2> QED
        BY <2>3
  <1> QED
      BY <1>3, <1>4, <1>5, <1>6, <1>7, <1>8, <1>9, <1>10, <1>11 DEF Next, Session, Listener

-----------------------------------------------------------------------------
(* The user of a session                                                   *)

\* A message that gives the session a user gives it one that was created; the
\* listener finishes, and the session has finished, with a user.
UserInv ==
  /\ Kept.uid \in 0..Len(users)
  /\ \A m \in Box : /\ m.cmd = "CreateUser" => m.uid \in 1..Len(users)
                    /\ m.cmd = "Finish" => Kept.uid # 0
  /\ \A w \in Work : w.phase \in {"CREATE_USER_ACK", "FINISH"} => Kept.uid # 0
  /\ Kept.phase = "CREATE_USER_ACK" \/ Kept.finished => Kept.uid # 0

LEMMA UserStays ==
  ASSUME UserInv, TypeInv, TypeInv', NEW ms, NEW ws, Adds(ms, ws), Len(users) <= Len(users'),
         \A m \in ms : /\ m.cmd = "CreateUser" => m.uid \in 1..Len(users')
                       /\ m.cmd = "Finish" => Kept.uid # 0,
         \A w \in ws : w.phase \in {"CREATE_USER_ACK", "FINISH"} => Kept.uid # 0
  PROVE  UserInv'
  <1>1. Len(users) \in Nat /\ Len(users') \in Nat
        BY DEF TypeInv
  <1>2. Kept' = Kept /\ Box' \subseteq Box \cup ms /\ Work' \subseteq Work \cup ws
        BY DEF Adds
  <1>3. Kept'.uid \in 0..Len(users')
        BY <1>1, <1>2 DEF UserInv
  <1>4. \A m \in Box' : /\ m.cmd = "CreateUser" => m.uid \in 1..Len(users')
                        /\ m.cmd = "Finish" => Kept'.uid # 0
        BY <1>1, <1>2 DEF UserInv
  <1> QED
      BY <1>2, <1>3, <1>4 DEF UserInv

LEMMA UserStep ==
  ASSUME OrderedFlow, Inv, BaseInv, UserInv, [Next]_vars
  PROVE  UserInv'
  <1>1. TypeInv /\ TypeInv' /\ Len(users) \in Nat
        BY InvStep DEF Inv, TypeInv
  <1>2. CASE ~Execute /\ ~StartFlow /\ ~Crash
    <2>1. PICK ms, ws :
            /\ Adds(ms, ws)
            /\ \A m \in ms : /\ m.cmd = "CreateUser" => m.uid \in 1..Len(users')
                             /\ m.cmd = "Finish" => at.phase = "FINISH"
            /\ \A w \in ws : \/ w = Item(Kept)
                             \/ w.phase # "CREATE_USER_ACK" /\ (w.phase = "FINISH" => at.phase = "CREATE_USER_ACK")
            /\ users' = users \/ users' = Append(users, NewUser)
          BY <1>2, AsideStep
    <2>2. Len(users) <= Len(users')
          BY <1>1, <2>1 DEF TypeInv
    <2>3. at.phase \in {"FINISH", "CREATE_USER_ACK"} => Kept.uid # 0
          BY DEF UserInv, Work
    <2>4. Item(Kept).phase \in {"CREATE_USER_ACK", "FINISH"} => Kept.uid # 0
          BY DEF Item, UserInv, BaseInv, Kept, SessionPhases
    <2> QED
        BY <1>1, <2>1, <2>2, <2>3, <2>4, UserStays
  <1>3. CASE Execute
    <2>1. PICK m \in Command, s \in AnySummary :
         /\ m \in Box /\ Box' \subseteq Box /\ users' = users
         /\ IF kind = "state" THEN Kept' = s /\ state = Kept /\ Work' \subseteq Work \cup {Item(s)}
                              ELSE Kept' = Kept /\ Work' \subseteq Work
         /\ s.phase \in SessionPhases
         /\ m.cmd = "CreateUser" => s.uid = m.uid
         /\ m.cmd # "CreateUser" => s.uid = state.uid /\ s.phase # "CREATE_USER_ACK"
         /\ m.cmd # "Finish" => s.finished = state.finished
         /\ ~state.finished
          BY <1>3, ExecuteFacts
    <2>2. CASE kind = "state"
      <3>1. s.uid \in 0..Len(users) /\ (Kept.uid # 0 => s.uid # 0)
            BY <1>1, <2>1, <2>2 DEF UserInv
      <3>2. s.phase = "CREATE_USER_ACK" \/ s.finished => s.uid # 0
            BY <1>1, <2>1, <2>2 DEF UserInv
      <3>3. Item(s).phase \in {"CREATE_USER_ACK", "FINISH"} => s.uid # 0
            BY <2>1, <3>2 DEF Item, SessionPhases
      <3> QED
          BY <2>1, <2>2, <3>1, <3>2, <3>3 DEF UserInv
    <2>3. CASE kind # "state"
          BY <2>1, <2>3 DEF UserInv
    <2> QED
        BY <2>2, <2>3
  <1>4. CASE StartFlow
    <2>1. /\ Work' = {Nowhere} /\ users' = <<>>
          /\ Box' \subseteq {Info, Start(GivenName, GivenEmail)} /\ Start(GivenName, GivenEmail).cmd = "Start"
          /\ Kept' = EmptyState(Flow) \/ Kept' = Kept
          /\ users' = users
          BY <1>4, StartFlowFacts DEF StartFlow
    <2>2. Len(users') = 0
          BY <2>1
    <2> QED
        BY <2>1, <2>2, EmptyFields, PlainMessages, NowherePhase DEF UserInv
  <1>5. CASE Crash
    <2>1. /\ Work' = {Nowhere} /\ Box' = {} /\ users' = users
          /\ Kept' = Kept \/ (Kept.phase = "START" /\ Kept' = EmptyState(NoFlow))
          BY <1>5, CrashFacts
    <2> QED
        BY <1>1, <2>1, EmptyFields, NowherePhase DEF UserInv
  <1> QED
      BY <1>2, <1>3, <1>4, <1>5

-----------------------------------------------------------------------------
(* The Start of a session                                                  *)

\* The Start that StartFlow sends is the first command in the mailbox; while
\* the session is in START it is still there.
StartFirst(q) == \A i \in 1..Len(q) : q[i].cmd = "Start" => i = 1 \/ (i = 2 /\ q[1].cmd = "Info")
StartNext(q) ==
  /\ Len(q) >= 1
  /\ q[1].cmd = "Start" \/ (q[1].cmd = "Info" /\ Len(q) >= 2 /\ q[2].cmd = "Start")

StartInv ==
  /\ calls.continues = 0 => \A m \in Box : m.cmd # "Continue"
  /\ Plain /\ HasFlow => /\ StartFirst(mailbox)
                         /\ \A m \in Box : m.cmd = "Start" => Kept.token = 0
                         /\ \A w \in Work : w.phase # "START"
  /\ failures = 0 /\ HasFlow /\ Kept.phase = "START" => StartNext(mailbox)

LEMMA StartAppend ==
  ASSUME NEW q \in Seq(Command), NEW m \in Command
  PROVE  /\ StartFirst(q) /\ m.cmd # "Start" => StartFirst(Append(q, m))
         /\ StartNext(q) => StartNext(Append(q, m))
  <1> DEFINE t == Append(q, m)
  <1>1. /\ Len(q) \in Nat /\ Len(t) = Len(q) + 1 /\ t[Len(q) + 1] = m
        /\ \A i \in 1..Len(q) : t[i] = q[i]
        OBVIOUS
  <1> HIDE DEF t
  <1>2. ASSUME StartFirst(q), m.cmd # "Start", NEW i \in 1..Len(t), t[i].cmd = "Start"
        PROVE  i = 1 \/ (i = 2 /\ t[1].cmd = "Info")
    <2>1. i \in 1..Len(q)
          BY <1>1, <1>2
    <2>2. q[i].cmd = "Start" /\ t[1] = q[1]
          BY <1>1, <1>2, <2>1
    <2> QED
        BY <1>2, <2>1, <2>2 DEF StartFirst
  <1>3. StartNext(q) => StartNext(t)
        BY <1>1 DEF StartNext
  <1> QED
      BY <1>2, <1>3 DEF StartFirst, t

LEMMA StartTail ==
  ASSUME NEW q \in Seq(Command), q # <<>>
  PROVE  /\ StartFirst(q) => StartFirst(Tail(q))
         /\ StartFirst(q) /\ Head(q).cmd # "Info" => \A m \in Ent(Tail(q)) : m.cmd # "Start"
         /\ StartNext(q) /\ Head(q).cmd # "Start" => Head(q).cmd = "Info" /\ StartNext(Tail(q))
  <1> DEFINE t == Tail(q)
  <1>1. /\ Len(q) \in Nat /\ Len(q) >= 1 /\ Len(t) = Len(q) - 1 /\ Head(q) = q[1]
        /\ \A i \in 1..Len(t) : t[i] = q[i + 1]
        OBVIOUS
  <1> HIDE DEF t
  <1>2. ASSUME StartFirst(q), NEW i \in 1..Len(t), t[i].cmd = "Start"
        PROVE  i = 1 /\ q[1].cmd = "Info"
    <2>1. i + 1 \in 1..Len(q) /\ q[i + 1].cmd = "Start" /\ i + 1 # 1
          BY <1>1, <1>2
    <2>2. i + 1 = 2 /\ q[1].cmd = "Info"
          BY <1>2, <2>1 DEF StartFirst
    <2> QED
        BY <2>2
  <1>3. ASSUME StartNext(q), Head(q).cmd # "Start"
        PROVE  Head(q).cmd = "Info" /\ StartNext(t)
    <2>1. q[1].cmd = "Info" /\ Len(q) >= 2 /\ q[2].cmd = "Start"
          BY <1>1, <1>3 DEF StartNext
    <2>2. Len(t) >= 1 /\ 1 \in 1..Len(t) /\ t[1] = q[2]
          BY <1>1, <2>1
    <2> QED
        BY <1>1, <2>1, <2>2 DEF StartNext
  <1> QED
      BY <1>1, <1>2, <1>3 DEF StartFirst, Ent, t

LEMMA StartStep ==
  ASSUME OrderedFlow, Inv, BaseInv, StartInv, [Next]_vars
  PROVE  StartInv'
  <1>1. mailbox \in Seq(Command)
        BY DEF Inv, TypeInv
  <1>2. CASE ~Execute /\ ~StartFlow /\ ~Crash
    <2>1. PICK ms, ws :
            /\ Adds(ms, ws)
            /\ \A m \in ms : /\ m.cmd = "Start" => at.phase = "START"
                             /\ m.cmd = "Continue" => calls'.continues # 0
            /\ \A w \in ws : (w = Item(Kept) /\ Continue \in Box /\ Head(mailbox) = Continue) \/ w.phase # "START"
            /\ \/ mailbox' = mailbox
               \/ \E m \in ms \cap Command : mailbox' = Tell(m)
               \/ mailbox # <<>> /\ mailbox' = Tail(mailbox) /\ (failures' = 0 /\ Head(mailbox).cmd = "Start" => Kept.finished)
               \/ kind = "event"
          BY <1>2, AsideStep
    <2>2. /\ Kept' = Kept /\ HasFlow' = HasFlow /\ Box' \subseteq Box \cup ms /\ Work' \subseteq Work \cup ws
          /\ (Plain' => Plain) /\ (failures' = 0 => failures = 0) /\ (calls'.continues = 0 => calls.continues = 0)
          BY <2>1 DEF Adds, Grows, Plain, HasFlow
    <2>3. calls'.continues = 0 => \A m \in Box' : m.cmd # "Continue"
          BY <2>1, <2>2 DEF StartInv
    <2>4. ASSUME Plain', HasFlow'
          PROVE  /\ StartFirst(mailbox')
                 /\ \A m \in Box' : m.cmd = "Start" => Kept'.token = 0
                 /\ \A w \in Work' : w.phase # "START"
      <3>1. /\ StartFirst(mailbox) /\ at.phase # "START" /\ kind # "event"
            /\ \A m \in Box : m.cmd = "Start" => Kept.token = 0
            /\ \A w \in Work : w.phase # "START"
            BY <2>2, <2>4 DEF StartInv, Work, BaseInv
      <3>2. StartFirst(mailbox')
        <4>1. CASE mailbox' = mailbox
              BY <3>1, <4>1
        <4>2. ASSUME NEW m \in ms \cap Command, mailbox' = Tell(m) PROVE StartFirst(mailbox')
              BY <1>1, <2>1, <3>1, <4>2, StartAppend DEF Tell
        <4>3. CASE mailbox # <<>> /\ mailbox' = Tail(mailbox)
              BY <1>1, <3>1, <4>3, StartTail
        <4> QED
            BY <2>1, <3>1, <4>1, <4>2, <4>3
      <3>3. \A m \in Box' : m.cmd = "Start" => Kept'.token = 0
            BY <2>1, <2>2, <3>1
      <3>4. Continue \in Box /\ Head(mailbox) = Continue => Item(Kept).phase # "START"
        <4>1. SUFFICES ASSUME Continue \in Box, Head(mailbox) = Continue, Kept.phase = "START" PROVE FALSE
              BY DEF Item
        <4>2. calls.continues # 0 /\ failures = 0
              BY <2>2, <2>4, <4>1, PlainMessages DEF StartInv, Plain
        <4>3. StartNext(mailbox)
              BY <2>2, <2>4, <4>1, <4>2 DEF StartInv
        <4>4. Head(mailbox) = mailbox[1]
              BY <1>1, <4>3 DEF StartNext
        <4> QED
            BY <4>1, <4>3, <4>4, PlainMessages DEF StartNext
      <3> QED
          BY <2>1, <2>2, <3>1, <3>2, <3>3, <3>4
    <2>5. ASSUME failures' = 0, HasFlow', Kept'.phase = "START" PROVE StartNext(mailbox')
      <3>1. StartNext(mailbox) /\ kind # "event" /\ ~Kept.finished
            BY <2>2, <2>5 DEF StartInv, BaseInv, Inv, KindInv, Kept
      <3>2. CASE mailbox' = mailbox
            BY <3>1, <3>2
      <3>3. ASSUME NEW m \in ms \cap Command, mailbox' = Tell(m) PROVE StartNext(mailbox')
            BY <1>1, <3>1, <3>3, StartAppend DEF Tell
      <3>4. CASE mailbox # <<>> /\ mailbox' = Tail(mailbox) /\ Head(mailbox).cmd # "Start"
            BY <1>1, <3>1, <3>4, StartTail
      <3> QED
          BY <2>1, <2>5, <3>1, <3>2, <3>3, <3>4
    <2> QED
        BY <2>3, <2>4, <2>5 DEF StartInv
  <1>3. CASE Execute
    <2>1. PICK m \in Command, s \in AnySummary :
            /\ m \in Box /\ m = Head(mailbox) /\ mailbox # <<>> /\ mailbox' = Tail(mailbox) /\ Box' \subseteq Box
            /\ m.cmd \in Persisting
            /\ IF kind = "state" THEN Kept' = s /\ state = Kept /\ Work' \subseteq Work \cup {Item(s)}
                                 ELSE Kept' = Kept /\ Work' \subseteq Work
            /\ s.flow = state.flow /\ s.phase # "START"
            /\ m.cmd # "AddEmail" => s.token = state.token
            /\ UNCHANGED <<kind, calls, failures>>
          BY <1>3, ExecuteFacts, Zenon
    <2>2. calls'.continues = 0 => \A x \in Box' : x.cmd # "Continue"
          BY <2>1 DEF StartInv
    <2>3. CASE kind = "event"
      <3>1. ~HasFlow'
            BY <2>1, <2>3 DEF BaseInv, HasFlow
      <3> QED
          BY <2>2, <3>1 DEF StartInv
    <2>4. CASE kind = "state"
      <3>1. Kept' = s /\ HasFlow' = HasFlow /\ (Plain' <=> Plain) /\ Work' \subseteq Work \cup {Item(s)} /\ m.cmd # "Info"
            BY <2>1, <2>4 DEF HasFlow, Plain, Persisting
      <3>2. ASSUME Plain', HasFlow'
            PROVE  /\ StartFirst(mailbox')
                   /\ \A x \in Box' : x.cmd = "Start" => Kept'.token = 0
                   /\ \A w \in Work' : w.phase # "START"
        <4>1. StartFirst(mailbox) /\ \A w \in Work : w.phase # "START"
              BY <3>1, <3>2 DEF StartInv
        <4>2. StartFirst(mailbox')
              BY <1>1, <2>1, <4>1, StartTail
        <4>3. \A x \in Box' : x.cmd # "Start"
          <5>1. Box' = Ent(Tail(mailbox))
                BY <2>1 DEF Box, Ent
          <5> QED
              BY <1>1, <2>1, <3>1, <4>1, <5>1, StartTail
        <4> QED
            BY <2>1, <3>1, <4>1, <4>2, <4>3 DEF Item
      <3>3. Kept'.phase # "START"
            BY <2>1, <3>1
      <3> QED
          BY <2>2, <3>2, <3>3 DEF StartInv
    <2> QED
        BY <2>3, <2>4 DEF Inv, TypeInv
  <1>4. CASE StartFlow
    <2> DEFINE first == Start(GivenName, GivenEmail)
    <2>1. /\ Work' = {Nowhere} /\ first.cmd = "Start"
          /\ Box' \subseteq {Info, first} /\ mailbox' \in {<<first>>, <<Info, first>>}
          /\ IF kind' = "state" THEN Kept' = EmptyState(Flow) ELSE Kept' = Kept /\ ~HasFlow'
          BY <1>4, StartFlowFacts
    <2> HIDE DEF first
    <2>2. Info.cmd = "Info"
          BY PlainMessages
    <2>3. \A x \in Box' : x.cmd # "Continue"
          BY <2>1, <2>2
    <2>4. StartFirst(mailbox') /\ StartNext(mailbox')
      <3>1. \A x, y : Len(<<x>>) = 1 /\ <<x>>[1] = x /\ Len(<<x, y>>) = 2 /\ <<x, y>>[1] = x /\ <<x, y>>[2] = y
            OBVIOUS
      <3>2. CASE mailbox' = <<first>>
        <4>1. Len(mailbox') = 1 /\ mailbox'[1] = first
              BY <3>1, <3>2
        <4> QED
            BY <2>1, <4>1 DEF StartFirst, StartNext
      <3>3. CASE mailbox' = <<Info, first>>
        <4>1. Len(mailbox') = 2 /\ mailbox'[1] = Info /\ mailbox'[2] = first
              BY <3>1, <3>3
        <4> QED
            BY <2>1, <2>2, <4>1 DEF StartFirst, StartNext
      <3> QED
          BY <2>1, <3>2, <3>3
    <2>5. HasFlow' => Kept'.token = 0
          BY <2>1, EmptyFields
    <2> QED
        BY <2>1, <2>3, <2>4, <2>5, NowherePhase DEF StartInv
  <1>5. CASE Crash
    <2>1. /\ Work' = {Nowhere} /\ Box' = {} /\ mailbox' = <<>>
          /\ Kept' = Kept \/ (Kept.phase = "START" /\ Kept' = EmptyState(NoFlow))
          /\ stored'["state"].phase = stored["state"].phase
          BY <1>5, CrashFacts
    <2>2. StartFirst(mailbox')
          BY <2>1 DEF StartFirst
    <2>3. HasFlow' => Kept'.phase # "START"
      <3>1. Crash /\ Kept.phase = "START" => Kept' = EmptyState(NoFlow)
        <4>1. Crash => Kept' = Revived("state", Kept)
              BY DEF Crash, Kept, Inv, TypeInv
        <4> QED
            BY <4>1, Zenon DEF Revived, NoFlow
      <3> QED
          BY <1>5, <2>1, <3>1, EmptyFields DEF HasFlow
    <2> QED
        BY <2>1, <2>2, <2>3, NowherePhase DEF StartInv
  <1> QED
      BY <1>2, <1>3, <1>4, <1>5

-----------------------------------------------------------------------------
(* What is counted: AddEmail and Continue in the mailbox, and tokens       *)

Of(c) == {m \in Command : m.cmd = c}
InBox(c) == Count(mailbox, Of(c))
Asked(c) == IF c = "AddEmail" THEN calls.emails ELSE calls.continues

LEMMA AskedType == BaseInv => \A c : Asked(c) \in Nat
  BY EnrollAssumption DEF BaseInv, Asked

LEMMA InBoxType == TypeInv => \A c : InBox(c) \in Nat
  BY WhereFinite DEF TypeInv, InBox

LEMMA InBoxTell ==
  ASSUME TypeInv, NEW m \in Command, mailbox' = Tell(m), NEW c
  PROVE  InBox(c)' <= InBox(c) + (IF m.cmd = c THEN 1 ELSE 0)
  <1>1. InBox(c)' = Count(mailbox', Of(c))
        BY DEF InBox, Count, Where, Of, Command
  <1>2. m \in Of(c) <=> m.cmd = c
        BY DEF Of
  <1> QED
      BY <1>1, <1>2, TellBox DEF InBox

LEMMA InBoxTake ==
  ASSUME TypeInv, mailbox # <<>>, mailbox' \in {<<>>, Tail(mailbox)}, NEW c
  PROVE  InBox(c)' + (IF Head(mailbox).cmd = c THEN 1 ELSE 0) <= InBox(c)
  <1>1. InBox(c)' = Count(mailbox', Of(c))
        BY DEF InBox, Count, Where, Of, Command
  <1>2. Head(mailbox) \in Of(c) <=> Head(mailbox).cmd = c
        BY DEF Of, TypeInv
  <1> QED
      BY <1>1, <1>2, TakeBox DEF InBox

LEMMA InBoxSame == \A c : mailbox' = mailbox => InBox(c)' = InBox(c)
  BY DEF InBox, Count, Where, Of

\* A command gets into the mailbox by a call.
LEMMA InBoxStep ==
  ASSUME Inv, BaseInv, BaseInv', [Next]_vars, NEW c \in {"AddEmail", "Continue"}
  PROVE  /\ InBox(c)' + Asked(c) <= InBox(c) + Asked(c)' /\ Asked(c) <= Asked(c)'
         /\ (Execute \/ ExecuteContinue) /\ Head(mailbox).cmd = c => InBox(c)' + 1 <= InBox(c)
         /\ ~(ContinueFlow \/ AddEmailCall \/ ConfirmEmailCall) => InBox(c)' <= InBox(c) /\ calls' = calls
  <1>1. TypeInv /\ Asked(c) \in Nat /\ InBox(c) \in Nat /\ InBox(c)' \in Nat
    <2>1. TypeInv /\ TypeInv'
          BY InvStep DEF Inv
    <2>2. InBox(c)' \in Nat
          BY <2>1, InBoxType, WhereFinite DEF TypeInv, InBox
    <2> QED
        BY <2>1, <2>2, AskedType, InBoxType
  <1>2. calls' = calls => Asked(c)' = Asked(c)
        BY DEF Asked
  <1>3. CASE ContinueFlow \/ AddEmailCall \/ ConfirmEmailCall
    <2>1. PICK bound : \E call \in {"emails", "confirms", "continues"}, m \in Command :
            /\ Forward(call, bound, m)
            /\ \/ call = "continues" /\ m.cmd = "Continue"
               \/ call = "emails" /\ m.cmd = "AddEmail"
               \/ call = "confirms" /\ m.cmd = "ConfirmEmail"
          BY <1>3, CallMessage
    <2>2. PICK call \in {"emails", "confirms", "continues"}, m \in Command :
            /\ Forward(call, bound, m)
            /\ \/ call = "continues" /\ m.cmd = "Continue"
               \/ call = "emails" /\ m.cmd = "AddEmail"
               \/ call = "confirms" /\ m.cmd = "ConfirmEmail"
          BY <2>1
    <2>3. mailbox' = Tell(m) /\ calls' = [calls EXCEPT ![call] = @ + 1]
          BY <2>2 DEF Forward
    <2>4. InBox(c)' <= InBox(c) + (IF m.cmd = c THEN 1 ELSE 0)
          BY <1>1, <2>3, InBoxTell
    <2>5. Asked(c)' = Asked(c) + (IF m.cmd = c THEN 1 ELSE 0)
      <3>1. calls \in [emails: 0..MaxEmails, confirms: 0..MaxConfirms, continues: 0..MaxContinues]
            BY DEF BaseInv
      <3>2. CASE call = "continues"
            BY <2>2, <2>3, <3>1, <3>2 DEF Asked
      <3>3. CASE call = "emails"
            BY <2>2, <2>3, <3>1, <3>3 DEF Asked
      <3>4. CASE call = "confirms"
            BY <2>2, <2>3, <3>1, <3>4 DEF Asked
      <3> QED
          BY <3>2, <3>3, <3>4
    <2>6. ~Execute /\ ~ExecuteContinue
      <3>1. replies' = replies /\ started /\ mailbox' = Tell(m)
            BY <2>2 DEF Forward, Find
      <3>2. Execute \/ ExecuteContinue => calls' = calls
            BY DEF Execute, ExecuteContinue, world
      <3>3. calls' # calls
        <4>1. calls \in [emails: 0..MaxEmails, confirms: 0..MaxConfirms, continues: 0..MaxContinues]
              BY DEF BaseInv
        <4>2. calls[call] \in Nat /\ calls'[call] = calls[call] + 1
          <5>1. CASE call = "continues"
                BY <2>3, <4>1, <5>1, EnrollAssumption
          <5>2. CASE call = "emails"
                BY <2>3, <4>1, <5>2, EnrollAssumption
          <5>3. CASE call = "confirms"
                BY <2>3, <4>1, <5>3, EnrollAssumption
          <5> QED
              BY <5>1, <5>2, <5>3
        <4> QED
            BY <4>2
      <3> QED
          BY <3>2, <3>3
    <2> QED
        BY <1>1, <1>3, <2>4, <2>5, <2>6
  <1>4. CASE Execute \/ Reject \/ ExecuteContinue \/ ExecuteInfo \/ Ignore \/ NoMatch \/ PersistFailure
    <2>1. calls' = calls
          BY <1>4 DEF Execute, Reject, ExecuteContinue, ExecuteInfo, Ignore, NoMatch, PersistFailure, world
    <2>2. mailbox # <<>>
          BY <1>4 DEF Execute, Reject, ExecuteContinue, ExecuteInfo, Ignore, NoMatch, PersistFailure, Receives
    <2>3. mailbox' = <<>> \/ mailbox' = Tail(mailbox)
          BY <1>4, Zenon DEF Execute, Reject, ExecuteContinue, ExecuteInfo, Ignore, NoMatch, PersistFailure
    <2>4. InBox(c)' + (IF Head(mailbox).cmd = c THEN 1 ELSE 0) <= InBox(c)
          BY <1>1, <2>2, <2>3, InBoxTake
    <2> QED
        BY <1>1, <1>2, <2>1, <2>4
  <1>5. ASSUME ~Execute, ~ExecuteContinue, calls' = calls, InBox(c)' <= InBox(c)
        PROVE  /\ InBox(c)' + Asked(c) <= InBox(c) + Asked(c)' /\ Asked(c) <= Asked(c)'
               /\ (Execute \/ ExecuteContinue) /\ Head(mailbox).cmd = c => InBox(c)' + 1 <= InBox(c)
               /\ InBox(c)' <= InBox(c) /\ calls' = calls
        BY <1>1, <1>2, <1>5
  <1>6. CASE ~Execute /\ ~ExecuteContinue
             /\ (GetSummary \/ ListenerTimeout \/ Receive \/ Advance \/ PhaseMail \/ PhaseRefused \/ PhaseDone \/ ServiceLost \/ UNCHANGED vars)
    <2>1. calls' = calls /\ mailbox' = mailbox
          BY <1>6 DEF GetSummary, ListenerTimeout, Receive, Advance, PhaseMail, PhaseRefused, PhaseDone, ServiceLost, vars, actors, world
    <2> QED
        BY <1>1, <1>5, <1>6, <2>1, InBoxSame
  <1>7. CASE ~Execute /\ ~ExecuteContinue
             /\ (ListenerAsk \/ PhaseStart \/ PhaseEmail \/ PhaseFinish \/ PhaseCreateUser)
    <2>1. PICK m \in Command : mailbox' = Tell(m) /\ m.cmd \notin {"AddEmail", "Continue"} /\ calls' = calls
      <3>1. CASE ListenerAsk
            BY <3>1, MessageType DEF ListenerAsk, world
      <3>2. CASE PhaseStart \/ PhaseEmail \/ PhaseFinish
            BY <3>2, TellMessage DEF TellSession
      <3>3. CASE PhaseCreateUser
        <4>1. TellSession(CreateUser(Len(users'))) /\ users' = Append(users, NewUser)
              BY <3>3 DEF PhaseCreateUser
        <4>2. Len(users') \in Nat
          <5>1. Len(users') = Len(users) + 1 /\ Len(users) \in Nat
                BY <1>1, <4>1 DEF TypeInv
          <5> QED
              BY <5>1
        <4> QED
            BY <4>1, <4>2, MessageType DEF TellSession
      <3> QED
          BY <1>7, <3>1, <3>2, <3>3
    <2> QED
        BY <1>1, <1>5, <1>7, <2>1, InBoxTell
  <1>8. CASE StartFlow
    <2> DEFINE first == Start(GivenName, GivenEmail)
    <2>1. /\ Box' \subseteq {Info, first} /\ first.cmd = "Start" /\ calls' = calls
          /\ mailbox' \in {<<first>>, <<Info, first>>}
          BY <1>8, StartFlowFacts
    <2>2. Where(mailbox', Of(c)) = {}
      <3>1. \A i \in 1..Len(mailbox') : mailbox'[i] \in {Info, first}
            BY <2>1 DEF Box, Ent
      <3>2. Info \notin Of(c) /\ first \notin Of(c)
            BY <2>1, PlainMessages DEF Of
      <3> QED
          BY <3>1, <3>2 DEF Where
    <2>3. InBox(c)' = 0
          BY <2>2, FS_EmptySet DEF InBox, Count, Where, Of
    <2>4. ~Execute /\ ~ExecuteContinue
          BY <1>8 DEF StartFlow, Execute, ExecuteContinue, world
    <2> QED
        BY <1>1, <1>5, <2>1, <2>3, <2>4
  <1>9. CASE Crash
    <2>1. mailbox' = <<>> /\ calls' = calls
          BY <1>9 DEF Crash
    <2>2. InBox(c)' = 0
          BY <2>1, EntEmpty DEF InBox, Count, Where, Of
    <2>3. ~Execute /\ ~ExecuteContinue
      <3>1. session' = "none"
            BY <1>9 DEF Crash
      <3>2. Execute \/ ExecuteContinue => session = "up" /\ session' = session
            BY DEF Execute, ExecuteContinue, Receives
      <3> QED
          BY <3>1, <3>2
    <2> QED
        BY <1>1, <1>5, <2>1, <2>2, <2>3
  <1> QED
      BY <1>3, <1>4, <1>6, <1>7, <1>8, <1>9 DEF Next, Session, Listener

\* What the listener has been told, in either kind of session.
Seen == {at.summary} \cup {r.summary : r \in Ent(replies)}
Told == {r.summary : r \in {x \in Ent(replies) : x.ok}}

LEMMA ReplySeen ==
  ASSUME TypeInv, NEW r \in AnyReply, replies' = Reply(r), at' = at
  PROVE  Seen' \subseteq Seen \cup {r.summary} /\ Told' \subseteq Told \cup {x \in {r.summary} : r.ok}
  <1>1. Ent(replies') \subseteq Ent(replies) \cup {r}
    <2>1. CASE replies' = replies
          BY <2>1
    <2>2. CASE replies' = Append(replies, r)
          BY <2>2, EntAppend DEF TypeInv
    <2> QED
        BY <2>1, <2>2 DEF Reply
  <1>2. /\ Seen' = {at.summary} \cup {x.summary : x \in Ent(replies')}
        /\ Told' = {x.summary : x \in {y \in Ent(replies') : y.ok}}
        BY DEF Seen, Told, Ent
  <1> QED
      BY <1>1, <1>2 DEF Seen, Told

LEMMA SeenStep ==
  ASSUME Inv, BaseInv, [Next]_vars
  PROVE  /\ \A x \in Seen' : x \in Seen \/ x.token = 0 \/ x = state \/ (Execute /\ x = state')
         /\ \A x \in Told' : x \in Told \/ x = state \/ (Execute /\ x = state')
  <1>1. TypeInv
        BY DEF Inv
  <1>2. Nowhere.summary.token = 0 /\ Error.summary.token = 0 /\ ~Error.ok /\ Error \in AnyReply
    <2>1. <<>> \in Seq(Phases)
          OBVIOUS
    <2>2. Nowhere.summary = EmptyState(<<>>) /\ Error.summary = EmptyState(<<>>)
          BY Zenon DEF Nowhere, Error
    <2> QED
        BY <2>1, <2>2, EmptyFields, EmptyStateType DEF Error, AnyReply
  <1>3. ASSUME UNCHANGED <<replies, at>> PROVE Seen' = Seen /\ Told' = Told
        BY <1>3 DEF Seen, Told, Ent
  <1>4. CASE Execute
    <2>1. PICK m \in Command, s \in AnySummary :
            /\ stored' = [stored EXCEPT ![kind] = s] /\ UNCHANGED <<kind, at>>
            /\ replies' = (IF m.cmd = "UpdatePhase" THEN replies ELSE Reply(Success(s)))
          BY <1>4, ExecuteFacts, Zenon
    <2>2. state' = s /\ Success(s) \in AnyReply /\ Success(s).summary = s
          BY <1>1, <2>1 DEF TypeInv, state, Success, AnyReply
    <2>3. CASE replies' = replies
          BY <1>3, <2>1, <2>3
    <2>4. CASE replies' = Reply(Success(s))
          BY <1>1, <1>4, <2>1, <2>2, <2>4, ReplySeen
    <2> QED
        BY <2>1, <2>3, <2>4
  <1>5. CASE ExecuteContinue
    <2>1. replies' = Reply(Success(state)) /\ at' = at
          BY <1>5 DEF ExecuteContinue
    <2>2. Success(state) \in AnyReply /\ Success(state).summary = state
          BY <1>1, StateType DEF Success, AnyReply
    <2> QED
        BY <1>1, <2>1, <2>2, ReplySeen
  <1>6. CASE Reject
    <2>1. replies' = Reply(Error) /\ at' = at
          BY <1>6 DEF Reject
    <2> QED
        BY <1>1, <1>2, <2>1, ReplySeen
  <1>7. CASE Receive
    <2>1. /\ replies # <<>> /\ replies' = Tail(replies)
          /\ at' = Nowhere \/ at'.summary = Head(replies).summary
          BY <1>7 DEF Receive
    <2>2. Ent(replies) = {Head(replies)} \cup Ent(Tail(replies))
          BY <1>1, <2>1, EntTail DEF TypeInv
    <2>3. /\ Seen' = {at'.summary} \cup {r.summary : r \in Ent(Tail(replies))}
          /\ Told' = {r.summary : r \in {x \in Ent(Tail(replies)) : x.ok}}
          BY <2>1 DEF Seen, Told, Ent
    <2> QED
        BY <1>2, <2>1, <2>2, <2>3 DEF Seen, Told
  <1>8. CASE Advance \/ PhaseMail
    <2>1. PICK p : Enter(NextPhase(p))
          BY <1>8 DEF Advance, PhaseMail
    <2>2. replies' = replies
          BY <1>8 DEF Advance, PhaseMail
    <2>3. at' = Nowhere \/ at' = [at EXCEPT !.phase = NextPhase(p)]
          BY <2>1, Zenon DEF Enter
    <2>4. at \in [phase: Phases, summary: AnySummary]
          BY <1>1 DEF TypeInv
    <2>5. at' = Nowhere \/ at'.summary = at.summary
          BY <2>3, <2>4
    <2>6. Seen' = {at'.summary} \cup {r.summary : r \in Ent(replies)} /\ Told' = Told
          BY <2>2 DEF Seen, Told, Ent
    <2> QED
        BY <1>2, <2>5, <2>6 DEF Seen
  <1>9. CASE PhaseStart \/ PhaseEmail \/ PhaseFinish \/ PhaseCreateUser \/ PhaseRefused \/ PhaseDone
    <2>1. at' = Nowhere /\ replies' = replies
          BY <1>9 DEF PhaseStart, PhaseEmail, PhaseFinish, PhaseCreateUser, PhaseRefused, PhaseDone, TellSession
    <2>2. Seen' = {Nowhere.summary} \cup {r.summary : r \in Ent(replies)} /\ Told' = Told
          BY <2>1 DEF Seen, Told, Ent
    <2> QED
        BY <1>2, <2>2 DEF Seen
  <1>10. CASE ListenerTimeout \/ ServiceLost \/ Crash
    <2>1. (at' = Nowhere \/ at' = at) /\ replies' = <<>>
          BY <1>10 DEF ListenerTimeout, ServiceLost, Crash
    <2>2. Seen' = {at'.summary} /\ Told' = {}
          BY <2>1, EntEmpty DEF Seen, Told, Ent
    <2> QED
        BY <1>2, <2>1, <2>2 DEF Seen
  <1>11. CASE \/ StartFlow \/ ContinueFlow \/ AddEmailCall \/ ConfirmEmailCall \/ GetSummary
              \/ ExecuteInfo \/ Ignore \/ NoMatch \/ PersistFailure \/ ListenerAsk \/ UNCHANGED vars
    <2>1. UNCHANGED <<replies, at>>
          BY <1>11 DEF StartFlow, ContinueFlow, AddEmailCall, ConfirmEmailCall, Forward, Find, GetSummary,
                       ExecuteInfo, Ignore, NoMatch, PersistFailure, ListenerAsk, vars, actors
    <2> QED
        BY <1>3, <2>1
  <1> QED
      BY <1>4, <1>5, <1>6, <1>7, <1>8, <1>9, <1>10, <1>11 DEF Next, Session, Listener

LEMMA BaseStep ==
  ASSUME OrderedFlow, Inv, BaseInv, [Next]_vars
  PROVE  BaseInv'
  <1>1. Inv /\ Inv'
        BY InvStep
  <1>2. CASE ~Execute /\ ~StartFlow /\ ~Crash
    <2>1. PICK ms, ws :
            /\ Adds(ms, ws)
            /\ \A m \in ms : m.cmd = "UpdatePhase" => m.phase \in {"EMAIL", "CONFIRM_EMAIL"}
          BY <1>2, AsideStep
    <2>2. /\ Kept' = Kept /\ HasFlow' = HasFlow
          /\ \A m \in Box' : m.cmd = "UpdatePhase" => m.phase \in {"EMAIL", "CONFIRM_EMAIL"}
          BY <2>1 DEF Adds, HasFlow, BaseInv
    <2>3. CASE ContinueFlow \/ AddEmailCall \/ ConfirmEmailCall \/ GetSummary
      <3>1. /\ started /\ UNCHANGED <<enrollType, stored, args, replies, at, started, crashes, failures, mailed, users>>
            /\ \/ session = "none" /\ session' = "up" /\ listener' = "new" /\ kind' \in {"state", enrollType}
               \/ session # "none" /\ UNCHANGED <<session, listener, kind>>
            BY <2>3 DEF ContinueFlow, AddEmailCall, ConfirmEmailCall, Forward, GetSummary, Find
      <3>2. calls' \in [emails: 0..MaxEmails, confirms: 0..MaxConfirms, continues: 0..MaxContinues]
        <4>1. calls \in [emails: 0..MaxEmails, confirms: 0..MaxConfirms, continues: 0..MaxContinues]
              BY DEF BaseInv
        <4>2. CASE ContinueFlow
          <5>1. calls["continues"] < MaxContinues /\ calls' = [calls EXCEPT !["continues"] = @ + 1]
                BY <4>2 DEF ContinueFlow, Forward
          <5> QED
              BY <4>1, <5>1, EnrollAssumption
        <4>3. CASE AddEmailCall
          <5>1. calls["emails"] < MaxEmails /\ calls' = [calls EXCEPT !["emails"] = @ + 1]
                BY <4>3 DEF AddEmailCall, Forward
          <5> QED
              BY <4>1, <5>1, EnrollAssumption
        <4>4. CASE ConfirmEmailCall
          <5>1. calls["confirms"] < MaxConfirms /\ calls' = [calls EXCEPT !["confirms"] = @ + 1]
                BY <4>4 DEF ConfirmEmailCall, Forward
          <5> QED
              BY <4>1, <5>1, EnrollAssumption
        <4>5. CASE GetSummary
              BY <4>1, <4>5 DEF GetSummary
        <4> QED
            BY <2>3, <4>2, <4>3, <4>4, <4>5
      <3>3. /\ session' \in {"none", "up", "down"} /\ listener' \in {"none", "new", "asking", "up", "down"}
            /\ args' \in BOOLEAN /\ started' \in BOOLEAN
            /\ crashes' \in 0..MaxCrashes /\ failures' \in 0..MaxFailures
            BY <3>1 DEF BaseInv
      <3>4. /\ session' # "none" /\ started' = TRUE
            /\ session' = "down" => kind' = "event"
            /\ kind' = "event" => enrollType' = "event"
            /\ HasFlow' => enrollType' = "state" /\ Kept'.flow = Flow
            BY <2>2, <3>1 DEF BaseInv
      <3>5. \A k \in {"state", "event"} : stored'[k].phase \in SessionPhases
            BY <3>1 DEF BaseInv
      <3> QED
          BY <2>2, <3>2, <3>3, <3>4, <3>5 DEF BaseInv
    <2>4. CASE Reject \/ ExecuteContinue \/ ExecuteInfo \/ Ignore \/ NoMatch \/ PersistFailure \/ Listener
      <3>1. UNCHANGED <<enrollType, stored, kind, args, started, calls, crashes>>
            BY <2>4 DEF Reject, ExecuteContinue, ExecuteInfo, Ignore, NoMatch, PersistFailure, world,
                        Listener, ListenerAsk, ListenerTimeout, Receive, Advance, PhaseStart, PhaseEmail, PhaseMail,
                        PhaseCreateUser, PhaseRefused, PhaseFinish, PhaseDone, ServiceLost, TellSession
      <3>2. session # "none"
        <4>1. CASE Listener
          <5>1. listener # "none"
                BY <4>1 DEF Listener, ListenerAsk, ListenerTimeout, Receive, Advance, PhaseStart, PhaseEmail, PhaseMail,
                        PhaseCreateUser, PhaseRefused, PhaseFinish, PhaseDone, ServiceLost, At
          <5> QED
              BY <5>1 DEF Inv, KindInv
        <4>2. CASE ~Listener
              BY <2>4, <4>2 DEF Reject, ExecuteContinue, ExecuteInfo, Ignore, NoMatch, PersistFailure, Receives
        <4> QED
            BY <4>1, <4>2
      <3>3. started
            BY <3>2 DEF Inv, KindInv
      <3>4. session' = session \/ (session' = "down" /\ kind = "event")
            BY <2>4 DEF Reject, ExecuteContinue, ExecuteInfo, Ignore, NoMatch, PersistFailure,
                        Listener, ListenerAsk, ListenerTimeout, Receive, Advance, PhaseStart, PhaseEmail, PhaseMail,
                        PhaseCreateUser, PhaseRefused, PhaseFinish, PhaseDone, ServiceLost, TellSession
      <3>5. listener' \in {listener, "up", "asking", "down"}
            BY <2>4 DEF Reject, ExecuteContinue, ExecuteInfo, Ignore, NoMatch, PersistFailure,
                        Listener, ListenerAsk, ListenerTimeout, Receive, Advance, PhaseStart, PhaseEmail, PhaseMail,
                        PhaseCreateUser, PhaseRefused, PhaseFinish, PhaseDone, ServiceLost, TellSession
      <3>6. failures' = failures \/ (failures < MaxFailures /\ failures' = failures + 1)
            BY <2>4 DEF Reject, ExecuteContinue, ExecuteInfo, Ignore, NoMatch, PersistFailure, world,
                        Listener, ListenerAsk, ListenerTimeout, Receive, Advance, PhaseStart, PhaseEmail, PhaseMail,
                        PhaseCreateUser, PhaseRefused, PhaseFinish, PhaseDone, ServiceLost, TellSession
      <3>7. session' \in {"up", "down"} /\ listener' \in {"none", "new", "asking", "up", "down"}
            BY <3>2, <3>4, <3>5 DEF BaseInv
      <3> QED
          BY <2>2, <3>1, <3>2, <3>3, <3>4, <3>6, <3>7, BaseAside
    <2>5. CASE UNCHANGED vars
      <3>1. UNCHANGED <<enrollType, stored, kind, session, listener, args, started, calls, crashes, failures, mailed, users, replies, at>>
            BY <2>5 DEF vars, actors, world
      <3> QED
          BY <2>2, <3>1 DEF BaseInv
    <2> QED
        BY <1>2, <2>3, <2>4, <2>5 DEF Next, Session
  <1>3. CASE Execute
    <2>1. PICK m \in Command, s \in AnySummary :
            /\ Box' \subseteq Box /\ stored' = [stored EXCEPT ![kind] = s]
            /\ IF kind = "state" THEN Kept' = s /\ state = Kept ELSE Kept' = Kept
            /\ s.flow = state.flow /\ s.phase \in SessionPhases
            /\ UNCHANGED <<enrollType, kind, session, listener, args, started, calls, crashes, failures, mailed, users>>
          BY <1>3, ExecuteFacts, Zenon
    <2>2. Kept'.flow = Kept.flow /\ HasFlow' = HasFlow
          BY <2>1 DEF HasFlow
    <2>3. \A k \in {"state", "event"} : stored'[k].phase \in SessionPhases
          BY <2>1 DEF BaseInv, Inv, TypeInv
    <2>4. session = "up"
          BY <1>3 DEF Execute
    <2> QED
        BY <2>1, <2>2, <2>3, <2>4 DEF BaseInv
  <1>4. CASE StartFlow
    <2> DEFINE first == Start(GivenName, GivenEmail)
    <2>1. /\ Box' \subseteq {Info, first} /\ first.cmd = "Start" /\ kind' = enrollType
          /\ stored' = [stored EXCEPT ![kind'] = EmptyState(Flow)]
          /\ IF kind' = "state" THEN Kept' = EmptyState(Flow) ELSE Kept' = Kept /\ ~HasFlow'
          /\ UNCHANGED <<calls, failures>>
          BY <1>4, StartFlowFacts
    <2>2. /\ session' = "up" /\ started' = TRUE /\ args' = TRUE /\ listener' \in {"new", "asking"}
          /\ UNCHANGED <<enrollType, crashes>>
          BY <1>4 DEF StartFlow
    <2> HIDE DEF first
    <2>3. \A m \in Box' : m.cmd # "UpdatePhase"
          BY <2>1, PlainMessages
    <2>4. \A k \in {"state", "event"} : stored'[k].phase \in SessionPhases
          BY <2>1, EmptyFields DEF BaseInv, Inv, TypeInv, SessionPhases
    <2>5. HasFlow' => enrollType' = "state" /\ Kept'.flow = Flow
          BY <2>1, <2>2, EmptyFields
    <2> QED
        BY <2>1, <2>2, <2>3, <2>4, <2>5 DEF BaseInv
  <1>5. CASE Crash
    <2>1. /\ Box' = {} /\ replies' = <<>> /\ at' = Nowhere
          /\ Kept' = Kept \/ (Kept.phase = "START" /\ Kept' = EmptyState(NoFlow))
          /\ \A k \in {"state", "event"} : stored'[k].phase = stored[k].phase
          /\ UNCHANGED <<kind, calls, failures, mailed, users>>
          BY <1>5, CrashFacts
    <2>2. /\ session' = "none" /\ listener' = "none" /\ args' = FALSE /\ started /\ started' = started
          /\ crashes < MaxCrashes /\ crashes' = crashes + 1 /\ enrollType' = enrollType
          BY <1>5 DEF Crash
    <2>3. crashes' \in 0..MaxCrashes
          BY <2>2, EnrollAssumption DEF BaseInv
    <2>4. HasFlow' => enrollType' = "state" /\ Kept'.flow = Flow
          BY <2>1, <2>2, EmptyFields DEF HasFlow, BaseInv
    <2> QED
        BY <2>1, <2>2, <2>3, <2>4 DEF BaseInv
  <1> QED
      BY <1>2, <1>3, <1>4, <1>5

\* A token is drawn for an AddEmail that somebody asked for.
TokenInv ==
  /\ \A k \in {"state", "event"} : /\ stored[k].token <= calls.emails
                                   /\ stored[k].phase = "START" => stored[k].token = 0
  /\ state.token + InBox("AddEmail") <= calls.emails
  /\ \A x \in Seen : x.token <= calls.emails
  /\ \A x \in Told : x.phase \in SessionPhases
  /\ confirmed \in Seq(Nat)

LEMMA TokenInit == Init => TokenInv
  <1> SUFFICES ASSUME Init PROVE TokenInv
      OBVIOUS
  <1>1. Inv /\ BaseInv
        BY InvInit, BaseInit
  <1>2. \A k \in {"state", "event"} : stored[k] = EmptyState(NoFlow)
        BY Zenon DEF Init, NoFlow
  <1>3. calls.emails = 0 /\ mailbox = <<>> /\ replies = <<>> /\ at = Nowhere /\ confirmed = <<>>
        BY DEF Init
  <1>4. InBox("AddEmail") = 0
        BY <1>3, EntEmpty DEF InBox
  <1>5. Seen = {Nowhere.summary} /\ Told = {}
        BY <1>3, EntEmpty DEF Seen, Told
  <1>6. Nowhere.summary.token = 0
    <2>1. Nowhere.summary = EmptyState(<<>>)
          BY Zenon DEF Nowhere
    <2> QED
        BY <2>1, EmptyFields
  <1>7. state.token = 0
        BY <1>1, <1>2, EmptyFields DEF state, Inv, TypeInv
  <1>8. \A k \in {"state", "event"} : stored[k].token = 0
        BY <1>2, EmptyFields
  <1> QED
      BY <1>3, <1>4, <1>5, <1>6, <1>7, <1>8 DEF TokenInv

LEMMA TokenStep ==
  ASSUME OrderedFlow, Inv, BaseInv, TokenInv, [Next]_vars
  PROVE  TokenInv'
  <1>1. Inv' /\ BaseInv' /\ TypeInv /\ TypeInv'
        BY InvStep, BaseStep DEF Inv
  <1> DEFINE n == InBox("AddEmail")
             n2 == InBox("AddEmail")'
             e == calls.emails
             e2 == calls'.emails
  <1>2. /\ n \in Nat /\ n2 \in Nat /\ e \in Nat /\ e2 \in Nat
        /\ n2 + e <= n + e2 /\ e <= e2
        /\ Execute /\ Head(mailbox).cmd = "AddEmail" => n2 + 1 <= n
        /\ Execute => n2 <= n /\ e2 = e
    <2>1. n \in Nat /\ n2 \in Nat
      <3>1. InBox("AddEmail")' \in Nat
            BY <1>1, InBoxType, WhereFinite DEF TypeInv, InBox
      <3> QED
          BY <1>1, <3>1, InBoxType
    <2>2. e \in Nat /\ e2 \in Nat
          BY <1>1, EnrollAssumption DEF BaseInv
    <2>3. Execute => ~(ContinueFlow \/ AddEmailCall \/ ConfirmEmailCall) /\ e2 = e
      <3>1. Execute => calls' = calls
            BY DEF Execute, world
      <3>2. ContinueFlow \/ AddEmailCall \/ ConfirmEmailCall => calls' # calls
        <4>1. calls \in [emails: 0..MaxEmails, confirms: 0..MaxConfirms, continues: 0..MaxContinues]
              BY DEF BaseInv
        <4>2. ContinueFlow => calls' # calls
              BY <4>1, EnrollAssumption DEF ContinueFlow, Forward
        <4>3. AddEmailCall => calls' # calls
              BY <4>1, EnrollAssumption DEF AddEmailCall, Forward
        <4>4. ConfirmEmailCall => calls' # calls
              BY <4>1, EnrollAssumption DEF ConfirmEmailCall, Forward
        <4> QED
            BY <4>2, <4>3, <4>4
      <3> QED
          BY <3>1, <3>2
    <2>4. Asked("AddEmail") = e /\ Asked("AddEmail")' = e2
          BY DEF Asked
    <2> QED
        BY <1>1, <2>1, <2>2, <2>3, <2>4, InBoxStep
  <1> HIDE DEF n, n2, e, e2
  <1>3. stored \in [{"state", "event"} -> AnySummary] /\ stored' \in [{"state", "event"} -> AnySummary]
        BY <1>1 DEF TypeInv
  <1>4. /\ \A k \in {"state", "event"} : /\ stored[k].token \in Nat /\ stored'[k].token \in Nat
                                         /\ stored[k].token <= e /\ (stored[k].phase = "START" => stored[k].token = 0)
        /\ state.token \in Nat /\ state'.token \in Nat /\ state.token + n <= e
        BY <1>1, <1>3 DEF TokenInv, e, n, AnySummary, state, TypeInv
  <1>5. /\ \A k \in {"state", "event"} : /\ stored'[k].token <= e2
                                         /\ stored'[k].phase = "START" => stored'[k].token = 0
        /\ state'.token + n2 <= e2
    <2>1. CASE Execute
      <3>1. PICK m \in Command, s \in AnySummary :
              /\ m = Head(mailbox) /\ stored' = [stored EXCEPT ![kind] = s] /\ kind' = kind
              /\ s.phase # "START" /\ s.token = IF m.cmd = "AddEmail" THEN state.token + 1 ELSE state.token
            BY <2>1, ExecuteFacts, Zenon
      <3>2. s.token + n2 <= e2 /\ s.token \in Nat
            BY <1>2, <1>4, <2>1, <3>1
      <3>3. state' = s
            BY <1>1, <3>1 DEF TypeInv, state
      <3>4. \A k \in {"state", "event"} : stored'[k] = s \/ stored'[k] = stored[k]
            BY <1>3, <3>1
      <3>5. s.token <= e2 /\ e <= e2
            BY <1>2, <3>2
      <3>6. ASSUME NEW k \in {"state", "event"}
            PROVE  stored'[k].token <= e2 /\ (stored'[k].phase = "START" => stored'[k].token = 0)
        <4>1. CASE stored'[k] = s
              BY <3>1, <3>5, <4>1
        <4>2. CASE stored'[k] = stored[k]
              BY <1>2, <1>4, <3>5, <4>2
        <4> QED
            BY <3>4, <4>1, <4>2
      <3> QED
          BY <3>2, <3>3, <3>6
    <2>2. CASE StartFlow
      <3>1. stored' = [stored EXCEPT ![kind'] = EmptyState(Flow)]
            BY <2>2, StartFlowFacts
      <3>2. state' = EmptyState(Flow) /\ \A k \in {"state", "event"} : stored'[k] \in {stored[k], EmptyState(Flow)}
            BY <1>1, <3>1 DEF TypeInv, state
      <3>3. state'.token = 0 /\ \A k \in {"state", "event"} : stored'[k] = stored[k] \/ stored'[k].token = 0
            BY <3>2, EmptyFields
      <3>4. n2 = 0 \/ n2 + e <= n + e2
            BY <1>2
      <3>5. n2 + state'.token <= e2
            BY <1>2, <1>4, <3>3
      <3> QED
          BY <1>2, <1>4, <3>3, <3>5
    <2>3. CASE Crash
      <3>1. /\ \A k \in {"state", "event"} :
                 /\ stored'[k].phase = stored[k].phase
                 /\ stored'[k].token = IF stored[k].phase = "START" THEN 0 ELSE stored[k].token
            /\ kind' = kind
            BY <2>3, CrashFacts
      <3>2. \A k \in {"state", "event"} : stored'[k].token = stored[k].token
            BY <1>4, <3>1
      <3>3. state'.token = state.token
            BY <1>1, <3>1, <3>2 DEF state, TypeInv
      <3> QED
          BY <1>2, <1>4, <3>1, <3>2, <3>3
    <2>4. CASE ~Execute /\ ~StartFlow /\ ~Crash
      <3>1. stored' = stored
            BY <2>4 DEF Next, Session, Listener, vars, ContinueFlow, AddEmailCall, ConfirmEmailCall, Forward, Find, GetSummary,
               Reject, ExecuteContinue, ExecuteInfo, Ignore, NoMatch, PersistFailure,
               ListenerAsk, ListenerTimeout, Receive, Advance, PhaseStart, PhaseEmail, PhaseMail,
               PhaseCreateUser, PhaseRefused, PhaseFinish, PhaseDone, ServiceLost, TellSession
      <3>2. CASE kind' = kind
        <4>1. state' = state
              BY <3>1, <3>2 DEF state
        <4> QED
            BY <1>2, <1>4, <3>1, <4>1
      <3>3. CASE kind' # kind
        <4>1. session = "none"
              BY <2>4, <3>3 DEF Next, Session, Listener, vars, actors, ContinueFlow, AddEmailCall, ConfirmEmailCall, Forward, Find, GetSummary,
               Reject, ExecuteContinue, ExecuteInfo, Ignore, NoMatch, PersistFailure,
               ListenerAsk, ListenerTimeout, Receive, Advance, PhaseStart, PhaseEmail, PhaseMail,
               PhaseCreateUser, PhaseRefused, PhaseFinish, PhaseDone, ServiceLost, TellSession
        <4>2. n = 0
              BY <4>1, EntEmpty DEF Inv, KindInv, InBox, n
        <4>3. state'.token <= e
              BY <1>1, <1>4, <3>1 DEF state, TypeInv
        <4> QED
            BY <1>2, <1>4, <3>1, <4>2, <4>3
      <3> QED
          BY <3>2, <3>3
    <2> QED
        BY <2>1, <2>2, <2>3, <2>4
  <1>6. \A x \in Seen' : x.token <= e2
    <2>1. \A x \in Seen' : x \in Seen \/ x.token = 0 \/ x = state \/ x = state'
          BY SeenStep
    <2>2. \A x \in Seen : x.token \in Nat /\ x.token <= e
      <3>1. \A x \in Seen : x \in AnySummary
        <4>1. at.summary \in AnySummary
              BY <1>1 DEF TypeInv
        <4>2. \A r \in Ent(replies) : r \in AnyReply
              BY <1>1 DEF TypeInv, Ent
        <4>3. \A r \in Ent(replies) : r.summary \in AnySummary
              BY <4>2 DEF AnyReply
        <4> QED
            BY <4>1, <4>3 DEF Seen
      <3> QED
          BY <3>1 DEF TokenInv, AnySummary, e
    <2>3. state.token <= e /\ state'.token <= e2
          BY <1>2, <1>4, <1>5
    <2> QED
        BY <1>2, <1>4, <2>1, <2>2, <2>3
  <1>7. \A x \in Told' : x.phase \in SessionPhases
    <2>1. \A x \in Told' : x \in Told \/ x = state \/ x = state'
          BY SeenStep
    <2>2. state.phase \in SessionPhases /\ state'.phase \in SessionPhases
          BY <1>1 DEF BaseInv, state, TypeInv
    <2> QED
        BY <2>1, <2>2 DEF TokenInv
  <1>8. confirmed' \in Seq(Nat)
    <2>1. confirmed \in Seq(Nat)
          BY DEF TokenInv
    <2>2. CASE Execute
      <3>1. PICK m \in Command, s \in AnySummary :
              confirmed' = IF m.cmd = "ConfirmEmail" THEN Append(confirmed, m.token) ELSE confirmed
            BY <2>2, ExecuteFacts, Zenon
      <3>2. m.cmd = "ConfirmEmail" => m.token \in Nat
            BY DEF Command
      <3> QED
          BY <2>1, <3>1, <3>2
    <2>3. CASE ~Execute
      <3>1. CASE ~StartFlow /\ ~Crash
        <4>1. PICK ms, ws : Adds(ms, ws)
              BY <2>3, <3>1, AsideStep
        <4> QED
            BY <2>1, <4>1 DEF Adds
      <3>2. CASE StartFlow \/ Crash
            BY <2>1, <3>2, StartFlowFacts, CrashFacts
      <3> QED
          BY <3>1, <3>2
    <2> QED
        BY <2>2, <2>3
  <1> QED
      BY <1>5, <1>6, <1>7, <1>8 DEF TokenInv, n2, e2, state

-----------------------------------------------------------------------------
(* How many users                                                          *)

\* Everything on the way to a user: the listener in the phases that lead to
\* one, a confirmation it has not read, somebody's Continue.
Confirmations == {r \in AnyReply : r.ok /\ r.summary.phase = "CONFIRM_EMAIL_ACK"}
Unread == Count(replies, Confirmations)
Working == IF at.phase \in {"CONFIRM_EMAIL_ACK", "CREATE_USER"} THEN 1 ELSE 0

CountInv == Len(users) + Working + Unread + InBox("Continue") <= Len(confirmed) + calls.continues

LEMMA CountInit == Init => CountInv
  <1> SUFFICES ASSUME Init PROVE CountInv
      OBVIOUS
  <1>1. mailbox = <<>> /\ replies = <<>> /\ users = <<>> /\ confirmed = <<>> /\ at = Nowhere /\ calls.continues = 0
        BY DEF Init
  <1>2. InBox("Continue") = 0 /\ Unread = 0 /\ Working = 0
        BY <1>1, EntEmpty, NowherePhase DEF InBox, Unread, Working
  <1>3. Len(users) = 0 /\ Len(confirmed) = 0
        BY <1>1
  <1> QED
      BY <1>1, <1>2, <1>3 DEF CountInv

LEMMA UnreadReply ==
  ASSUME TypeInv, NEW r \in AnyReply, replies' = Reply(r)
  PROVE  Unread' <= Unread + (IF r.ok /\ r.summary.phase = "CONFIRM_EMAIL_ACK" THEN 1 ELSE 0)
  <1>1. replies \in Seq(AnyReply) /\ Unread \in Nat
        BY WhereFinite DEF TypeInv, Unread
  <1>2. Unread' = Count(replies', Confirmations)
        BY DEF Unread, Count, Where, Confirmations, AnyReply, AnySummary
  <1>3. r \in Confirmations <=> r.ok /\ r.summary.phase = "CONFIRM_EMAIL_ACK"
        BY DEF Confirmations
  <1>4. CASE replies' = replies
        BY <1>1, <1>2, <1>4 DEF Unread
  <1>5. CASE replies' = Append(replies, r)
        BY <1>1, <1>2, <1>3, <1>5, EntAppend DEF Unread
  <1> QED
      BY <1>4, <1>5 DEF Reply

LEMMA CountStep ==
  ASSUME OrderedFlow, Inv, BaseInv, TokenInv, CountInv, [Next]_vars
  PROVE  CountInv'
  <1>1. Inv' /\ BaseInv' /\ TypeInv /\ TypeInv' /\ TokenInv'
        BY InvStep, BaseStep, TokenStep DEF Inv
  <1> DEFINE u == Len(users)     u2 == Len(users')
             r == Unread         r2 == Unread'
             b == InBox("Continue")  b2 == InBox("Continue")'
             o == Len(confirmed) o2 == Len(confirmed')
             c == calls.continues    c2 == calls'.continues
             w == Working        w2 == Working'
  <1>2. /\ u \in Nat /\ u2 \in Nat /\ r \in Nat /\ r2 \in Nat /\ b \in Nat /\ b2 \in Nat
        /\ o \in Nat /\ o2 \in Nat /\ c \in Nat /\ c2 \in Nat /\ w \in {0, 1} /\ w2 \in {0, 1}
    <2>1. u \in Nat /\ u2 \in Nat /\ o \in Nat /\ o2 \in Nat
          BY <1>1 DEF TypeInv, TokenInv
    <2>2. r \in Nat /\ b \in Nat
          BY <1>1, WhereFinite DEF TypeInv, InBox, Unread
    <2>3. r2 \in Nat /\ b2 \in Nat
          BY <1>1, WhereFinite DEF TypeInv, InBox, Unread
    <2>4. c \in Nat /\ c2 \in Nat
          BY <1>1, EnrollAssumption DEF BaseInv
    <2>5. w \in {0, 1} /\ w2 \in {0, 1}
          BY DEF Working
    <2> QED
        BY <2>1, <2>2, <2>3, <2>4, <2>5
  <1>3. /\ b2 + c <= b + c2 /\ c <= c2
        /\ (Execute \/ ExecuteContinue) /\ Head(mailbox).cmd = "Continue" => b2 + 1 <= b
        /\ ~(ContinueFlow \/ AddEmailCall \/ ConfirmEmailCall) => b2 <= b /\ c2 = c
    <2>1. Asked("Continue") = c /\ Asked("Continue")' = c2
          BY DEF Asked
    <2> QED
        BY <1>1, <2>1, InBoxStep
  <1>4. u + w + r + b <= o + c
        BY DEF CountInv
  <1>5. (replies' = replies => r2 = r) /\ (replies' = <<>> => r2 = 0) /\ (at' = at => w2 = w) /\ (at' = Nowhere => w2 = 0)
    <2>1. replies' = replies => r2 = r
          BY DEF Unread, Count, Where, Confirmations, AnyReply, AnySummary
    <2>2. replies' = <<>> => r2 = 0
          BY EntEmpty DEF Unread, Count, Where, Confirmations, AnyReply, AnySummary
    <2>3. (at' = at => w2 = w) /\ (at' = Nowhere => w2 = 0)
          BY NowherePhase DEF Working
    <2> QED
        BY <2>1, <2>2, <2>3
  <1>6. (users' = users => u2 = u) /\ (users' = Append(users, NewUser) => u2 = u + 1)
        BY <1>1 DEF TypeInv
  <1>7. SUFFICES u2 + w2 + r2 + b2 <= o2 + c2
        BY DEF CountInv
  <1>15. Working = w /\ Working' = w2
         OBVIOUS
  <1>16. at.phase = "CREATE_USER" => w = 1
         BY DEF Working
  <1>17. confirmed' = confirmed => o2 = o
         OBVIOUS
  <1>18. Unread' = r2 /\ Unread = r
         OBVIOUS
  <1> HIDE DEF u, u2, r, r2, b, b2, o, o2, c, c2, w, w2
  <1>8. ASSUME replies' = replies, at' = at \/ at' = Nowhere, users' = users, confirmed' = confirmed
        PROVE  u2 + w2 + r2 + b2 <= o2 + c2
        BY <1>2, <1>3, <1>4, <1>5, <1>6, <1>8, <1>17
  <1>9. CASE \/ ContinueFlow \/ AddEmailCall \/ ConfirmEmailCall \/ GetSummary \/ StartFlow
             \/ ExecuteInfo \/ Ignore \/ NoMatch \/ PersistFailure \/ ListenerAsk
             \/ PhaseStart \/ PhaseEmail \/ PhaseFinish \/ PhaseRefused \/ PhaseDone \/ UNCHANGED vars
    <2>1. /\ replies' = replies /\ (at' = at \/ at' = Nowhere) /\ users' = users /\ confirmed' = confirmed
          BY <1>9 DEF ContinueFlow, AddEmailCall, ConfirmEmailCall, Forward, Find, GetSummary, StartFlow,
               ExecuteInfo, Ignore, NoMatch, PersistFailure, ListenerAsk, PhaseStart, PhaseEmail,
               PhaseFinish, PhaseRefused, PhaseDone, TellSession, vars, actors, world
    <2> QED
        BY <1>8, <2>1
  <1>10. CASE ListenerTimeout \/ Crash
    <2>1. replies' = <<>> /\ (at' = at \/ at' = Nowhere) /\ users' = users /\ confirmed' = confirmed
          BY <1>10 DEF ListenerTimeout, Crash, world
    <2> QED
        BY <1>2, <1>3, <1>4, <1>5, <1>6, <1>17, <2>1
  <1>11. CASE Reject
    <2>1. replies' = Reply(Error) /\ at' = at /\ users' = users /\ confirmed' = confirmed
          BY <1>11 DEF Reject, world
    <2>2. Error \in AnyReply /\ ~Error.ok
      <3>1. <<>> \in Seq(Phases)
            OBVIOUS
      <3> QED
          BY <3>1, EmptyStateType DEF Error, AnyReply
    <2>3. r2 <= r
          BY <1>1, <1>2, <1>18, <2>1, <2>2, UnreadReply
    <2> QED
        BY <1>2, <1>3, <1>4, <1>5, <1>6, <1>17, <2>1, <2>3
  <1>12. CASE ExecuteContinue
    <2>1. /\ replies' = Reply(Success(state)) /\ at' = at /\ users' = users /\ confirmed' = confirmed
          /\ Head(mailbox) = Continue
          BY <1>12 DEF ExecuteContinue, Receives, world
    <2>2. Success(state) \in AnyReply
          BY <1>1, StateType DEF Success, AnyReply
    <2>3. r2 <= r + 1
          BY <1>1, <1>2, <1>18, <2>1, <2>2, UnreadReply
    <2>4. b2 + 1 <= b /\ c2 = c
      <3>1. Head(mailbox).cmd = "Continue"
            BY <2>1, PlainMessages
      <3>2. calls' = calls
            BY <1>12 DEF ExecuteContinue, world
      <3> QED
          BY <1>3, <1>12, <3>1, <3>2 DEF c, c2
    <2> QED
        BY <1>2, <1>4, <1>5, <1>6, <1>17, <2>1, <2>3, <2>4
  <1>13. CASE Execute
    <2>1. PICK m \in Command, s \in AnySummary :
            /\ s.phase = "CONFIRM_EMAIL_ACK" => m.cmd = "ConfirmEmail"
            /\ replies' = (IF m.cmd = "UpdatePhase" THEN replies ELSE Reply(Success(s)))
            /\ confirmed' = (IF m.cmd = "ConfirmEmail" THEN Append(confirmed, m.token) ELSE confirmed)
            /\ UNCHANGED <<at, calls, users>>
          BY <1>13, ExecuteFacts, Zenon
    <2>2. Success(s) \in AnyReply /\ Success(s).summary = s
          BY <2>1 DEF Success, AnyReply
    <2>3. m.cmd = "ConfirmEmail" => o2 = o + 1
      <3>1. m.cmd = "ConfirmEmail" => m.token \in Nat
            BY DEF Command
      <3> QED
          BY <2>1, <3>1 DEF TokenInv, o, o2
    <2>4. r2 <= r + (IF m.cmd = "ConfirmEmail" THEN 1 ELSE 0)
      <3>1. CASE replies' = replies
            BY <1>2, <1>5, <3>1
      <3>2. CASE replies' = Reply(Success(s))
            BY <1>1, <1>2, <1>18, <2>1, <2>2, <3>2, UnreadReply
      <3> QED
          BY <2>1, <3>1, <3>2
    <2>5. b2 <= b + c2 - c
          BY <1>2, <1>3
    <2> QED
        BY <1>2, <1>3, <1>4, <1>5, <1>6, <1>17, <2>1, <2>3, <2>4, <2>5
  <1>14. CASE Receive
    <2>1. /\ Idle /\ replies # <<>> /\ replies' = Tail(replies) /\ users' = users /\ confirmed' = confirmed
          /\ at' = IF Head(replies).ok THEN Item(Head(replies).summary) ELSE Nowhere
          BY <1>14 DEF Receive, Item, world
    <2>2. Head(replies) \in AnyReply /\ Head(replies) \in Ent(replies)
          BY <1>1, <2>1, EntTail DEF TypeInv
    <2>3. r = r2 + (IF Head(replies) \in Confirmations THEN 1 ELSE 0)
      <3>1. Unread' = Count(Tail(replies), Confirmations)
            BY <2>1 DEF Unread, Count, Where, Confirmations, AnyReply, AnySummary
      <3>2. Count(replies, Confirmations) = Count(Tail(replies), Confirmations) + (IF Head(replies) \in Confirmations THEN 1 ELSE 0)
            BY <1>1, <2>1, EntTail DEF TypeInv
      <3> QED
          BY <1>18, <3>1, <3>2 DEF Unread
    <2>4. w2 = 1 => Head(replies) \in Confirmations
      <3>1. CASE ~Head(replies).ok
            BY <1>5, <2>1, <3>1
      <3>2. CASE Head(replies).ok
        <4>1. Head(replies).summary.phase \in SessionPhases
              BY <2>2, <3>2 DEF TokenInv, Told
        <4>2. at'.phase = Head(replies).summary.phase
              BY <2>1, <3>2 DEF Item
        <4>3. w2 = 1 => at'.phase = "CONFIRM_EMAIL_ACK"
              BY <1>15, <4>1, <4>2 DEF Working, SessionPhases
        <4> QED
            BY <2>2, <3>2, <4>2, <4>3 DEF Confirmations
      <3> QED
          BY <3>1, <3>2
    <2> QED
        BY <1>2, <1>3, <1>4, <1>6, <1>17, <2>1, <2>3, <2>4
  <1>19. CASE Advance \/ PhaseMail
    <2>1. PICK x : /\ UNCHANGED <<users, replies>> /\ at' = x /\ Adds({}, {x})
                   /\ x.phase # "CONFIRM_EMAIL_ACK"
                   /\ x.phase = "CREATE_USER" => at.phase = "CONFIRM_EMAIL_ACK"
          BY <1>19, EnterAdds
    <2>2. w2 <= w
          BY <1>2, <1>15, <2>1 DEF Working
    <2>3. confirmed' = confirmed
          BY <2>1 DEF Adds
    <2> QED
        BY <1>2, <1>3, <1>4, <1>5, <1>6, <1>17, <2>1, <2>2, <2>3
  <1>20. CASE PhaseCreateUser \/ ServiceLost
    <2>1. /\ at' = Nowhere /\ confirmed' = confirmed /\ (replies' = replies \/ replies' = <<>>)
          /\ users' = users \/ (at.phase = "CREATE_USER" /\ users' = Append(users, NewUser))
          BY <1>20 DEF PhaseCreateUser, ServiceLost, TellSession, At
    <2> QED
        BY <1>2, <1>3, <1>4, <1>5, <1>6, <1>16, <1>17, <2>1
  <1> QED
      BY <1>9, <1>10, <1>11, <1>12, <1>13, <1>14, <1>19, <1>20 DEF Next, Session, Listener

-----------------------------------------------------------------------------
(* The mails                                                               *)

\* The mails sent, and those the listener is about to send.
Pairs == mailed \cup {Pair(w.summary) : w \in {x \in Work : x.phase = "EMAIL_ACK"}}

\* A token that is on its way to a user goes to the email the session had when
\* it was drawn, and has still if the token is the session's.
MailInv ==
  /\ \A p \in Pairs : p.token \in 1..Kept.token
  /\ Plain /\ HasFlow => \A p \in Pairs : p.token = Kept.token => p.email = Kept.email
  /\ Kept.phase = "EMAIL_ACK" => Kept.token # 0
  /\ \A m \in Box : m.cmd = "ConfirmEmail" => m.token = MaxEmails + 1 \/ \E p \in mailed : p.token = m.token
  /\ \A t \in Ent(confirmed) : t \in Token

\* An email that the session, or the listener, takes for confirmed is.
VouchInv ==
  /\ Plain /\ HasFlow =>
       /\ \A w \in Work : w.phase \in {"CONFIRM_EMAIL_ACK", "CREATE_USER"} => Vouched(w.summary.email)
       /\ Kept.phase = "CONFIRM_EMAIL_ACK" => Vouched(Kept.email)
  /\ \A w \in Work : w.phase = "CREATE_USER" => HasFlow
  /\ Plain => \A x \in Ent(users) : Vouched(x.email)

\* A token that confirms was mailed.
LEMMA TokenMailed ==
  ASSUME Inv, BaseInv, TokenInv, MailInv, NEW m \in Box, m.cmd = "ConfirmEmail", Valid(state, m)
  PROVE  m.token = state.token /\ m.token \in Token /\ \E p \in mailed : p.token = m.token
  <1>1. m.token = state.token
        BY DEF Valid
  <1>2. state.token \in Nat /\ state.token <= calls.emails
        BY StateType DEF Inv, TypeInv, TokenInv, state, AnySummary
  <1>3. calls.emails \in 0..MaxEmails /\ MaxEmails \in Nat
        BY EnrollAssumption DEF BaseInv
  <1>4. PICK p \in mailed : p.token = m.token
        BY <1>1, <1>2, <1>3 DEF MailInv
  <1>5. m.token >= 1
        BY <1>4 DEF MailInv, Pairs
  <1> QED
      BY <1>1, <1>2, <1>3, <1>4, <1>5 DEF Token

LEMMA MailStep ==
  ASSUME OrderedFlow, Inv, BaseInv, TokenInv, StartInv, MailInv, [Next]_vars
  PROVE  MailInv'
  <1>1. Inv' /\ TypeInv /\ TypeInv'
        BY InvStep DEF Inv
  <1>2. Kept.token \in Nat /\ Kept'.token \in Nat
        BY <1>1 DEF Kept, TypeInv, AnySummary
  <1>3. CASE ~Execute /\ ~StartFlow /\ ~Crash
    <2>1. PICK ms, ws :
            /\ Adds(ms, ws)
            /\ \A m \in ms : m.cmd = "ConfirmEmail" => m.token = MaxEmails + 1 \/ \E p \in mailed : p.token = m.token
            /\ \A w \in ws : w = Item(Kept) \/ w.phase # "EMAIL_ACK"
            /\ mailed' = mailed \/ (at.phase = "EMAIL_ACK" /\ mailed' = mailed \cup {Pair(at.summary)})
          BY <1>3, AsideStep
    <2>2. /\ Kept' = Kept /\ HasFlow' = HasFlow /\ Box' \subseteq Box \cup ms /\ Work' \subseteq Work \cup ws
          /\ (Plain' => Plain) /\ mailed \subseteq mailed' /\ confirmed' = confirmed
          BY <2>1 DEF Adds, Grows, Plain, HasFlow
    <2>3. at.phase = "EMAIL_ACK" => Pair(at.summary) \in Pairs
          BY DEF Pairs, Work
    <2>4. Pairs' = mailed' \cup {Pair(w.summary) : w \in {x \in Work' : x.phase = "EMAIL_ACK"}}
          BY DEF Pairs, Pair
    <2>5. \A p \in Pairs' : p \in Pairs \/ (p = Pair(Kept) /\ Kept.phase = "EMAIL_ACK")
      <3>1. Item(Kept).phase = Kept.phase /\ Item(Kept).summary = Kept
            BY DEF Item
      <3>2. mailed' \subseteq Pairs
            BY <2>1, <2>3 DEF Pairs
      <3>3. ASSUME NEW w \in Work', w.phase = "EMAIL_ACK"
            PROVE  Pair(w.summary) \in Pairs \/ (Pair(w.summary) = Pair(Kept) /\ Kept.phase = "EMAIL_ACK")
            BY <2>1, <2>2, <3>1, <3>3 DEF Pairs
      <3> QED
          BY <2>4, <3>2, <3>3
    <2>6. Pair(Kept).token = Kept.token /\ Pair(Kept).email = Kept.email
          BY DEF Pair
    <2>7. \A p \in Pairs' : p.token \in 1..Kept.token
          BY <1>2, <2>5, <2>6 DEF MailInv
    <2>8. Plain' /\ HasFlow' => \A p \in Pairs' : p.token = Kept.token => p.email = Kept.email
          BY <2>2, <2>5, <2>6 DEF MailInv
    <2>9. \A m \in Box' : m.cmd = "ConfirmEmail" => m.token = MaxEmails + 1 \/ \E p \in mailed' : p.token = m.token
          BY <2>1, <2>2 DEF MailInv
    <2>10. \A t \in Ent(confirmed') : t \in Token
           BY <2>2 DEF MailInv
    <2> QED
        BY <2>2, <2>7, <2>8, <2>9, <2>10 DEF MailInv, Ent, Token
  <1>4. CASE Execute
    <2>1. PICK m \in Command, s \in AnySummary :
            /\ m \in Box /\ Box' \subseteq Box /\ Valid(state, m)
            /\ IF kind = "state" THEN Kept' = s /\ state = Kept /\ Work' \subseteq Work \cup {Item(s)}
                                 ELSE Kept' = Kept /\ Work' \subseteq Work
            /\ s.flow = state.flow
            /\ m.cmd = "AddEmail" => s.phase = "EMAIL_ACK" /\ s.token = state.token + 1
            /\ m.cmd # "AddEmail" => s.token = state.token /\ s.phase # "EMAIL_ACK"
            /\ m.cmd \notin {"AddEmail", "Start"} => s.email = state.email
            /\ confirmed' = (IF m.cmd = "ConfirmEmail" THEN Append(confirmed, m.token) ELSE confirmed)
            /\ UNCHANGED <<calls, failures, mailed>>
          BY <1>4, ExecuteFacts, Zenon
    <2>2. \A t \in Ent(confirmed') : t \in Token
      <3>1. CASE m.cmd = "ConfirmEmail"
        <4>1. m.token \in Token
              BY <2>1, <3>1, TokenMailed
        <4>2. m.token \in Nat
              BY <3>1 DEF Command
        <4>3. Ent(confirmed') = Ent(confirmed) \cup {m.token}
              BY <2>1, <3>1, <4>2, EntAppend DEF TokenInv
        <4> QED
            BY <4>1, <4>3 DEF MailInv
      <3>2. CASE m.cmd # "ConfirmEmail"
            BY <2>1, <3>2 DEF MailInv
      <3> QED
          BY <3>1, <3>2
    <2>3. \A x \in Box' : x.cmd = "ConfirmEmail" => x.token = MaxEmails + 1 \/ \E p \in mailed' : p.token = x.token
          BY <2>1 DEF MailInv
    <2>4. Plain' <=> Plain
          BY <2>1 DEF Plain
    <2>5. Pairs' = mailed' \cup {Pair(w.summary) : w \in {x \in Work' : x.phase = "EMAIL_ACK"}}
          BY DEF Pairs, Pair
    <2>6. CASE kind = "event"
      <3>1. Kept' = Kept /\ HasFlow' = HasFlow /\ Work' \subseteq Work
            BY <2>1, <2>6 DEF HasFlow
      <3>2. Pairs' \subseteq Pairs
            BY <2>1, <2>5, <3>1 DEF Pairs
      <3> QED
          BY <2>2, <2>3, <2>4, <3>1, <3>2 DEF MailInv, Ent, Token
    <2>7. CASE kind = "state"
      <3>1. Kept' = s /\ HasFlow' = HasFlow /\ Work' \subseteq Work \cup {Item(s)} /\ state = Kept
            BY <2>1, <2>7 DEF HasFlow
      <3>2. Item(s).phase = s.phase /\ Item(s).summary = s /\ Pair(s).token = s.token /\ Pair(s).email = s.email
            BY DEF Item, Pair
      <3>3. \A p \in Pairs' : p \in Pairs \/ (p = Pair(s) /\ s.phase = "EMAIL_ACK")
        <4>1. mailed' \subseteq Pairs
              BY <2>1 DEF Pairs
        <4>2. ASSUME NEW w \in Work', w.phase = "EMAIL_ACK"
              PROVE  Pair(w.summary) \in Pairs \/ (Pair(w.summary) = Pair(s) /\ s.phase = "EMAIL_ACK")
              BY <3>1, <3>2, <4>2 DEF Pairs
        <4> QED
            BY <2>5, <4>1, <4>2
      <3>4. \A p \in Pairs : p.token \in 1..Kept.token
            BY DEF MailInv
      <3>5. CASE m.cmd = "AddEmail"
        <4>1. s.token = Kept.token + 1
              BY <2>1, <3>1, <3>5
        <4>2. \A p \in Pairs' : p.token \in 1..s.token
              BY <1>2, <3>2, <3>3, <3>4, <4>1
        <4>3. \A p \in Pairs' : p.token = s.token => p.email = s.email
              BY <1>2, <3>2, <3>3, <3>4, <4>1
        <4>4. s.token # 0
              BY <1>2, <4>1
        <4> QED
            BY <2>2, <2>3, <3>1, <4>2, <4>3, <4>4 DEF MailInv, Ent, Token
      <3>6. CASE m.cmd # "AddEmail"
        <4>1. s.token = Kept.token /\ s.phase # "EMAIL_ACK" /\ Pairs' \subseteq Pairs
              BY <2>1, <3>1, <3>3, <3>6
        <4>2. ASSUME Plain', HasFlow', NEW p \in Pairs', p.token = s.token PROVE p.email = s.email
          <5>1. p.token # 0
                BY <1>2, <3>4, <4>1
          <5>2. m.cmd # "Start"
                BY <2>1, <2>4, <3>1, <4>1, <4>2, <5>1 DEF StartInv
          <5> QED
              BY <2>1, <2>4, <3>1, <3>6, <4>1, <4>2, <5>2 DEF MailInv
        <4>3. \A p \in Pairs' : p.token \in 1..s.token
              BY <3>4, <4>1
        <4> QED
            BY <2>2, <2>3, <3>1, <4>1, <4>2, <4>3 DEF MailInv, Ent, Token
      <3> QED
          BY <3>5, <3>6
    <2> QED
        BY <2>6, <2>7, <1>1 DEF TypeInv
  <1>5. CASE StartFlow
    <2>1. /\ Work' = {Nowhere} /\ mailed' = {} /\ confirmed' = confirmed
          /\ Box' \subseteq {Info, Start(GivenName, GivenEmail)} /\ Start(GivenName, GivenEmail).cmd = "Start"
          /\ Kept' = EmptyState(Flow) \/ Kept' = Kept
          BY <1>5, StartFlowFacts
    <2>2. Pairs' = {}
          BY <2>1, NowherePhase DEF Pairs
    <2>3. \A m \in Box' : m.cmd # "ConfirmEmail"
          BY <2>1, PlainMessages
    <2>4. Kept'.phase = "EMAIL_ACK" => Kept'.token # 0
          BY <2>1, EmptyFields DEF MailInv
    <2>5. \A t \in Ent(confirmed') : t \in Token
          BY <2>1 DEF MailInv
    <2> QED
        BY <2>2, <2>3, <2>4, <2>5 DEF MailInv, Ent, Token
  <1>6. CASE Crash
    <2>1. /\ Work' = {Nowhere} /\ Box' = {} /\ UNCHANGED <<mailed, confirmed, calls, failures>>
          /\ Kept' = Kept \/ (Kept.phase = "START" /\ Kept' = EmptyState(NoFlow))
          BY <1>6, CrashFacts
    <2>2. Pairs' = mailed
          BY <2>1, NowherePhase DEF Pairs
    <2>3. Kept'.token = Kept.token /\ (Kept'.phase = "EMAIL_ACK" => Kept'.token # 0) /\ (HasFlow' => Kept' = Kept)
      <3>1. Kept.phase = "START" => Kept.token = 0
            BY DEF TokenInv, Kept
      <3> QED
          BY <2>1, <3>1, EmptyFields DEF MailInv, HasFlow
    <2>4. \A p \in mailed : p \in Pairs
          BY DEF Pairs
    <2>5. (Plain' => Plain) /\ (HasFlow' => HasFlow)
          BY <2>1, <2>3 DEF Plain, HasFlow
    <2>6. \A t \in Ent(confirmed') : t \in Token
          BY <2>1 DEF MailInv
    <2>7. \A p \in Pairs' : p.token \in 1..Kept'.token
          BY <2>2, <2>3, <2>4 DEF MailInv
    <2>8. Plain' /\ HasFlow' => \A p \in Pairs' : p.token = Kept'.token => p.email = Kept'.email
          BY <2>2, <2>3, <2>4, <2>5 DEF MailInv
    <2> QED
        BY <2>1, <2>3, <2>6, <2>7, <2>8 DEF MailInv, Ent, Token
  <1> QED
      BY <1>3, <1>4, <1>5, <1>6

-----------------------------------------------------------------------------
(* The users                                                               *)

LEMMA VouchStep ==
  ASSUME OrderedFlow, Inv, BaseInv, TokenInv, StartInv, MailInv, VouchInv, [Next]_vars
  PROVE  VouchInv'
  <1>1. Inv' /\ TypeInv /\ TypeInv'
        BY InvStep DEF Inv
  <1> DEFINE Later(e) == \E t \in Ent(confirmed') : [email |-> e, token |-> t] \in mailed'
  <1>2. SUFFICES
          /\ Plain' /\ HasFlow' =>
               /\ \A w \in Work' : w.phase \in {"CONFIRM_EMAIL_ACK", "CREATE_USER"} => Later(w.summary.email)
               /\ Kept'.phase = "CONFIRM_EMAIL_ACK" => Later(Kept'.email)
          /\ \A w \in Work' : w.phase = "CREATE_USER" => HasFlow'
          /\ Plain' => \A x \in Ent(users') : Later(x.email)
        BY DEF VouchInv, Vouched, Ent
  <1>3. ASSUME NEW e, mailed \subseteq mailed', Ent(confirmed) \subseteq Ent(confirmed'), Vouched(e)
        PROVE  Later(e)
        BY <1>3 DEF Vouched
  <1> HIDE DEF Later
  <1>4. CASE ~Execute /\ ~StartFlow /\ ~Crash
    <2>1. PICK ms, ws :
            /\ Adds(ms, ws)
            /\ \A w \in ws : \/ w = Item(Kept)
                             \/ /\ w.phase # "CONFIRM_EMAIL_ACK"
                                /\ w.phase = "CREATE_USER" => HasFlow /\ at.phase = "CONFIRM_EMAIL_ACK" /\ w.summary = at.summary
            /\ users' = users \/ (at.phase = "CREATE_USER" /\ users' = Append(users, NewUser))
          BY <1>4, AsideStep
    <2>2. /\ Kept' = Kept /\ HasFlow' = HasFlow /\ Work' \subseteq Work \cup ws
          /\ (Plain' => Plain) /\ mailed \subseteq mailed' /\ confirmed' = confirmed
          BY <2>1 DEF Adds, Grows, Plain, HasFlow
    <2>3. \A e : Vouched(e) => Later(e)
          BY <1>3, <2>2
    <2>4. Item(Kept).phase = Kept.phase /\ Item(Kept).summary = Kept /\ Kept.phase # "CREATE_USER"
          BY DEF Item, BaseInv, Kept, SessionPhases
    <2>5. \A w \in Work' : w.phase = "CREATE_USER" => HasFlow'
          BY <2>1, <2>2, <2>4 DEF VouchInv
    <2>6. ASSUME Plain', HasFlow'
          PROVE  /\ \A w \in Work' : w.phase \in {"CONFIRM_EMAIL_ACK", "CREATE_USER"} => Later(w.summary.email)
                 /\ Kept'.phase = "CONFIRM_EMAIL_ACK" => Later(Kept'.email)
      <3>1. /\ \A w \in Work : w.phase \in {"CONFIRM_EMAIL_ACK", "CREATE_USER"} => Vouched(w.summary.email)
            /\ Kept.phase = "CONFIRM_EMAIL_ACK" => Vouched(Kept.email)
            BY <2>2, <2>6 DEF VouchInv
      <3>2. at.phase = "CONFIRM_EMAIL_ACK" => Vouched(at.summary.email)
            BY <3>1 DEF Work
      <3>3. ASSUME NEW w \in Work', w.phase \in {"CONFIRM_EMAIL_ACK", "CREATE_USER"} PROVE Vouched(w.summary.email)
        <4>1. CASE w \in Work
              BY <3>1, <3>3, <4>1
        <4>2. CASE w = Item(Kept)
              BY <2>4, <3>1, <3>3, <4>2
        <4>3. CASE w.phase = "CREATE_USER" /\ at.phase = "CONFIRM_EMAIL_ACK" /\ w.summary = at.summary
              BY <3>2, <4>3
        <4> QED
            BY <2>1, <2>2, <3>3, <4>1, <4>2, <4>3
      <3> QED
          BY <2>2, <2>3, <3>1, <3>3
    <2>7. ASSUME Plain', NEW x \in Ent(users') PROVE Later(x.email)
      <3>1. \A y \in Ent(users) : Vouched(y.email)
            BY <2>2, <2>7 DEF VouchInv
      <3>2. CASE users' = users
            BY <2>3, <2>7, <3>1, <3>2
      <3>3. CASE at.phase = "CREATE_USER" /\ users' = Append(users, NewUser)
        <4>1. Vouched(at.summary.email)
              BY <2>2, <2>7, <3>3 DEF VouchInv, Work
        <4>2. NewUser \in [email: Names, name: Names] /\ NewUser.email = at.summary.email
              BY <1>1 DEF NewUser, TypeInv, AnySummary
        <4>3. x \in Ent(users) \cup {NewUser}
          <5> DEFINE U == [email: Names, name: Names]
          <5>1. users \in Seq(U) /\ NewUser \in U
                BY <1>1, <4>2 DEF TypeInv
          <5> HIDE DEF U
          <5>2. Ent(Append(users, NewUser)) = Ent(users) \cup {NewUser}
                BY <5>1, EntAppend
          <5> QED
              BY <2>7, <3>3, <5>2
        <4> QED
            BY <2>3, <3>1, <4>1, <4>2, <4>3
      <3> QED
          BY <2>1, <3>2, <3>3
    <2> QED
        BY <2>2, <2>5, <2>6, <2>7
  <1>5. CASE Execute
    <2>1. PICK m \in Command, s \in AnySummary :
            /\ m \in Box /\ Valid(state, m)
            /\ IF kind = "state" THEN Kept' = s /\ state = Kept /\ Work' \subseteq Work \cup {Item(s)}
                                 ELSE Kept' = Kept /\ Work' \subseteq Work
            /\ s.flow = state.flow /\ s.phase \in SessionPhases
            /\ m.cmd \notin {"AddEmail", "Start"} => s.email = state.email
            /\ s.phase = "CONFIRM_EMAIL_ACK" => m.cmd = "ConfirmEmail"
            /\ confirmed' = (IF m.cmd = "ConfirmEmail" THEN Append(confirmed, m.token) ELSE confirmed)
            /\ UNCHANGED <<calls, failures, mailed, users>>
          BY <1>5, ExecuteFacts, Zenon
    <2>2. Ent(confirmed) \subseteq Ent(confirmed') /\ (m.cmd = "ConfirmEmail" => m.token \in Ent(confirmed'))
      <3>1. m.cmd = "ConfirmEmail" => m.token \in Nat
            BY DEF Command
      <3>2. confirmed \in Seq(Nat)
            BY DEF TokenInv
      <3> QED
          BY <2>1, <3>1, <3>2, EntAppend
    <2>3. \A e : Vouched(e) => Later(e)
          BY <1>3, <2>1, <2>2
    <2>4. (Plain' => Plain) /\ HasFlow' = HasFlow
          BY <2>1 DEF Plain, HasFlow
    <2>5. Plain' => \A x \in Ent(users') : Later(x.email)
          BY <2>1, <2>3, <2>4 DEF VouchInv
    <2>6. Item(s).phase = s.phase /\ Item(s).summary = s /\ s.phase # "CREATE_USER"
          BY <2>1 DEF Item, SessionPhases
    <2>7. \A w \in Work' : w.phase = "CREATE_USER" => HasFlow'
          BY <2>1, <2>4, <2>6 DEF VouchInv
    <2>8. ASSUME Plain', HasFlow'
          PROVE  /\ \A w \in Work' : w.phase \in {"CONFIRM_EMAIL_ACK", "CREATE_USER"} => Later(w.summary.email)
                 /\ Kept'.phase = "CONFIRM_EMAIL_ACK" => Later(Kept'.email)
      <3>1. /\ \A w \in Work : w.phase \in {"CONFIRM_EMAIL_ACK", "CREATE_USER"} => Later(w.summary.email)
            /\ Kept.phase = "CONFIRM_EMAIL_ACK" => Later(Kept.email)
        <4>1. /\ \A w \in Work : w.phase \in {"CONFIRM_EMAIL_ACK", "CREATE_USER"} => Vouched(w.summary.email)
              /\ Kept.phase = "CONFIRM_EMAIL_ACK" => Vouched(Kept.email)
              BY <2>4, <2>8 DEF VouchInv
        <4> QED
            BY <2>3, <4>1
      <3>2. kind = "state"
            BY <1>1, <2>4, <2>8 DEF BaseInv, TypeInv
      <3>3. s.phase = "CONFIRM_EMAIL_ACK" => Later(s.email)
        <4>1. SUFFICES ASSUME s.phase = "CONFIRM_EMAIL_ACK" PROVE Later(s.email)
              OBVIOUS
        <4>2. m.cmd = "ConfirmEmail" /\ s.email = Kept.email /\ state = Kept
              BY <2>1, <3>2, <4>1
        <4>3. m.token = Kept.token /\ \E p \in mailed : p.token = m.token
              BY <2>1, <4>2, TokenMailed
        <4>4. PICK p \in mailed : p.token = m.token
              BY <4>3
        <4>5. p.email = Kept.email
              BY <2>4, <2>8, <4>3, <4>4 DEF MailInv, Pairs
        <4>6. p = [email |-> s.email, token |-> m.token]
          <5>1. p \in [email: Names, token: Nat]
                BY <1>1 DEF TypeInv
          <5> QED
              BY <4>2, <4>4, <4>5, <5>1
        <4>7. p \in mailed' /\ m.token \in Ent(confirmed')
              BY <2>1, <2>2, <4>2
        <4> QED
            BY <4>6, <4>7 DEF Later
      <3>4. Kept' = s /\ Work' \subseteq Work \cup {Item(s)}
            BY <2>1, <3>2
      <3>5. ASSUME NEW w \in Work', w.phase \in {"CONFIRM_EMAIL_ACK", "CREATE_USER"} PROVE Later(w.summary.email)
        <4>1. CASE w \in Work
              BY <3>1, <3>5, <4>1
        <4>2. CASE w = Item(s)
              BY <2>6, <3>3, <3>5, <4>2
        <4> QED
            BY <3>4, <4>1, <4>2
      <3> QED
          BY <3>3, <3>4, <3>5
    <2> QED
        BY <2>5, <2>7, <2>8
  <1>6. CASE StartFlow
    <2>1. /\ Work' = {Nowhere} /\ users' = <<>> /\ mailed' = {}
          /\ IF kind' = "state" THEN Kept' = EmptyState(Flow) ELSE Kept' = Kept /\ ~HasFlow'
          BY <1>6, StartFlowFacts
    <2>2. Ent(users') = {}
          BY <2>1, EntEmpty
    <2>3. HasFlow' => Kept'.phase # "CONFIRM_EMAIL_ACK"
          BY <2>1, EmptyFields
    <2> QED
        BY <2>1, <2>2, <2>3, NowherePhase
  <1>7. CASE Crash
    <2>1. /\ Work' = {Nowhere} /\ UNCHANGED <<mailed, confirmed, calls, failures, users>>
          /\ Kept' = Kept \/ Kept' = EmptyState(NoFlow)
          BY <1>7, CrashFacts
    <2>2. \A e : Vouched(e) => Later(e)
          BY <1>3, <2>1
    <2>3. (Plain' => Plain) /\ (HasFlow' => Kept' = Kept /\ HasFlow)
          BY <2>1, EmptyFields DEF Plain, HasFlow
    <2>4. \A w \in Work' : w.phase \notin {"CONFIRM_EMAIL_ACK", "CREATE_USER"}
          BY <2>1, NowherePhase
    <2>5. Plain' => \A x \in Ent(users') : Later(x.email)
          BY <2>1, <2>2, <2>3 DEF VouchInv
    <2>6. Plain' /\ HasFlow' /\ Kept'.phase = "CONFIRM_EMAIL_ACK" => Later(Kept'.email)
          BY <2>2, <2>3 DEF VouchInv
    <2> QED
        BY <2>4, <2>5, <2>6
  <1> QED
      BY <1>4, <1>5, <1>6, <1>7

\* All of it.
TypeKept == enrollType \in EnrollTypes

FlowInv == TypeKept /\ Inv /\ BaseInv /\ UserInv /\ StartInv /\ TokenInv /\ CountInv /\ MailInv /\ VouchInv

LEMMA FlowInit == Init => FlowInv
  <1> SUFFICES ASSUME Init PROVE FlowInv
      OBVIOUS
  <1>1. Inv /\ BaseInv /\ TokenInv /\ CountInv
        BY InvInit, BaseInit, TokenInit, CountInit
  <1>2. Kept = EmptyState(NoFlow)
        BY Zenon DEF Init, Kept, NoFlow
  <1>3. mailbox = <<>> /\ replies = <<>> /\ users = <<>> /\ confirmed = <<>> /\ mailed = {} /\ at = Nowhere
        BY DEF Init
  <1>4. Box = {} /\ Work = {Nowhere} /\ Ent(users) = {} /\ Ent(confirmed) = {} /\ Len(users) = 0
        BY <1>3, EntEmpty DEF Box, Work, Ent
  <1>5. ~HasFlow /\ Kept.phase = "START" /\ Kept.uid = 0 /\ ~Kept.finished
        BY <1>2, EmptyFields DEF HasFlow
  <1>6. Pairs = {}
        BY <1>3, <1>4, NowherePhase DEF Pairs
  <1>7. UserInv
        BY <1>4, <1>5, NowherePhase DEF UserInv
  <1>8. StartInv
        BY <1>4, <1>5 DEF StartInv
  <1>9. MailInv
        BY <1>4, <1>5, <1>6 DEF MailInv
  <1>10. VouchInv
         BY <1>4, <1>5, NowherePhase DEF VouchInv
  <1>11. TypeKept
         BY DEF Init, TypeKept
  <1> QED
      BY <1>1, <1>7, <1>8, <1>9, <1>10, <1>11 DEF FlowInv

LEMMA FlowStep == OrderedFlow /\ FlowInv /\ [Next]_vars => FlowInv'
  <1>1. TypeKept /\ [Next]_vars => TypeKept'
        BY DEF TypeKept, Next, vars, StartFlow, ContinueFlow, AddEmailCall, ConfirmEmailCall, GetSummary, Forward, Find,
               Session, Execute, Reject, ExecuteContinue, ExecuteInfo, Ignore, NoMatch, PersistFailure,
               Listener, ListenerAsk, ListenerTimeout, Receive, Advance, PhaseStart, PhaseEmail, PhaseMail,
               PhaseCreateUser, PhaseRefused, PhaseFinish, PhaseDone, ServiceLost, TellSession, Crash
  <1> QED
      BY <1>1, InvStep, BaseStep, UserStep, StartStep, TokenStep, CountStep, MailStep, VouchStep DEF FlowInv

LEMMA FlowAlways == OrderedFlow => (Spec => []FlowInv)
  <1> SUFFICES ASSUME OrderedFlow PROVE Spec => []FlowInv
      OBVIOUS
  <1>1. FlowInv /\ [Next]_vars => FlowInv'
        BY FlowStep
  <1> QED
      BY <1>1, FlowInit, PTL DEF Spec

\* The state keeps its type: no session, reply or mail has a token beyond the
\* number of emails that clients submitted.
THEOREM TypeCorrect == OrderedFlow => (Spec => []TypeOK)
  <1>1. ASSUME FlowInv PROVE TypeOK
    <2>1. Inv /\ BaseInv /\ TypeInv /\ TokenInv /\ MailInv
          BY <1>1 DEF FlowInv, Inv
    <2>2. calls.emails \in 0..MaxEmails /\ MaxEmails \in Nat
          BY <2>1, EnrollAssumption DEF BaseInv
    <2>3. ASSUME NEW s \in AnySummary, s.token <= calls.emails PROVE s \in Summary
      <3>1. s.token \in Token \cup {NoToken}
            BY <2>2, <2>3 DEF AnySummary, Token, NoToken
      <3> QED
          BY <3>1 DEF AnySummary, Summary
    <2>4. stored \in [{"state", "event"} -> Summary]
          BY <2>1, <2>3 DEF TypeInv, TokenInv
    <2>5. replies \in Seq([ok: BOOLEAN, summary: Summary])
      <3>1. replies \in Seq(AnyReply)
            BY <2>1 DEF TypeInv
      <3>2. ASSUME NEW i \in 1..Len(replies) PROVE replies[i] \in [ok: BOOLEAN, summary: Summary]
        <4>1. replies[i] \in AnyReply /\ replies[i] \in Ent(replies)
              BY <3>1 DEF Ent
        <4>2. replies[i].summary.token <= calls.emails
              BY <2>1, <4>1 DEF TokenInv, Seen
        <4> QED
            BY <2>3, <4>1, <4>2 DEF AnyReply
      <3> DEFINE R == [ok: BOOLEAN, summary: Summary]
      <3>3. \A i \in 1..Len(replies) : replies[i] \in R
            BY <3>2
      <3> HIDE DEF R
      <3>4. replies \in Seq(R)
            BY <3>1, <3>3
      <3> QED
          BY <3>4 DEF R
    <2>6. at \in [phase: Phases, summary: Summary]
      <3>1. at \in [phase: Phases, summary: AnySummary] /\ at.summary.token <= calls.emails
            BY <2>1 DEF TypeInv, TokenInv, Seen
      <3> QED
          BY <2>3, <3>1
    <2>7. mailed \subseteq [email: Names, token: Token]
      <3>1. SUFFICES ASSUME NEW p \in mailed PROVE p \in [email: Names, token: Token]
            OBVIOUS
      <3>2. p \in [email: Names, token: Nat]
            BY <2>1 DEF TypeInv
      <3>3. p.token \in 1..Kept.token
            BY <2>1 DEF MailInv, Pairs
      <3>4. Kept.token \in Nat /\ Kept.token <= calls.emails
            BY <2>1 DEF TokenInv, Kept, TypeInv, AnySummary
      <3>5. p.token \in Token
            BY <2>2, <3>3, <3>4 DEF Token
      <3> QED
          BY <3>2, <3>5
    <2>8. confirmed \in Seq(Token)
      <3>1. confirmed \in Seq(Nat) /\ \A i \in 1..Len(confirmed) : confirmed[i] \in Token
            BY <2>1 DEF TokenInv, MailInv, Ent
      <3> QED
          BY <3>1
    <2>9. enrollType \in EnrollTypes
          BY <1>1 DEF FlowInv, TypeKept
    <2> QED
        BY <2>1, <2>4, <2>5, <2>6, <2>7, <2>8, <2>9 DEF TypeOK, TypeInv, BaseInv
  <1> QED
      BY <1>1, FlowAlways, PTL

\* A user is created only with an email whose own token came back.
THEOREM AlwaysUserConfirmed == OrderedFlow => (Spec => []UserConfirmed)
  <1>1. ASSUME FlowInv PROVE UserConfirmed
    <2>1. SUFFICES ASSUME Plain, NEW i \in DOMAIN users
                   PROVE  \E j \in DOMAIN confirmed : [email |-> users[i].email, token |-> confirmed[j]] \in mailed
          BY DEF UserConfirmed, Plain
    <2>2. DOMAIN users = 1..Len(users) /\ DOMAIN confirmed = 1..Len(confirmed)
          BY <1>1 DEF FlowInv, Inv, TypeInv, TokenInv
    <2>3. users[i] \in Ent(users)
          BY <2>2 DEF Ent
    <2>4. Vouched(users[i].email)
          BY <1>1, <2>1, <2>3 DEF FlowInv, VouchInv
    <2> QED
        BY <2>2, <2>4 DEF Vouched, Ent
  <1> QED
      BY <1>1, FlowAlways, PTL

\* Every user goes back to a confirmation of its own, or to somebody who
\* continued the session.
THEOREM AlwaysUsersBounded == OrderedFlow => (Spec => []UsersBounded)
  <1>1. ASSUME FlowInv PROVE UsersBounded
    <2>1. TypeInv /\ BaseInv /\ TokenInv /\ CountInv
          BY <1>1 DEF FlowInv, Inv
    <2>2. Unread \in Nat /\ InBox("Continue") \in Nat
          BY <2>1, WhereFinite DEF TypeInv, Unread, InBox
    <2>3. Working \in Nat /\ Len(users) \in Nat /\ Len(confirmed) \in Nat /\ calls.continues \in Nat
          BY <2>1, EnrollAssumption DEF Working, TypeInv, TokenInv, BaseInv
    <2> QED
        BY <2>1, <2>2, <2>3 DEF CountInv, UsersBounded
  <1> QED
      BY <1>1, FlowAlways, PTL

\* A session finishes only for a user that was created.
THEOREM AlwaysFinishedHasUser == OrderedFlow => (Spec => []FinishedHasUser)
  <1>1. ASSUME FlowInv PROVE FinishedHasUser
    <2>1. SUFFICES ASSUME state.finished PROVE state.uid \in DOMAIN users
          BY DEF FinishedHasUser
    <2>2. TypeInv /\ KindInv /\ UserInv
          BY <1>1 DEF FlowInv, Inv
    <2>3. kind = "state" /\ state = Kept
          BY <2>1, <2>2 DEF TypeInv, KindInv, state, Kept
    <2>4. Kept.uid \in 0..Len(users) /\ Kept.uid # 0
          BY <2>1, <2>2, <2>3 DEF UserInv
    <2> QED
        BY <2>2, <2>3, <2>4 DEF TypeInv
  <1> QED
      BY <1>1, FlowAlways, PTL
=============================================================================
