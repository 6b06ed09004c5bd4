----------------------------- MODULE EnrollFlow -----------------------------
(***************************************************************************)
(* One enrollment of skel-enroll: a session that walks a user through      *)
(* START, EMAIL, CONFIRM_EMAIL, CREATE_USER, FINISH.  Three actors:        *)
(*   EnrollFlow, the manager, takes the calls of the clients and spawns    *)
(*     and addresses the other two;                                        *)
(*   EnrollState (or EnrollEvent), the session, persists every change      *)
(*     before it answers;                                                  *)
(*   the listener, which gets the answers, runs the phase (sends the mail, *)
(*     creates the user) and tells the session what comes next.            *)
(* Messages of one sender stay in order, messages of two do not.  A crash  *)
(* of the process loses every message; the persisted session remains.      *)
(* Sessions do not share state, so one is modelled.                        *)
(***************************************************************************)
EXTENDS Naturals, Sequences, FiniteSets

CONSTANTS
  Flow,          \* the phases of the flow, acknowledgements included
  EnrollTypes,   \* what EnrollActorSystem may be built with: "state", "event"
  Emails,        \* the emails clients submit
  GivenName,     \* the name and
  GivenEmail,    \* the email StartFlow is called with
  Services,      \* what a call of the user or the notify service may do
  MaxEmails,     \* bounds: AddEmail calls,
  MaxConfirms,   \* ConfirmEmail calls,
  MaxContinues,  \* ContinueFlow calls,
  MaxCrashes,    \* crashes of the process,
  MaxFailures    \* failed writes of the session

Phases == {"", "START", "START_ACK", "EMAIL", "EMAIL_ACK", "CONFIRM_EMAIL", "CONFIRM_EMAIL_ACK",
           "CREATE_USER", "CREATE_USER_ACK", "FINISH", "FINISH_ACK"}

\* the phases of a flow are those that the listener has a case for
ASSUME EnrollAssumption ==
  /\ Flow \in Seq(Phases)
  /\ EnrollTypes \subseteq {"state", "event"}
  /\ Services \subseteq {"ok", "refused", "lost"}
  /\ {MaxEmails, MaxConfirms, MaxContinues, MaxCrashes, MaxFailures} \subseteq Nat

Blank == "blank"                              \* Some("") and None
Token == 1..MaxEmails                         \* Util.generateRandomToken(): never the same
NoToken == 0
NoUser == 0
Names == Emails \cup {GivenName, GivenEmail, Blank}

VARIABLES
  enrollType, \* EnrollActorSystem.enrollType
  stored,     \* Enrollment.State of the session, as each of the two kinds persists it
  kind,       \* the kind of the session's actor
  session,    \* the session's actor: none, up, or down after an exception
  mailbox,    \* messages to the session
  listener,   \* the listener's actor: none, new, asking (for Info), up, down
  args,       \* does the listener have the arguments of StartFlow
  replies,    \* messages to the listener
  at,         \* the phase the listener is in and the summary it works from
  started,    \* StartFlow was called
  calls,      \* number of calls of the clients, by kind
  crashes,    \* number of crashes of the process
  failures,   \* number of failed writes
  mailed,     \* the mails that were sent: [email, token]
  confirmed,  \* history: the token of every accepted confirmation
  users       \* the users the user service created for this session

actors == <<kind, session, mailbox, listener, args, replies, at>>
world == <<started, calls, crashes, failures, mailed, users>>
vars == <<enrollType, stored, actors, world, confirmed>>

Summary == [phase: Phases, name: Names, email: Names, token: Token \cup {NoToken},
            uid: Nat, finished: BOOLEAN, flow: Seq(Phases)]

EmptyState(flow) ==
  [phase |-> "START", name |-> Blank, email |-> Blank, token |-> NoToken,
   uid |-> NoUser, finished |-> FALSE, flow |-> flow]

\* what the session's actor works on
state == stored[kind]
Becomes(s) == stored' = [stored EXCEPT ![kind] = s]

Nowhere == [phase |-> "", summary |-> EmptyState(<<>>)]
Idle == at = Nowhere

Start(n, e)     == [cmd |-> "Start", name |-> n, email |-> e]
Continue        == [cmd |-> "Continue"]
AddEmail(e)     == [cmd |-> "AddEmail", email |-> e]
ConfirmEmail(t) == [cmd |-> "ConfirmEmail", token |-> t]
UpdatePhase(p)  == [cmd |-> "UpdatePhase", phase |-> p]
CreateUser(u)   == [cmd |-> "CreateUser", uid |-> u]
Finish          == [cmd |-> "Finish"]
Info            == [cmd |-> "Info"]

Command ==
       [cmd: {"Start"}, name: Names, email: Names]
  \cup [cmd: {"AddEmail"}, email: Names] \cup [cmd: {"ConfirmEmail"}, token: Nat]
  \cup [cmd: {"UpdatePhase"}, phase: Phases] \cup [cmd: {"CreateUser"}, uid: Nat]
  \cup [cmd: {"Continue", "Finish", "Info"}]

Error == [ok |-> FALSE, summary |-> EmptyState(<<>>)]
Success(s) == [ok |-> TRUE, summary |-> s]

\* a message to an actor that has stopped is a dead letter
Tell(m) == IF session = "down" THEN mailbox ELSE Append(mailbox, m)
Reply(r) == IF listener = "down" THEN replies ELSE Append(replies, r)

Init ==
  /\ enrollType \in EnrollTypes /\ kind = enrollType
  /\ stored = [k \in {"state", "event"} |-> EmptyState(<<"">>)]
  /\ session = "none" /\ listener = "none" /\ args = FALSE
  /\ mailbox = <<>> /\ replies = <<>> /\ at = Nowhere
  /\ started = FALSE
  /\ calls = [emails |-> 0, confirms |-> 0, continues |-> 0]
  /\ crashes = 0 /\ failures = 0
  /\ mailed = {} /\ confirmed = <<>> /\ users = <<>>
-----------------------------------------------------------------------------
(* The manager: EnrollFlow.onMessage, for a call of a client               *)

StartFlow ==
  /\ ~started /\ started' = TRUE
  /\ kind' = enrollType
  /\ stored' = [stored EXCEPT ![kind'] = EmptyState(Flow)]
  /\ session' = "up" /\ args' = TRUE
  /\ \/ listener' = "new" /\ mailbox' = <<Start(GivenName, GivenEmail)>>
     \/ listener' = "asking" /\ mailbox' = <<Info, Start(GivenName, GivenEmail)>>
  /\ UNCHANGED <<enrollType, replies, at, calls, crashes, failures, mailed, users, confirmed>>

\* find(eid, k): the actors in the maps, dead or alive, or two new ones
Find(k) ==
  /\ started
  /\ IF session = "none"
     THEN session' = "up" /\ listener' = "new" /\ kind' = k
     ELSE UNCHANGED <<session, listener, kind>>
  /\ UNCHANGED <<enrollType, stored, args, replies, at, started, crashes, failures, mailed, users, confirmed>>

\* a call that is passed on to the session
Forward(call, bound, m) ==
  /\ Find("state")
  /\ calls[call] < bound /\ calls' = [calls EXCEPT ![call] = @ + 1]
  /\ mailbox' = Tell(m)

ContinueFlow == Forward("continues", MaxContinues, Continue)
AddEmailCall == \E e \in Emails : Forward("emails", MaxEmails, AddEmail(e))

\* with a token the client has been mailed, or a wrong one
ConfirmEmailCall ==
  \E t \in {m.token : m \in mailed} \cup {MaxEmails + 1} :
    Forward("confirms", MaxConfirms, ConfirmEmail(t))

\* the summary itself is only read
GetSummary == session = "none" /\ Find(enrollType) /\ UNCHANGED <<mailbox, calls>>
-----------------------------------------------------------------------------
(* The session: EnrollState, EnrollEvent                                   *)

Receives(m) == session = "up" /\ mailbox # <<>> /\ Head(mailbox) = m

\* State.start: StartFlow's name and email arrive in each other's place
StateStart(s, n, e) == [s EXCEPT !.phase = "START_ACK", !.email = n, !.name = e]
StateUpdatePhase(s, p) == [s EXCEPT !.phase = p]
\* mutant: the token of the first email stays
StateAddEmailOldToken(s, e, t) ==
  [s EXCEPT !.phase = "EMAIL_ACK", !.email = e, !.token = IF @ = NoToken THEN t ELSE @]
StateAddEmail(s, e, t) == [s EXCEPT !.phase = "EMAIL_ACK", !.email = e, !.token = t]
StateConfirmEmail(s) == [s EXCEPT !.phase = "CONFIRM_EMAIL_ACK"]
\* mutant: the phase is not acknowledged
StateCreateUserOnly(s, u) == [s EXCEPT !.uid = u]
StateCreateUser(s, u) == [s EXCEPT !.phase = "CREATE_USER_ACK", !.uid = u]
StateFinish(s) == [s EXCEPT !.phase = "FINISH_ACK", !.finished = TRUE]

\* mutant: commands are executed after the end
NeverFinished(s) == FALSE
IsFinished(s) == s.finished

\* a token that was not drawn before
NewToken(s) == s.token + 1

\* mutant: any token confirms
ValidEmailOnly(s, m) == m.cmd = "AddEmail" => m.email # Blank

\* the command may be executed; otherwise it is answered with an error
Valid(s, m) ==
  /\ m.cmd = "ConfirmEmail" => m.token = s.token
  /\ m.cmd = "AddEmail" => m.email # Blank

\* the state that executing m persists
Executed(s, m) ==
  CASE m.cmd = "Start"        -> StateStart(s, m.name, m.email)
    [] m.cmd = "AddEmail"     -> StateAddEmail(s, m.email, NewToken(s))
    [] m.cmd = "ConfirmEmail" -> StateConfirmEmail(s)
    [] m.cmd = "UpdatePhase"  -> StateUpdatePhase(s, m.phase)
    [] m.cmd = "CreateUser"   -> StateCreateUser(s, m.uid)
    [] m.cmd = "Finish"       -> StateFinish(s)

Persisting == {"Start", "AddEmail", "ConfirmEmail", "UpdatePhase", "CreateUser", "Finish"}

\* Effect.persist(...).thenRun(reply); UpdatePhase has no reply
Execute ==
  /\ session = "up" /\ mailbox # <<>>
  /\ LET m == Head(mailbox) IN
       /\ m.cmd \in Persisting /\ ~IsFinished(state) /\ Valid(state, m)
       /\ Becomes(Executed(state, m))
       /\ replies' = IF m.cmd = "UpdatePhase" THEN replies ELSE Reply(Success(Executed(state, m)))
       /\ confirmed' = IF m.cmd = "ConfirmEmail" THEN Append(confirmed, m.token) ELSE confirmed
  /\ mailbox' = Tail(mailbox)
  /\ UNCHANGED <<enrollType, kind, session, listener, args, at, world>>

Reject ==
  /\ session = "up" /\ mailbox # <<>>
  /\ Head(mailbox).cmd \in Persisting /\ ~IsFinished(state) /\ ~Valid(state, Head(mailbox))
  /\ replies' = Reply(Error)
  /\ mailbox' = Tail(mailbox)
  /\ UNCHANGED <<enrollType, stored, kind, session, listener, args, at, world, confirmed>>

\* Continue: the listener is told where the session stands
ExecuteContinue ==
  /\ Receives(Continue) /\ ~IsFinished(state) /\ kind = "state"
  /\ replies' = Reply(Success(state))
  /\ mailbox' = Tail(mailbox)
  /\ UNCHANGED <<enrollType, stored, kind, session, listener, args, at, world, confirmed>>

\* Info, which the listener waits for when it is set up
ExecuteInfo ==
  /\ Receives(Info) /\ kind = "state"
  /\ listener' = IF listener = "asking" THEN "up" ELSE listener
  /\ mailbox' = Tail(mailbox)
  /\ UNCHANGED <<enrollType, stored, kind, session, args, replies, at, world, confirmed>>

\* finishedEnroll: no more commands, and no answer
Ignore ==
  /\ session = "up" /\ mailbox # <<>>
  /\ IsFinished(state) /\ (Head(mailbox) = Info => kind = "event")
  /\ mailbox' = Tail(mailbox)
  /\ UNCHANGED <<enrollType, stored, kind, session, listener, args, replies, at, world, confirmed>>

\* EnrollEvent has no case for Continue and Info: the match fails, the actor stops
NoMatch ==
  /\ kind = "event" /\ ~IsFinished(state) /\ (Receives(Continue) \/ Receives(Info))
  /\ session' = "down" /\ mailbox' = <<>>
  /\ UNCHANGED <<enrollType, stored, kind, listener, args, replies, at, world, confirmed>>

\* onPersistFailure: the actor restarts, the command is gone
PersistFailure ==
  /\ failures < MaxFailures /\ failures' = failures + 1
  /\ session = "up" /\ mailbox # <<>>
  /\ Head(mailbox).cmd \in Persisting /\ ~IsFinished(state) /\ Valid(state, Head(mailbox))
  /\ mailbox' = Tail(mailbox)
  /\ UNCHANGED <<enrollType, stored, kind, session, listener, args, replies, at, started, calls, crashes, mailed, users, confirmed>>
-----------------------------------------------------------------------------
(* The listener                                                            *)

\* setup: ask the session for its state, and wait
ListenerAsk ==
  /\ listener = "new"
  /\ listener' = "asking"
  /\ mailbox' = Tell(Info)
  /\ UNCHANGED <<enrollType, stored, kind, session, args, replies, at, world, confirmed>>

\* Await.result throws: no answer, or none within the second
ListenerTimeout ==
  /\ listener = "asking"
  /\ session = "down" \/ "lost" \in Services
  /\ listener' = "down" /\ replies' = <<>>
  /\ UNCHANGED <<enrollType, stored, kind, session, mailbox, args, at, world, confirmed>>

Receive ==
  /\ listener = "up" /\ Idle /\ replies # <<>>
  /\ LET r == Head(replies) IN
       at' = IF r.ok THEN [phase |-> r.summary.phase, summary |-> r.summary] ELSE Nowhere
  /\ replies' = Tail(replies)
  /\ UNCHANGED <<enrollType, stored, kind, session, mailbox, listener, args, world, confirmed>>

\* the phase after p: flow.dropWhile(_ != p).drop(1).headOption
NextPhase(p) ==
  LET flow == state.flow
      here == {i \in 1..Len(flow) : flow[i] = p /\ \A j \in 1..(i - 1) : flow[j] # p}
  IN IF \E i \in here : i < Len(flow) THEN flow[(CHOOSE i \in here : TRUE) + 1] ELSE ""

\* What a flow has to keep to, as the registration flows do: every phase comes
\* right after the one whose result it works with.
FollowsOnly(q, p) == \A i \in 1..(Len(Flow) - 1) : Flow[i + 1] = q => Flow[i] = p
OrderedFlow ==
  /\ FollowsOnly("START_ACK", "START") /\ FollowsOnly("EMAIL_ACK", "EMAIL")
  /\ FollowsOnly("CONFIRM_EMAIL_ACK", "CONFIRM_EMAIL") /\ FollowsOnly("CREATE_USER", "CONFIRM_EMAIL_ACK")
  /\ FollowsOnly("CREATE_USER_ACK", "CREATE_USER") /\ FollowsOnly("FINISH", "CREATE_USER_ACK")
  /\ FollowsOnly("FINISH_ACK", "FINISH")
  /\ \A i \in 2..Len(Flow) : Flow[i] # "START"

At(p) == listener = "up" /\ at.phase = p
Enter(p) == at' = IF p = "" THEN Nowhere ELSE [at EXCEPT !.phase = p]

\* mutant: START_ACK waits like the phases before it
AdvanceNotStart ==
  /\ \E p \in {"CONFIRM_EMAIL_ACK", "CREATE_USER_ACK"} : At(p) /\ Enter(NextPhase(p))
  /\ UNCHANGED <<enrollType, stored, kind, session, mailbox, listener, args, replies, world, confirmed>>

\* START_ACK, CONFIRM_EMAIL_ACK, CREATE_USER_ACK: on to the next phase
Advance ==
  /\ \E p \in {"START_ACK", "CONFIRM_EMAIL_ACK", "CREATE_USER_ACK"} : At(p) /\ Enter(NextPhase(p))
  /\ UNCHANGED <<enrollType, stored, kind, session, mailbox, listener, args, replies, world, confirmed>>

\* the phase's message to the session ends the handler
TellSession(m) ==
  /\ mailbox' = Tell(m) /\ at' = Nowhere
  /\ UNCHANGED <<enrollType, stored, kind, session, listener, args, replies, started, calls, crashes, failures, mailed, confirmed>>

PhaseStart ==
  /\ At("START")
  /\ TellSession(IF args THEN Start(GivenName, GivenEmail) ELSE Start(Blank, Blank))
  /\ UNCHANGED users

PhaseEmail == \E p \in {"EMAIL", "CONFIRM_EMAIL"} : At(p) /\ TellSession(UpdatePhase(p)) /\ UNCHANGED users

\* mutant: the session is not told to finish
PhaseFinishSilent ==
  /\ At("FINISH") /\ at' = Nowhere
  /\ UNCHANGED <<enrollType, stored, kind, session, mailbox, listener, args, replies, world, confirmed>>

PhaseFinish == At("FINISH") /\ TellSession(Finish) /\ UNCHANGED users

Mail == [email |-> at.summary.email, token |-> at.summary.token]
NewUser == [email |-> at.summary.email, name |-> at.summary.name]

\* EMAIL_ACK: mail the token; a refusal of the notify service goes unnoticed
PhaseMail ==
  /\ At("EMAIL_ACK")
  /\ \E result \in Services \cap {"ok", "refused"} :
       mailed' = IF result = "ok" THEN mailed \cup {Mail} ELSE mailed
  /\ Enter(NextPhase("EMAIL_ACK"))
  /\ UNCHANGED <<enrollType, stored, kind, session, mailbox, listener, args, replies, started, calls, crashes, failures, users, confirmed>>

\* CREATE_USER, and the user service answers with the id of a new user
PhaseCreateUser ==
  /\ At("CREATE_USER")
  /\ "ok" \in Services
  /\ users' = Append(users, NewUser)
  /\ TellSession(CreateUser(Len(users')))

\* mutant: a refusal goes unnoticed, as that of the notify service does
PhaseRefusedOn ==
  /\ At("CREATE_USER")
  /\ "refused" \in Services
  /\ Enter(NextPhase("CREATE_USER"))
  /\ UNCHANGED <<enrollType, stored, kind, session, mailbox, listener, args, replies, world, confirmed>>

\* ... or refuses: nothing more is done until somebody continues the flow
PhaseRefused ==
  /\ At("CREATE_USER")
  /\ "refused" \in Services
  /\ at' = Nowhere
  /\ UNCHANGED <<enrollType, stored, kind, session, mailbox, listener, args, replies, world, confirmed>>

\* FINISH_ACK: the notification of the operator
PhaseDone ==
  /\ At("FINISH_ACK")
  /\ at' = Nowhere
  /\ UNCHANGED <<enrollType, stored, kind, session, mailbox, listener, args, replies, world, confirmed>>

\* await() of a service throws: the call may have had its effect, the listener stops
ServiceLost ==
  /\ "lost" \in Services
  /\ \/ At("EMAIL_ACK") /\ mailed' \in {mailed, mailed \cup {Mail}} /\ UNCHANGED users
     \/ /\ At("CREATE_USER") /\ UNCHANGED mailed
        /\ users' \in {users, Append(users, NewUser)}
     \/ At("FINISH_ACK") /\ UNCHANGED <<mailed, users>>
  /\ listener' = "down" /\ at' = Nowhere /\ replies' = <<>>
  /\ UNCHANGED <<enrollType, stored, kind, session, mailbox, args, started, calls, crashes, failures, confirmed>>
-----------------------------------------------------------------------------
(* The process ends and is started again: the maps of the manager are      *)
(* empty, a session that had not persisted anything is unknown, and the    *)
(* events of EnrollEvent do not say what flow it was.                      *)
Revived(k, s) ==
  IF s.phase = "START" THEN EmptyState(<<"">>)
  ELSE IF k = "event" THEN [s EXCEPT !.flow = <<"">>] ELSE s

Crash ==
  /\ crashes < MaxCrashes /\ crashes' = crashes + 1
  /\ started
  /\ session' = "none" /\ listener' = "none" /\ args' = FALSE
  /\ mailbox' = <<>> /\ replies' = <<>> /\ at' = Nowhere
  /\ stored' = [k \in DOMAIN stored |-> Revived(k, stored[k])]
  /\ UNCHANGED <<enrollType, kind, started, calls, failures, mailed, users, confirmed>>

Session == Execute \/ Reject \/ ExecuteContinue \/ ExecuteInfo \/ Ignore \/ NoMatch

Listener ==
  \/ ListenerAsk \/ ListenerTimeout \/ Receive \/ Advance
  \/ PhaseStart \/ PhaseEmail \/ PhaseMail \/ PhaseCreateUser \/ PhaseRefused
  \/ PhaseFinish \/ PhaseDone \/ ServiceLost

Next ==
  \/ StartFlow \/ ContinueFlow \/ AddEmailCall \/ ConfirmEmailCall \/ GetSummary
  \/ Session \/ PersistFailure \/ Listener \/ Crash

Spec == Init /\ [][Next]_vars

\* The dispatcher runs every actor that has a message; no client has to call.
FairSpec == Spec /\ WF_vars(Session) /\ WF_vars(Listener)
-----------------------------------------------------------------------------
(* Properties                                                              *)

\* The state has its type.
TypeOK ==
  /\ enrollType \in EnrollTypes /\ kind \in {"state", "event"}
  /\ stored \in [{"state", "event"} -> Summary]
  /\ session \in {"none", "up", "down"}
  /\ listener \in {"none", "new", "asking", "up", "down"}
  /\ args \in BOOLEAN /\ started \in BOOLEAN
  /\ mailbox \in Seq(Command)
  /\ replies \in Seq([ok: BOOLEAN, summary: Summary])
  /\ at \in [phase: Phases, summary: Summary]
  /\ calls \in [emails: 0..MaxEmails, confirms: 0..MaxConfirms, continues: 0..MaxContinues]
  /\ crashes \in 0..MaxCrashes /\ failures \in 0..MaxFailures
  /\ mailed \subseteq [email: Names, token: Token]
  /\ confirmed \in Seq(Token)
  /\ users \in Seq([email: Names, name: Names])

\* A user is created only with an email whose own token came back: whatever
\* emails are submitted meanwhile, and wherever the process crashes.  The one
\* exception is a session whose write failed and that is then continued: the
\* Start that the listener repeats replaces the email of a token under way.
UserConfirmed ==
  failures = 0 \/ calls.continues = 0 =>
    \A i \in DOMAIN users : \E j \in DOMAIN confirmed :
      [email |-> users[i].email, token |-> confirmed[j]] \in mailed

\* Every user created goes back to a confirmation of its own, or to somebody
\* who continued the session: a crash or a late answer creates none.
UsersBounded == Len(users) <= Len(confirmed) + calls.continues

\* A session finishes only for a user that was created, with a confirmed email.
FinishedHasUser == state.finished => state.uid \in DOMAIN users

\* A finished session never changes again, whatever was still in the mailbox.
FinishedForever == [][\A k \in DOMAIN stored : stored[k].finished => stored'[k] = stored[k]]_vars

\* A confirmation that is accepted leads to a finished session, if no
\* service fails and the process stays up.
ConfirmedFinishes == (confirmed # <<>>) ~> state.finished

\* A session that was started comes to the first phase that waits for the user.
StartedWaits == started ~> (state.phase \notin {"START", "START_ACK"})

\* A used token is cleared.
TokenIsSpent == state.phase = "CONFIRM_EMAIL_ACK" => state.token = NoToken

\* A session whose email is confirmed does not fall back to waiting for the
\* confirmation of that email.
ConfirmationKept ==
  [][state.phase = "CONFIRM_EMAIL_ACK" /\ state'.email = state.email
       => state'.phase # "CONFIRM_EMAIL"]_vars
=============================================================================
