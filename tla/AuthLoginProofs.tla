-------------------------- MODULE AuthLoginProofs --------------------------
(***************************************************************************)
(* What holds of auth-login for any number of logins, clicks and reloads,  *)
(* any buttons and any codes.                                              *)
(***************************************************************************)
EXTENDS AuthLogin, TLAPS

Calls == [kind : AllKinds, id : 0..MaxActs, step : 1..3, captured : States]

LEMMA CallType ==
  ASSUME acts \in 0..MaxActs, NEW kind \in AllKinds, NEW s \in States
  PROVE  Call(kind, s) \in Calls
BY DEF Call, Calls

LEMMA NextStep ==
  ASSUME NEW c \in Calls, c.step < LastStep(c.kind)
  PROVE  [c EXCEPT !.step = @ + 1] \in Calls
<1>1. c.step \in 1..3 BY DEF Calls
<1>2. LastStep(c.kind) \in 1..3 BY DEF LastStep
<1>3. c.step + 1 \in 1..3 BY <1>1, <1>2
<1>. QED BY <1>3 DEF Calls

LEMMA LoggedOffType == LoggedOff \in States /\ 0 \in Auths
BY BoundAssumption DEF LoggedOff, States, Auths

LEMMA LoadType ==
  ASSUME TypeOK, Load
  PROVE  /\ page' \in {"up", "broken"} /\ state' \in States /\ next' \in States
         /\ stored' \in States \cup {Garbage}
         /\ pending' \in BOOLEAN /\ due' \in BOOLEAN /\ overtaken' \in BOOLEAN
         /\ session' \in Auths /\ logins' \in 0..MaxLogins
<1>1. state' \in States /\ next' \in States BY LoggedOffType DEF TypeOK, Load
<1>2. overtaken' \in BOOLEAN /\ due' \in BOOLEAN BY DEF Load, TypeOK
<1>. QED BY <1>1, <1>2 DEF Load, TypeOK

LEMMA InitType == Init => TypeOK
<1>. SUFFICES ASSUME Init PROVE TypeOK
  OBVIOUS
<1>1. logins \in 0..MaxLogins /\ acts \in 0..MaxActs BY BoundAssumption DEF Init
<1>2. state \in States /\ next \in States /\ stored \in States /\ session \in Auths
  BY LoggedOffType DEF Init
<1>3. calls = {} /\ sent \in Nat BY DEF Init
<1>. QED BY <1>1, <1>2, <1>3 DEF Init, TypeOK

LEMMA StepType == TypeOK /\ [Next]_vars => TypeOK'
<1>. SUFFICES ASSUME TypeOK, [Next]_vars PROVE TypeOK'
  OBVIOUS
<1>a. calls \subseteq Calls BY DEF TypeOK, Calls
<1>1. ASSUME NEW kind \in Kinds, Click(kind) PROVE TypeOK'
  <2>1. kind \in AllKinds /\ acts \in 0..MaxActs /\ state \in States
    BY BoundAssumption DEF TypeOK
  <2>2. Call(kind, state) \in Calls BY <2>1, CallType
  <2>3. calls' \subseteq Calls BY <1>a, <1>1, <2>2 DEF Click
  <2>4. overtaken' \in BOOLEAN BY <1>1 DEF Click, TypeOK
  <2>5. acts' \in 0..MaxActs BY <1>1, BoundAssumption DEF Click, Act, TypeOK
  <2>. QED BY <1>1, <2>3, <2>4, <2>5 DEF Click, TypeOK, react, twitter, Calls
<1>2. ASSUME NEW code \in Codes, Arrive(code) PROVE TypeOK'
  <2>1. acts' \in 0..MaxActs BY <1>2, BoundAssumption DEF Arrive, Act, TypeOK
  <2>2. Load BY <1>2 DEF Arrive
  <2>3. acts \in 0..MaxActs /\ "twitter" \in AllKinds BY DEF TypeOK, AllKinds, Logins
  <2>4. state' \in States BY <2>2, LoadType
  <2>5. Call("twitter", state') \in Calls BY <2>3, <2>4, CallType
  <2>6. calls' \subseteq Calls BY <1>2, <2>5 DEF Arrive
  <2>7. sent' \in Nat /\ sentCode' \in Codes \cup {None} /\ location' \in Codes \cup {None}
    BY <1>2 DEF Arrive
  <2>. QED BY <2>1, <2>2, <2>6, <2>7, LoadType DEF TypeOK, Calls
<1>3. ASSUME Back PROVE TypeOK'
  <2>1. acts' \in 0..MaxActs BY <1>3, BoundAssumption DEF Back, Act, TypeOK
  <2>2. acts \in 0..MaxActs /\ "twitter" \in AllKinds /\ state \in States
    BY DEF TypeOK, AllKinds, Logins
  <2>3. Call("twitter", state) \in Calls BY <2>2, CallType
  <2>4. calls' \subseteq Calls BY <1>a, <1>3, <2>3 DEF Back
  <2>5. sent' \in Nat /\ overtaken' \in BOOLEAN /\ sentCode' \in Codes \cup {None}
    <3>1. CASE Fresh(sentCode, location) BY <1>3, <3>1 DEF Back, TypeOK
    <3>2. CASE ~ Fresh(sentCode, location) BY <1>3, <3>2 DEF Back, TypeOK
    <3>. QED BY <3>1, <3>2
  <2>. QED BY <1>3, <2>1, <2>4, <2>5 DEF Back, TypeOK, react, Calls
<1>4. ASSUME Reload PROVE TypeOK'
  <2>1. acts' \in 0..MaxActs BY <1>4, BoundAssumption DEF Reload, Act, TypeOK
  <2>2. Load BY <1>4 DEF Reload
  <2>. QED BY <1>4, <2>1, <2>2, LoadType DEF Reload, TypeOK
<1>5. ASSUME NEW c \in calls, Goes(c) PROVE TypeOK'
  <2>1. [c EXCEPT !.step = @ + 1] \in Calls BY <1>a, <1>5, NextStep DEF Goes
  <2>2. calls' \subseteq Calls BY <1>a, <1>5, <2>1 DEF Goes
  <2>. QED BY <1>5, <2>2 DEF Goes, TypeOK, react, twitter, ghost, Calls
<1>6. ASSUME NEW c \in calls, Fails(c) PROVE TypeOK'
  BY <1>6 DEF Fails, TypeOK, react, twitter, ghost
<1>7. ASSUME NEW c \in calls, LogoffAnswer(c) PROVE TypeOK'
  <2>1. next' \in States BY <1>7, LoggedOffType DEF LogoffAnswer, SetState, States
  <2>. QED BY <1>7, <2>1, LoggedOffType
    DEF LogoffAnswer, Answered, SetState, Becomes, TypeOK, twitter
<1>8. ASSUME NEW c \in calls, LoginAnswer(c) PROVE TypeOK'
  <2>1. logins' \in 0..MaxLogins /\ logins' \in Auths
    BY <1>8, BoundAssumption DEF LoginAnswer, TypeOK, Auths
  <2>2. c.captured \in States BY <1>a DEF Calls
  <2>3. next' \in States BY <1>8, <2>1, <2>2 DEF LoginAnswer, SetState, States
  <2>4. calls' \subseteq calls BY <1>8 DEF LoginAnswer, Answered
  <2>5. stored' \in States \cup {Garbage} BY <1>8 DEF LoginAnswer, TypeOK
  <2>. QED BY <1>8, <2>1, <2>3, <2>4, <2>5 DEF LoginAnswer, SetState, Becomes, TypeOK, twitter
<1>9. ASSUME NEW c \in calls, LoginRefused(c) PROVE TypeOK'
  <2>1. c.captured \in States BY <1>a DEF Calls
  <2>2. next' \in States BY <1>9, <2>1 DEF LoginRefused, SetState, States, Auths
  <2>. QED BY <1>9, <2>2
    DEF LoginRefused, Answered, SetState, Becomes, TypeOK, Auths, twitter
<1>10. ASSUME NEW c \in calls, NEW res \in {"json", "text"}, ApiAnswer(c, res) PROVE TypeOK'
  <2>1. c.captured \in States BY <1>a DEF Calls
  <2>2. next' \in States BY <1>10, <2>1 DEF ApiAnswer, SetState, WithRes, States
  <2>. QED BY <1>10, <2>2 DEF ApiAnswer, Answered, SetState, TypeOK, twitter, ghost
<1>11. CASE Render BY <1>11 DEF Render, TypeOK, twitter, ghost
<1>12. CASE Save BY <1>12 DEF Save, Saved, TypeOK, twitter, ghost
<1>13. CASE UNCHANGED vars BY <1>13 DEF vars, react, twitter, ghost, TypeOK
<1>. QED
  BY <1>1, <1>2, <1>3, <1>4, <1>5, <1>6, <1>7, <1>8, <1>9, <1>10, <1>11, <1>12, <1>13
  DEF Next, User, Services

(* The state of the page, its calls and what is saved keep their types: a login  *)
(* is a number that was given, nobody, or an error of Google's.                   *)
THEOREM TypeCorrect == Spec => []TypeOK
BY InitType, StepType, PTL DEF Spec
-----------------------------------------------------------------------------
LEMMA StepStored == StoredIsState /\ [Next]_vars => StoredIsState'
<1>. SUFFICES ASSUME StoredIsState, [Next]_vars PROVE StoredIsState'
  OBVIOUS
<1>1. ASSUME NEW kind \in Kinds, Click(kind) PROVE StoredIsState'
  BY <1>1 DEF Click, StoredIsState, react
<1>2. CASE \E code \in Codes : Arrive(code) BY <1>2 DEF Arrive, Load, StoredIsState
<1>3. CASE Back BY <1>3 DEF Back, StoredIsState, react
<1>4. CASE Reload BY <1>4 DEF Reload, Load, StoredIsState
<1>5. ASSUME NEW c \in calls, Goes(c) \/ Fails(c) PROVE StoredIsState'
  BY <1>5 DEF Goes, Fails, StoredIsState, react
<1>6. ASSUME NEW c \in calls, LogoffAnswer(c) \/ LoginAnswer(c) \/ LoginRefused(c)
      PROVE StoredIsState'
  BY <1>6 DEF LogoffAnswer, LoginAnswer, LoginRefused, SetState, StoredIsState
<1>7. ASSUME NEW c \in calls, NEW res \in {"json", "text"}, ApiAnswer(c, res)
      PROVE StoredIsState'
  BY <1>7 DEF ApiAnswer, SetState, StoredIsState
<1>8. CASE Render BY <1>8 DEF Render, StoredIsState
<1>9. CASE Save BY <1>9 DEF Save, Saved, StoredIsState
<1>10. CASE UNCHANGED vars BY <1>10 DEF vars, react, StoredIsState
<1>. QED
  BY <1>1, <1>2, <1>3, <1>4, <1>5, <1>6, <1>7, <1>8, <1>9, <1>10 DEF Next, User, Services

(* A settled page has saved what it shows (App.js:38-40), after any mix of logins  *)
(* that write to localStorage themselves, answers and reloads.                      *)
THEOREM AlwaysStored == Spec => []StoredIsState
<1>1. Init => StoredIsState BY DEF Init, StoredIsState
<1>. QED BY <1>1, StepStored, PTL DEF Spec
-----------------------------------------------------------------------------
(* Why the session is kept: as long as no call is overtaken, every call in      *)
(* flight has captured the session that is still the last.                      *)
SessionInv ==
  /\ SessionKept
  /\ ~ overtaken => \A c \in calls : c.captured.auth = session

LEMMA StepSession == TypeOK /\ SessionInv /\ [Next]_vars => SessionInv'
<1>. SUFFICES ASSUME TypeOK, SessionInv, [Next]_vars PROVE SessionInv'
  OBVIOUS
<1>a. calls \subseteq Calls BY DEF TypeOK, Calls
<1>b. ASSUME NEW c \in calls PROVE c.captured \in States BY <1>a DEF Calls
<1>1. ASSUME NEW kind \in Kinds, Click(kind) PROVE SessionInv'
  <2>1. Call(kind, state).captured = state BY DEF Call
  <2>. QED BY <1>1, <2>1 DEF Click, SessionInv, SessionKept, react
<1>2. ASSUME NEW code \in Codes, Arrive(code) PROVE SessionInv'
  <2>1. Call("twitter", state').captured = state' BY DEF Call
  <2>. QED BY <1>2, <2>1 DEF Arrive, Load, SessionInv, SessionKept
<1>3. ASSUME Back PROVE SessionInv'
  <2>1. Call("twitter", state).captured = state BY DEF Call
  <2>2. CASE Fresh(sentCode, location)
    BY <1>3, <2>1, <2>2 DEF Back, SessionInv, SessionKept, react
  <2>3. CASE ~ Fresh(sentCode, location)
    BY <1>3, <2>3 DEF Back, SessionInv, SessionKept, react
  <2>. QED BY <2>2, <2>3 DEF Fresh
<1>4. CASE Reload BY <1>4 DEF Reload, Load, SessionInv, SessionKept
<1>5. ASSUME NEW c \in calls, Goes(c) PROVE SessionInv'
  <2>1. [c EXCEPT !.step = @ + 1].captured = c.captured BY <1>a DEF Calls
  <2>. QED BY <1>5, <2>1 DEF Goes, SessionInv, SessionKept, react, ghost
<1>6. ASSUME NEW c \in calls, Fails(c) PROVE SessionInv'
  BY <1>6 DEF Fails, SessionInv, SessionKept, react, ghost
<1>7. ASSUME NEW c \in calls, LogoffAnswer(c) PROVE SessionInv'
  BY <1>7 DEF LogoffAnswer, Answered, SetState, Becomes, SessionInv, SessionKept
<1>8. ASSUME NEW c \in calls, LoginAnswer(c) PROVE SessionInv'
  <2>1. [c.captured EXCEPT !.auth = logins'].auth = logins' BY <1>b DEF States
  <2>. QED BY <1>8, <2>1
    DEF LoginAnswer, Answered, SetState, Becomes, SessionInv, SessionKept
<1>9. ASSUME NEW c \in calls, LoginRefused(c) PROVE SessionInv'
  <2>1. [c.captured EXCEPT !.auth = Failed].auth = Failed BY <1>b DEF States
  <2>. QED BY <1>9, <2>1
    DEF LoginRefused, Answered, SetState, Becomes, SessionInv, SessionKept
<1>10. ASSUME NEW c \in calls, NEW res \in {"json", "text"}, ApiAnswer(c, res)
       PROVE SessionInv'
  <2>1. WithRes(c.captured, res).auth = c.captured.auth BY <1>b DEF WithRes, States
  <2>. QED BY <1>10, <2>1 DEF ApiAnswer, Answered, SetState, SessionInv, SessionKept, ghost
<1>11. CASE Render \/ Save BY <1>11 DEF Render, Save, SessionInv, SessionKept, ghost
<1>12. CASE UNCHANGED vars BY <1>12 DEF vars, react, ghost, SessionInv, SessionKept
<1>. QED
  BY <1>1, <1>2, <1>3, <1>4, <1>5, <1>6, <1>7, <1>8, <1>9, <1>10, <1>11, <1>12
  DEF Next, User, Services

(* Whoever logged in or off last is who the page is logged in as, for as long   *)
(* as no login or logoff has overtaken another call (App.js:58-65, 86-93).       *)
THEOREM SessionIsKept == Spec => []SessionKept
<1>1. Init => SessionInv
  <2>1. LoggedOff.auth = 0 BY DEF LoggedOff
  <2>. QED BY <2>1 DEF Init, SessionInv, SessionKept
<1>2. SessionInv => SessionKept BY DEF SessionInv
<1>. QED BY <1>1, <1>2, StepSession, TypeCorrect, PTL DEF Spec
-----------------------------------------------------------------------------
(* Why a code is sent once: what has been sent is the code of the callback. *)
CodeInv == sent \in {0, 1} /\ (sent = 1 => sentCode = location)

LEMMA StepCode == CodeInv /\ [Next]_vars => CodeInv'
<1>. SUFFICES ASSUME CodeInv, [Next]_vars PROVE CodeInv'
  OBVIOUS
<1>1. CASE \E kind \in Kinds : Click(kind) BY <1>1 DEF Click, CodeInv, twitter
<1>2. CASE \E code \in Codes : Arrive(code) BY <1>2 DEF Arrive, Load, Fresh, CodeInv
<1>3. CASE Back BY <1>3 DEF Back, Fresh, CodeInv
<1>4. CASE Reload BY <1>4 DEF Reload, CodeInv
<1>5. ASSUME NEW c \in calls, Goes(c) \/ Fails(c) PROVE CodeInv'
  BY <1>5 DEF Goes, Fails, CodeInv, twitter
<1>6. ASSUME NEW c \in calls, LogoffAnswer(c) \/ LoginAnswer(c) \/ LoginRefused(c)
      PROVE CodeInv'
  BY <1>6 DEF LogoffAnswer, LoginAnswer, LoginRefused, CodeInv, twitter
<1>7. ASSUME NEW c \in calls, NEW res \in {"json", "text"}, ApiAnswer(c, res)
      PROVE CodeInv'
  BY <1>7 DEF ApiAnswer, CodeInv, twitter
<1>8. CASE Render \/ Save \/ UNCHANGED vars
  BY <1>8 DEF Render, Save, vars, CodeInv, twitter
<1>. QED BY <1>1, <1>2, <1>3, <1>4, <1>5, <1>6, <1>7, <1>8 DEF Next, User, Services

(* However often a callback is rendered, by StrictMode or by going back in the  *)
(* history, the page sends its code once (LoginTwitterCallback.js:10-24).        *)
THEOREM CodeIsSentOnce == Spec => []CodeSentOnce
<1>1. Init => CodeInv BY DEF Init, CodeInv
<1>2. CodeInv => CodeSentOnce BY DEF CodeInv, CodeSentOnce
<1>. QED BY <1>1, <1>2, StepCode, PTL DEF Spec
=============================================================================
