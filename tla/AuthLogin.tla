----------------------------- MODULE AuthLogin -----------------------------
(***************************************************************************)
(* auth-login: the page that logs in with a wallet, Google or Twitter,     *)
(* calls the API and logs off.  Every call captures the state of the page  *)
(* as it was rendered when the call began, and its answer writes that      *)
(* state back with one field changed; the state is saved in localStorage   *)
(* by an effect and read from there when the page loads.  The services are *)
(* external: they answer or fail at any time.                              *)
(***************************************************************************)
EXTENDS Naturals

CONSTANTS
  Kinds,                  \* the buttons that are there, a subset of AllKinds
  Codes,                  \* codes that Twitter gives
  MaxLogins,              \* bound: logins that are granted
  MaxActs,                \* bound: events of the user
  Garbage,                \* "[object Object]" in localStorage
  Failed,                 \* an error of Google's, as auth
  None

VARIABLES
  page,                   \* "up", or "broken": getInitialState has thrown
  state,                  \* as rendered, which closures capture
  next, pending,          \* the last setState, and whether it is still to be rendered
  due,                    \* the effect on state is still to run
  stored,                 \* localStorage.state
  calls,                  \* calls in flight
  location,               \* the code of the callback in the history of this tab
  sentCode, sent,         \* _code, and how often this page has sent it
  session, overtaken,     \* who has logged in or off last, and whether other calls know
  logins, acts

react == <<state, next, pending, due>>
twitter == <<location, sentCode, sent>>
ghost == <<session, overtaken>>
vars == <<page, react, stored, calls, twitter, ghost, logins, acts>>

Logins == {"web3", "google", "popup", "twitter"}
AllKinds == {"api", "logoff"} \cup Logins
ASSUME BoundAssumption == MaxLogins \in Nat /\ MaxActs \in Nat /\ Kinds \subseteq AllKinds

Auths == 0..MaxLogins \cup {Failed}     \* 0: nobody, otherwise the number of the login
States == [auth : Auths, res : {"", "json", "text"}]
LoggedOff == [auth |-> 0, res |-> ""]

(* What a call waits for, one after the other: the wallet's account, its       *)
(* signature and the server; the code and the server; or the server at once.  *)
LastStep(kind) == CASE kind = "web3" -> 3 [] kind = "google" -> 2 [] OTHER -> 1

Init ==
  /\ page = "up"
  /\ state = LoggedOff /\ next = LoggedOff /\ pending = FALSE
  /\ due = TRUE
  /\ stored = LoggedOff
  /\ calls = {}
  /\ location = None /\ sentCode = None /\ sent = 0
  /\ session = 0 /\ overtaken = FALSE
  /\ logins = 0 /\ acts = 0

Act == page = "up" /\ acts < MaxActs /\ acts' = acts + 1
Call(kind, captured) == [kind |-> kind, id |-> acts, step |-> 1, captured |-> captured]
SetState(s) == next' = s /\ pending' = TRUE
-----------------------------------------------------------------------------
Render ==
  /\ page = "up" /\ pending /\ ~due
  /\ state' = next
  /\ pending' = FALSE
  /\ due' = TRUE
  /\ UNCHANGED <<page, next, stored, calls, twitter, ghost, logins, acts>>

\* mutant: the effect is not run on a change of state
SavedLater(s) == stored
Saved(s) == s

Save ==
  /\ page = "up" /\ due
  /\ stored' = Saved(state)
  /\ due' = FALSE
  /\ UNCHANGED <<page, state, next, pending, calls, twitter, ghost, logins, acts>>

Click(kind) ==
  /\ Act
  /\ calls' = calls \cup {Call(kind, state)}
  /\ overtaken' = (overtaken \/ state.auth # next.auth)
  /\ UNCHANGED <<page, react, stored, twitter, session, logins>>

(* One step of a call is done, and it is not the last. *)
Goes(c) ==
  /\ page = "up"
  /\ c.step < LastStep(c.kind)
  /\ calls' = (calls \ {c}) \cup {[c EXCEPT !.step = @ + 1]}
  /\ UNCHANGED <<page, react, stored, twitter, ghost, logins, acts>>

Answered(c) ==
  /\ page = "up"
  /\ c.step = LastStep(c.kind)
  /\ calls' = calls \ {c}

(* A call that throws or is rejected leaves no trace. *)
Fails(c) ==
  /\ page = "up"
  /\ calls' = calls \ {c}
  /\ UNCHANGED <<page, react, stored, twitter, ghost, logins, acts>>

(* A login or a logoff tells nothing to the calls that are still in flight. *)
Becomes(auth, c) ==
  /\ session' = auth
  /\ overtaken' = (calls # {c})

\* mutant: the answer is spread over the initial state
ResOnly(s, res) == [LoggedOff EXCEPT !.res = res]
WithRes(s, res) == [s EXCEPT !.res = res]

(* The result of the API, or of a logoff that was refused or not understood. *)
ApiAnswer(c, res) ==
  /\ c.kind \in {"api", "logoff"}
  /\ Answered(c)
  /\ SetState(WithRes(c.captured, res))
  /\ UNCHANGED <<page, state, due, stored, twitter, ghost, logins, acts>>

LogoffAnswer(c) ==
  /\ c.kind = "logoff"
  /\ Answered(c)
  /\ SetState([auth |-> 0, res |-> "json"])
  /\ Becomes(0, c)
  /\ UNCHANGED <<page, state, due, stored, twitter, logins, acts>>

(* A login by Google's client also writes the object itself to localStorage,   *)
(* before the state is rendered and saved.                                      *)
LoginAnswer(c) ==
  /\ c.kind \in Logins
  /\ logins < MaxLogins
  /\ Answered(c)
  /\ logins' = logins + 1
  /\ SetState([c.captured EXCEPT !.auth = logins'])
  /\ Becomes(logins', c)
  /\ stored' = IF c.kind = "google" THEN Garbage ELSE stored
  /\ UNCHANGED <<page, state, due, twitter, acts>>

(* onGoogleServer is onFailure too: what it is given becomes the auth. *)
LoginRefused(c) ==
  /\ c.kind = "popup"
  /\ Answered(c)
  /\ SetState([c.captured EXCEPT !.auth = Failed])
  /\ Becomes(Failed, c)
  /\ UNCHANGED <<page, state, due, stored, twitter, logins, acts>>
-----------------------------------------------------------------------------
(* The page loads: what was in flight or not saved is lost. *)
Load ==
  /\ page' = IF stored = Garbage THEN "broken" ELSE "up"
  /\ state' = IF stored = Garbage THEN LoggedOff ELSE stored
  /\ next' = state'
  /\ pending' = FALSE
  /\ due' = (page' = "up")
  /\ overtaken' = (overtaken \/ next'.auth # session)
  /\ UNCHANGED <<stored, session, logins>>

Reload ==
  /\ Act
  /\ Load
  /\ calls' = {}
  /\ sentCode' = None /\ sent' = 0
  /\ UNCHANGED location

\* mutant: _code is not compared
AnyCode(last, code) == TRUE

(* _code stands between the renders of the callback and the server. *)
Fresh(last, code) == last # code

(* Twitter sends the browser to the callback; StrictMode renders it twice. *)
Arrive(code) ==
  /\ Act
  /\ Load
  /\ location' = code
  /\ sentCode' = IF page' = "up" THEN code ELSE None
  /\ calls' = IF page' = "up" THEN {Call("twitter", state')} ELSE {}
  /\ sent' = IF page' = "broken" THEN 0 ELSE IF Fresh(code, code) THEN 2 ELSE 1

(* Navigate adds to the history: Back renders the callback again. *)
Back ==
  /\ Act
  /\ location # None
  /\ sentCode' = location
  /\ IF Fresh(sentCode, location)
     THEN /\ calls' = calls \cup {Call("twitter", state)}
          /\ sent' = sent + 1
          /\ overtaken' = (overtaken \/ state.auth # next.auth)
     ELSE UNCHANGED <<calls, sent, overtaken>>
  /\ UNCHANGED <<page, react, stored, location, session, logins>>

User ==
  \/ \E kind \in Kinds : Click(kind)
  \/ \E code \in Codes : Arrive(code)
  \/ Back
  \/ Reload

Services ==
  \E c \in calls :
    \/ Goes(c) \/ Fails(c) \/ LogoffAnswer(c) \/ LoginAnswer(c) \/ LoginRefused(c)
    \/ \E res \in {"json", "text"} : ApiAnswer(c, res)

Next == User \/ Services \/ Render \/ Save

Spec == Init /\ [][Next]_vars
-----------------------------------------------------------------------------
(* Types: the auth is a login, nobody, or an error of Google's. *)
TypeOK ==
  /\ page \in {"up", "broken"}
  /\ state \in States /\ next \in States /\ stored \in States \cup {Garbage}
  /\ pending \in BOOLEAN /\ due \in BOOLEAN /\ overtaken \in BOOLEAN
  /\ calls \subseteq [kind : AllKinds, id : 0..MaxActs, step : 1..3, captured : States]
  /\ location \in Codes \cup {None} /\ sentCode \in Codes \cup {None} /\ sent \in Nat
  /\ session \in Auths /\ logins \in 0..MaxLogins /\ acts \in 0..MaxActs

(* Once the page has settled, the next load finds what the user sees            *)
(* (App.js:22-40), whichever logins have written to localStorage meanwhile.     *)
StoredIsState == (page = "up" /\ ~pending /\ ~due) => stored = state

(* The page is logged in as whoever logged in or off last, unless another call  *)
(* was in flight by then: only such a call brings an older session back, with   *)
(* the state it had captured (App.js:58-65, 86-93).                             *)
SessionKept == next.auth # session => overtaken

(* A page sends a code of Twitter's once, however often the callback is         *)
(* rendered (LoginTwitterCallback.js:10-24): the server takes a code only once. *)
CodeSentOnce == sent <= 1
=============================================================================
