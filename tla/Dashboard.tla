----------------------------- MODULE Dashboard -----------------------------
(***************************************************************************)
(* aw-dashboard: the connection that brings the reports of aircraft and    *)
(* opens itself again (App.js:21-98), the aircraft and their panel, the    *)
(* hexagons, their search and their panel.  Reports are applied to the     *)
(* list and rendered later; what the user does is rendered at once.        *)
(* Geometry, styling and the view of the map are left out; a place stands  *)
(* for longitude, latitude and altitude.                                   *)
(***************************************************************************)
EXTENDS Naturals, Sequences, FiniteSets, SequencesExt

CONSTANTS
  Icao, Places,           \* aircraft and places the server may report
  InitialAircraft,        \* a sequence, with numbers as ids
  InitialHexagons,
  Names, Radii,           \* what the user may type; None is no number
  MaxSockets,             \* bound: connections at once
  MaxReports,             \* bound: reports of the server
  MaxDrops,               \* bound: connections the network or the server closes
  MaxRemounts,            \* bound: remounts of App (StrictMode, in development)
  MaxActs,                \* bound: events of the user
  None

VARIABLES
  sent,                   \* every report of the server, in order
  sockets,                \* sockets[s]: its readyState and the report it brings next
  effectSocket,           \* the one the cleanup of the effect closes, None: it is dead
  timers,                 \* setTimeout(connectWebSocket) pending
  seen,                   \* lastUpdateRef
  aircraft, shown,        \* the list with every report applied, and as rendered
  selectedAircraftId,
  hexagons, selectedHexagon,
  draft,                  \* the copies in PropertyPanel
  newest, opened,         \* history: the last report taken, and the last one sent
                          \* when the last connection opened
  drops, remounts, acts

net == <<sent, sockets, effectSocket, timers, drops, remounts, opened>>
fleet == <<seen, aircraft, shown, newest>>
hexes == <<hexagons, selectedHexagon, draft>>
vars == <<net, fleet, selectedAircraftId, hexes, acts>>

Message == [icao : Icao, place : Places]
Planes == [id : Nat \cup Icao, icaoId : Icao, place : Places]
Hexagon == [id : Nat, name : Nat, radius : Nat]

ASSUME BoundsAssumption == MaxSockets \in Nat \ {0} /\ MaxRemounts \in Nat
ASSUME NoneAssumption == None \notin Places /\ None \notin Nat /\ None \notin Hexagon
                         /\ None \notin 1..MaxSockets
ASSUME InputAssumption == Names \subseteq Nat /\ Radii \subseteq Nat \cup {None}

(* The aircraft to begin with have numbers of their own, and so have the hexagons. *)
ASSUME AircraftAssumption ==
  /\ InitialAircraft \in Seq(Planes)
  /\ \A i \in DOMAIN InitialAircraft : InitialAircraft[i].id \notin Icao
  /\ \A i, j \in DOMAIN InitialAircraft :
       \/ InitialAircraft[i].id = InitialAircraft[j].id
       \/ InitialAircraft[i].icaoId = InitialAircraft[j].icaoId
       => i = j
ASSUME HexagonsAssumption ==
  /\ InitialHexagons \in Seq(Hexagon)
  /\ \A i \in DOMAIN InitialHexagons : InitialHexagons[i].id = i - 1

Act == acts < MaxActs /\ acts' = acts + 1
Sockets == 1..MaxSockets
Idle(state) == [state |-> state, next |-> 0]
Closed == Idle("closed")
Connecting == Idle("connecting")
Free == {s \in Sockets : sockets[s].state = "closed"}
Least(S) == CHOOSE x \in S : \A y \in S : x <= y
Area(id, radius) == [id |-> id, name |-> id, radius |-> radius]

Init ==
  /\ sent = <<>>
  /\ sockets = [s \in Sockets |-> IF s = 1 THEN Connecting ELSE Closed]
  /\ effectSocket = 1
  /\ timers = 0
  /\ seen = {}
  /\ aircraft = InitialAircraft
  /\ shown = InitialAircraft
  /\ selectedAircraftId = None
  /\ hexagons = InitialHexagons
  /\ selectedHexagon = None
  /\ draft = [name |-> None, radius |-> None]
  /\ newest = 0 /\ opened = 0
  /\ drops = 0 /\ remounts = 0 /\ acts = 0
-----------------------------------------------------------------------------
(* The server sends a report to everyone who is connected: a connection brings *)
(* what is sent after it has opened, in that order and at its own pace.        *)
OnOpen(s) ==
  /\ sockets[s].state = "connecting"
  /\ sockets' = [sockets EXCEPT ![s] = [state |-> "open", next |-> Len(sent) + 1]]
  /\ opened' = Len(sent)
  /\ UNCHANGED <<sent, effectSocket, timers, drops, remounts, fleet, selectedAircraftId,
                 hexes, acts>>

Send(a, p) ==
  /\ Len(sent) < MaxReports
  /\ sent' = Append(sent, [icao |-> a, place |-> p])
  /\ UNCHANGED <<sockets, effectSocket, timers, drops, remounts, opened, fleet,
                 selectedAircraftId, hexes, acts>>

\* the closure of the effect is left with a dead socket: to close it does nothing
EffectLoses(s) == effectSocket' = IF effectSocket = s THEN None ELSE effectSocket

\* mutant: nothing opens the connection again
OnCloseSilent(s) ==
  /\ sockets' = [sockets EXCEPT ![s] = Closed]
  /\ EffectLoses(s)
  /\ UNCHANGED timers

(* onclose: what was on the way is gone, and a second later there is a new    *)
(* connection, which no effect knows of.                                       *)
OnClose(s) ==
  /\ sockets' = [sockets EXCEPT ![s] = Closed]
  /\ EffectLoses(s)
  /\ timers' = timers + 1

Drop(s) ==
  /\ sockets[s].state \in {"connecting", "open"}
  /\ drops < MaxDrops
  /\ drops' = drops + 1
  /\ OnClose(s)
  /\ UNCHANGED <<sent, remounts, opened, fleet, selectedAircraftId, hexes, acts>>

CloseEnds(s) ==
  /\ sockets[s].state = "closing"
  /\ OnClose(s)
  /\ UNCHANGED <<sent, drops, remounts, opened, fleet, selectedAircraftId, hexes, acts>>

Reconnect ==
  /\ timers > 0
  /\ Free # {}
  /\ timers' = timers - 1
  /\ sockets' = [sockets EXCEPT ![Least(Free)] = Connecting]
  /\ UNCHANGED <<sent, effectSocket, drops, remounts, opened, fleet, selectedAircraftId,
                 hexes, acts>>

(* StrictMode runs the cleanup and the effect again.  The cleanup closes the   *)
(* socket the effect opened, and its onclose opens another one; or that socket *)
(* is dead since, and the one that replaced it stays.                          *)
Remount ==
  /\ remounts < MaxRemounts
  /\ Free # {}
  /\ remounts' = remounts + 1
  /\ effectSocket' = Least(Free)
  /\ sockets' = [s \in Sockets |->
                   IF s = effectSocket' THEN Connecting
                   ELSE IF s = effectSocket /\ sockets[s].state \in {"connecting", "open"}
                        THEN Idle("closing")
                        ELSE sockets[s]]
  /\ UNCHANGED <<sent, timers, drops, opened, fleet, selectedAircraftId, hexes, acts>>
-----------------------------------------------------------------------------
(* The aircraft a report makes: the ICAO id is its id from then on. *)
Plane(m) == [id |-> m.icao, icaoId |-> m.icao, place |-> m.place]

\* mutant: the aircraft is looked for by id
FoundById(list, icao) == {i \in DOMAIN list : list[i].id = icao}

Found(list, icao) == {i \in DOMAIN list : list[i].icaoId = icao}

(* The functional update: the first with the ICAO id is overwritten, or added. *)
Merge(list, m) ==
  LET found == Found(list, m.icao)
  IN IF found = {} THEN Append(list, Plane(m))
     ELSE [list EXCEPT ![Least(found)] = Plane(m)]

\* mutant: lastUpdateRef is not asked
AnyMessage(m) == TRUE

(* A place an aircraft was reported at is never taken twice: keys stay for ever. *)
News(m) == m \notin seen

OnMessage(s) ==
  LET n == sockets[s].next
      m == sent[n]
  IN /\ sockets[s].state = "open"
     /\ n <= Len(sent)
     /\ sockets' = [sockets EXCEPT ![s].next = n + 1]
     /\ seen' = seen \cup {m}
     /\ aircraft' = IF News(m) THEN Merge(aircraft, m) ELSE aircraft
     /\ newest' = IF News(m) /\ newest < n THEN n ELSE newest
     /\ UNCHANGED <<sent, effectSocket, timers, drops, remounts, opened, shown,
                    selectedAircraftId, hexes, acts>>

Render ==
  /\ shown # aircraft
  /\ shown' = aircraft
  /\ UNCHANGED <<net, seen, aircraft, newest, selectedAircraftId, hexes, acts>>

(* The panel writes the whole aircraft of the last render back, with one field  *)
(* changed: the latitude, or another than the place, which stays as rendered.   *)
HandleAircraftUpdate(updated) ==
  [i \in DOMAIN aircraft |-> IF aircraft[i].id = updated.id THEN updated ELSE aircraft[i]]

EditAircraft(i, p) ==
  /\ Act
  /\ shown[i].id = selectedAircraftId
  /\ \A j \in DOMAIN shown : shown[j].id = selectedAircraftId => i <= j
  /\ aircraft' = HandleAircraftUpdate([shown[i] EXCEPT !.place = p])
  /\ shown' = aircraft'
  /\ UNCHANGED <<net, seen, newest, selectedAircraftId, hexes>>

-----------------------------------------------------------------------------
(* toFixed(4), in units of the fifth decimal. *)
Rounded(r) == ((r + 5) \div 10) * 10

(* The effect of PropertyPanel on hexagon: the copies follow the selection. *)
Copied(h) == IF h = None THEN draft ELSE [name |-> h.name, radius |-> Rounded(h.radius)]

HandleHexagonSelect(h) ==
  /\ selectedHexagon' = h
  /\ draft' = Copied(h)

ClickHexagon(h) ==
  /\ Act
  /\ HandleHexagonSelect(h)
  /\ selectedAircraftId' = None
  /\ UNCHANGED <<net, fleet, hexagons>>

ClickAircraft(i) ==
  /\ Act
  /\ selectedAircraftId' = shown[i].id
  /\ HandleHexagonSelect(None)
  /\ UNCHANGED <<net, fleet, hexagons>>

ClickMap ==
  /\ Act
  /\ HandleHexagonSelect(None)
  /\ selectedAircraftId' = None
  /\ UNCHANGED <<net, fleet, hexagons>>

\* mutant: off by one
NextIdBefore == Len(hexagons) - 1

NextId == Len(hexagons)

OnDblClick(radius) ==
  /\ Act
  /\ hexagons' = Append(hexagons, Area(NextId, radius))
  /\ HandleHexagonSelect(Area(NextId, radius))
  /\ UNCHANGED <<net, fleet, selectedAircraftId>>

HandleSearch(name) ==
  LET found == {i \in DOMAIN hexagons : hexagons[i].name = name}
  IN /\ Act
     /\ found # {}
     /\ HandleHexagonSelect(hexagons[Least(found)])
     /\ UNCHANGED <<net, fleet, selectedAircraftId, hexagons>>

EditHexagon(name, radius) ==
  /\ Act
  /\ selectedHexagon # None
  /\ draft' = [name |-> name, radius |-> radius]
  /\ UNCHANGED <<net, fleet, selectedAircraftId, hexagons, selectedHexagon>>

ValidRadius(radius) == radius # None

(* Submit: only a positive number is taken. *)
HandleSubmit ==
  LET updated == [selectedHexagon EXCEPT !.name = draft.name, !.radius = draft.radius]
  IN /\ Act
     /\ selectedHexagon # None
     /\ ValidRadius(draft.radius)
     /\ hexagons' = [i \in DOMAIN hexagons |-> IF hexagons[i].id = updated.id THEN updated
                                               ELSE hexagons[i]]
     /\ HandleHexagonSelect(updated)
     /\ UNCHANGED <<net, fleet, selectedAircraftId>>

Network ==
  \/ \E s \in Sockets : OnOpen(s) \/ Drop(s) \/ CloseEnds(s) \/ OnMessage(s)
  \/ \E a \in Icao, p \in Places : Send(a, p)
  \/ Reconnect
  \/ Remount

User ==
  \/ \E i \in DOMAIN shown : ClickAircraft(i)
  \/ \E i \in DOMAIN shown, p \in Places : EditAircraft(i, p)
  \/ \E i \in DOMAIN hexagons : ClickHexagon(hexagons[i])
  \/ ClickMap
  \/ \E r \in Radii \ {None} : OnDblClick(r)
  \/ \E n \in Names : HandleSearch(n)
  \/ \E n \in Names, r \in Radii : EditHexagon(n, r)
  \/ HandleSubmit

Next == Network \/ Render \/ User

Spec == Init /\ [][Next]_vars
-----------------------------------------------------------------------------
(* Types of the connections, the aircraft and the hexagons. *)
TypeOK ==
  /\ sent \in Seq(Message)
  /\ sockets \in [Sockets -> [state : {"connecting", "open", "closing", "closed"},
                              next : Nat]]
  /\ effectSocket \in Sockets \cup {None} /\ timers \in Nat
  /\ seen \subseteq Message
  /\ aircraft \in Seq(Planes) /\ shown \in Seq(Planes)
  /\ selectedAircraftId \in Nat \cup Icao \cup {None}
  /\ hexagons \in Seq(Hexagon) /\ selectedHexagon \in Hexagon \cup {None}

Live == {s \in Sockets : sockets[s].state # "closed"}

(* There is one connection, or one on its way to be opened again; each remount *)
(* of the development build leaves one more for good: the socket its cleanup   *)
(* closes opens itself again, or, when that one had been dropped before, the   *)
(* one that replaced it is out of the cleanup's reach (App.js:46,91-97).       *)
OneConnection == Cardinality(Live) + timers = 1 + remounts

(* An aircraft is on the map once, whichever of its ids it came with: as one of *)
(* the first three it has a number until its first report.                      *)
UniqueIcao ==
  \A i, j \in DOMAIN aircraft : aircraft[i].icaoId = aircraft[j].icaoId => i = j

(* What the panel of a hexagon shows, and writes back when it is submitted, is  *)
(* the hexagon on the map: two hexagons never share an id.                      *)
PanelIsHexagon ==
  selectedHexagon # None =>
    \A i \in DOMAIN hexagons :
      hexagons[i].id = selectedHexagon.id => hexagons[i] = selectedHexagon

(* The aircraft on the map are the Fleet: each report counts once, however many  *)
(* connections bring it, and reports count in the order they were sent.  A late  *)
(* one moves an aircraft back only after a remount, and only when it was sent    *)
(* before the last connection opened (App.js:21-98).                             *)
PlaceOf(a) ==
  LET found == Found(aircraft, a)
  IN IF found = {} THEN None ELSE aircraft[Least(found)].place

F == INSTANCE Fleet WITH
       Start <- [a \in Icao |->
                   IF \E i \in DOMAIN InitialAircraft : InitialAircraft[i].icaoId = a
                   THEN (CHOOSE x \in Range(InitialAircraft) : x.icaoId = a).place
                   ELSE None],
       place <- [a \in Icao |-> PlaceOf(a)],
       news <- seen,
       last <- newest,
       doubled <- remounts > 0,
       touches <- acts

ImplementsFleet == F!Spec
=============================================================================
