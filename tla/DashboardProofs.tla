-------------------------- MODULE DashboardProofs --------------------------
(***************************************************************************)
(* What holds of aw-dashboard for any aircraft, places and hexagons, and   *)
(* any number of connections, reports, drops, remounts and events.         *)
(***************************************************************************)
EXTENDS Dashboard, FiniteSetTheorems, SequenceTheorems, WellFoundedInduction, TLAPS

LEMMA LeastIsMember ==
  ASSUME NEW S \in SUBSET Nat, S # {}
  PROVE  Least(S) \in S /\ \A y \in S : Least(S) <= y
<1>1. PICK x \in S : \A y \in S : ~ (<<y, x>> \in OpToRel(<, Nat))
  BY NatLessThanWellFounded, WFMin
<1>2. \A y \in S : x <= y
  <2>. SUFFICES ASSUME NEW y \in S, ~ (x <= y) PROVE FALSE
    OBVIOUS
  <2>1. y < x /\ <<y, x>> \in Nat \X Nat OBVIOUS
  <2>2. <<y, x>> \in OpToRel(<, Nat) BY <2>1 DEF OpToRel
  <2>. QED BY <1>1, <2>2
<1>. QED BY <1>2 DEF Least
-----------------------------------------------------------------------------
States == {"connecting", "open", "closing", "closed"}
Socket == [state : States, next : Nat]

NetOK ==
  /\ sent \in Seq(Message)
  /\ sockets \in [Sockets -> Socket]
  /\ timers \in Nat /\ remounts \in Nat
  /\ effectSocket \in Sockets \cup {None}

LEMMA SocketType ==
  /\ Closed \in Socket /\ Connecting \in Socket
  /\ Idle("closing") \in Socket
  /\ Closed.state = "closed" /\ Connecting.state = "connecting"
  /\ Idle("closing").state = "closing"
BY DEF Closed, Connecting, Idle, Socket, States

LEMMA FreeSocket ==
  ASSUME Free # {}
  PROVE  Least(Free) \in Sockets /\ sockets[Least(Free)].state = "closed"
<1>1. Sockets \subseteq Nat BY BoundsAssumption DEF Sockets
<1>2. Free \in SUBSET Nat BY <1>1 DEF Free
<1>3. Least(Free) \in Free BY <1>2, LeastIsMember
<1>. QED BY <1>3 DEF Free

LEMMA LiveIsFinite == IsFiniteSet(Live) /\ Cardinality(Live) \in Nat
<1>1. IsFiniteSet(Sockets) BY BoundsAssumption, FS_Interval DEF Sockets
<1>2. Live \in SUBSET Sockets BY DEF Live
<1>3. IsFiniteSet(Live) BY <1>1, <1>2, FS_Subset
<1>. QED BY <1>3, FS_CardinalityType

LEMMA InitNet == Init => NetOK /\ OneConnection
<1>. SUFFICES ASSUME Init PROVE NetOK /\ OneConnection
  OBVIOUS
<1>1. 1 \in Sockets BY BoundsAssumption DEF Sockets
<1>2. sockets = [s \in Sockets |-> IF s = 1 THEN Connecting ELSE Closed] BY DEF Init
<1>3. sockets \in [Sockets -> Socket] BY <1>2, SocketType
<1>4. timers = 0 /\ remounts = 0 /\ effectSocket = 1 /\ sent = <<>> BY DEF Init
<1>5. Live = {1} BY <1>1, <1>2, SocketType DEF Live
<1>6. Cardinality(Live) = 1 BY <1>5, FS_Singleton
<1>. QED BY <1>1, <1>3, <1>4, <1>6 DEF NetOK, OneConnection

LEMMA SentIs ==
  ASSUME NetOK, NEW n \in Nat, n <= Len(sent), n # 0
  PROVE  n \in DOMAIN sent /\ sent[n] \in Message
<1>1. sent \in Seq(Message) BY DEF NetOK
<1>. QED BY <1>1, LenProperties, ElementOfSeq

(* A closed socket takes its number out of the live ones and starts a timer. *)
LEMMA ClosedNet ==
  ASSUME NetOK, OneConnection, NEW s \in Sockets, sockets[s].state # "closed",
         OnClose(s), UNCHANGED <<sent, remounts>>
  PROVE  NetOK' /\ OneConnection'
<1>1. sockets' = [sockets EXCEPT ![s] = Closed] /\ timers' = timers + 1
      /\ effectSocket' \in {effectSocket, None}
  BY DEF OnClose, EffectLoses
<1>2. NetOK' BY <1>1, SocketType DEF NetOK
<1>3. Live' = Live \ {s} BY <1>1, SocketType DEF NetOK, Live
<1>4. s \in Live BY DEF Live
<1>5. Cardinality(Live') = Cardinality(Live) - 1
  BY <1>3, <1>4, LiveIsFinite, FS_RemoveElement
<1>. QED BY <1>1, <1>2, <1>5, LiveIsFinite DEF NetOK, OneConnection

LEMMA SameNet ==
  ASSUME NetOK, OneConnection, UNCHANGED net
  PROVE  NetOK' /\ OneConnection'
BY DEF net, NetOK, OneConnection, Live

(* Messages come and go, a connection opens: the live sockets stay. *)
LEMMA SameLive ==
  ASSUME OneConnection, UNCHANGED <<timers, remounts>>,
         \A s \in Sockets : sockets'[s].state # "closed" <=> sockets[s].state # "closed"
  PROVE  OneConnection'
<1>1. Live' = Live BY DEF Live
<1>. QED BY <1>1 DEF OneConnection

LEMMA StepNet == NetOK /\ OneConnection /\ [Next]_vars => NetOK' /\ OneConnection'
<1>. SUFFICES ASSUME NetOK, OneConnection, [Next]_vars PROVE NetOK' /\ OneConnection'
  OBVIOUS
<1>1. ASSUME NEW s \in Sockets, OnOpen(s) PROVE NetOK' /\ OneConnection'
  <2>. DEFINE c == [state |-> "open", next |-> Len(sent) + 1]
  <2>1. sockets' = [sockets EXCEPT ![s] = c] /\ sockets[s].state = "connecting"
        /\ UNCHANGED <<sent, effectSocket, timers, remounts>>
    BY <1>1 DEF OnOpen
  <2>2. c \in Socket /\ c.state = "open" BY LenProperties DEF NetOK, Socket, States
  <2>. HIDE DEF c
  <2>3. NetOK' BY <2>1, <2>2 DEF NetOK
  <2>4. \A t \in Sockets : sockets'[t].state # "closed" <=> sockets[t].state # "closed"
    BY <2>1, <2>2 DEF NetOK
  <2>. QED BY <2>1, <2>3, <2>4, SameLive
<1>2. ASSUME NEW s \in Sockets, Drop(s) PROVE NetOK' /\ OneConnection'
  BY <1>2, ClosedNet DEF Drop
<1>3. ASSUME NEW s \in Sockets, CloseEnds(s) PROVE NetOK' /\ OneConnection'
  BY <1>3, ClosedNet DEF CloseEnds
<1>4. ASSUME NEW s \in Sockets, OnMessage(s) PROVE NetOK' /\ OneConnection'
  <2>1. sockets' = [sockets EXCEPT ![s].next = sockets[s].next + 1]
        /\ UNCHANGED <<sent, effectSocket, timers, remounts>>
    BY <1>4 DEF OnMessage
  <2>2. [sockets[s] EXCEPT !.next = sockets[s].next + 1] \in Socket
    BY DEF NetOK, Socket
  <2>3. NetOK' BY <2>1, <2>2 DEF NetOK
  <2>4. \A t \in Sockets : sockets'[t].state # "closed" <=> sockets[t].state # "closed"
    BY <2>1 DEF NetOK, Socket
  <2>. QED BY <2>1, <2>3, <2>4, SameLive
<1>5. ASSUME NEW a \in Icao, NEW p \in Places, Send(a, p) PROVE NetOK' /\ OneConnection'
  <2>1. /\ sent' = Append(sent, [icao |-> a, place |-> p])
        /\ UNCHANGED <<sockets, effectSocket, timers, remounts>>
    BY <1>5 DEF Send
  <2>2. sent' \in Seq(Message) BY <2>1, AppendProperties DEF NetOK, Message
  <2>3. NetOK' BY <2>1, <2>2 DEF NetOK
  <2>. QED BY <2>1, <2>3, SameLive
<1>6. CASE Reconnect
  <2>. DEFINE s == Least(Free)
  <2>1. /\ timers > 0 /\ timers' = timers - 1
        /\ sockets' = [sockets EXCEPT ![s] = Connecting]
        /\ UNCHANGED <<sent, effectSocket, remounts>>
    BY <1>6 DEF Reconnect
  <2>2. s \in Sockets /\ sockets[s].state = "closed" BY <1>6, FreeSocket DEF Reconnect
  <2>. HIDE DEF s
  <2>a. timers' \in Nat BY <2>1 DEF NetOK
  <2>3. NetOK' BY <2>1, <2>a, SocketType DEF NetOK
  <2>4. Live' = Live \cup {s} /\ s \notin Live BY <2>1, <2>2, SocketType DEF NetOK, Live
  <2>5. Cardinality(Live') = Cardinality(Live) + 1 BY <2>4, LiveIsFinite, FS_AddElement
  <2>. QED BY <2>1, <2>3, <2>5, LiveIsFinite DEF NetOK, OneConnection
<1>7. CASE Remount
  <2>. DEFINE new == Least(Free)
              old == Idle("closing")
  <2>1. /\ effectSocket' = new /\ remounts' = remounts + 1 /\ timers' = timers
        /\ sent' = sent
        /\ sockets' = [s \in Sockets |->
                         IF s = new THEN Connecting
                         ELSE IF s = effectSocket /\ sockets[s].state \in {"connecting", "open"}
                              THEN old ELSE sockets[s]]
    BY <1>7 DEF Remount
  <2>2. new \in Sockets /\ sockets[new].state = "closed" BY <1>7, FreeSocket DEF Remount
  <2>. HIDE DEF new
  <2>3. NetOK' BY <2>1, <2>2, SocketType DEF NetOK
  <2>4. \A s \in Sockets \ {new} : sockets'[s].state # "closed" <=> sockets[s].state # "closed"
    BY <2>1, SocketType
  <2>5. sockets'[new].state # "closed" BY <2>1, <2>2, SocketType
  <2>6. Live' = Live \cup {new} /\ new \notin Live BY <2>2, <2>4, <2>5 DEF Live
  <2>7. Cardinality(Live') = Cardinality(Live) + 1 BY <2>6, LiveIsFinite, FS_AddElement
  <2>. QED BY <2>1, <2>3, <2>7, LiveIsFinite DEF NetOK, OneConnection
<1>8. CASE Render \/ User \/ UNCHANGED vars
  <2>1. UNCHANGED net
    BY <1>8 DEF Render, User, ClickAircraft, EditAircraft, ClickHexagon, ClickMap, OnDblClick,
                HandleSearch, EditHexagon, HandleSubmit, vars
  <2>. QED BY <2>1, SameNet
<1>. QED BY <1>1, <1>2, <1>3, <1>4, <1>5, <1>6, <1>7, <1>8 DEF Next, Network

(* One connection is there or on its way, one more after each remount, for any    *)
(* number of drops and reconnects (App.js:21-98).                                  *)
THEOREM OneIsThere == Spec => []OneConnection
<1>1. Spec => [](NetOK /\ OneConnection) BY InitNet, StepNet, PTL DEF Spec
<1>. QED BY <1>1, PTL
-----------------------------------------------------------------------------
(* Why the panel is the hexagon: an id is a position, and the selected hexagon   *)
(* is one of the list; the draft is there when a hexagon is.                     *)
Draft == [name : Nat, radius : Nat \cup {None}]
HexInv ==
  /\ hexagons \in Seq(Hexagon)
  /\ \A i \in DOMAIN hexagons : hexagons[i].id = i - 1
  /\ selectedHexagon # None =>
       (\E i \in DOMAIN hexagons : hexagons[i] = selectedHexagon) /\ draft \in Draft

LEMMA CopiedType == ASSUME NEW h \in Hexagon PROVE Copied(h) \in Draft
<1>1. h # None BY NoneAssumption
<1>2. h.name \in Nat /\ h.radius \in Nat BY DEF Hexagon
<1>3. Rounded(h.radius) \in Nat BY <1>2 DEF Rounded
<1>. QED BY <1>1, <1>2, <1>3 DEF Copied, Draft

LEMMA HexPositions ==
  ASSUME HexInv, NEW i \in DOMAIN hexagons
  PROVE  hexagons[i] \in Hexagon /\ i \in 1..Len(hexagons) /\ hexagons[i] # None
<1>1. hexagons[i] \in Hexagon BY ElementOfSeq DEF HexInv
<1>. QED BY <1>1, LenProperties, NoneAssumption DEF HexInv

LEMMA Selects ==
  ASSUME HexInv, NEW i \in DOMAIN hexagons, HandleHexagonSelect(hexagons[i]),
         UNCHANGED hexagons
  PROVE  HexInv'
BY HexPositions, CopiedType DEF HandleHexagonSelect, HexInv

LEMMA Deselects ==
  ASSUME HexInv, HandleHexagonSelect(None), UNCHANGED hexagons
  PROVE  HexInv'
BY DEF HandleHexagonSelect, HexInv

LEMMA StepHex == HexInv /\ [Next]_vars => HexInv'
<1>. SUFFICES ASSUME HexInv, [Next]_vars PROVE HexInv'
  OBVIOUS
<1>1. CASE Network \/ Render \/ UNCHANGED vars
  <2>1. UNCHANGED hexes
    BY <1>1 DEF Network, Render, vars, OnOpen, Drop, CloseEnds, OnMessage, Send, Reconnect,
                Remount
  <2>. QED BY <2>1 DEF hexes, HexInv
<1>2. ASSUME NEW i \in DOMAIN shown, ClickAircraft(i) PROVE HexInv'
  BY <1>2, Deselects DEF ClickAircraft
<1>3. ASSUME NEW i \in DOMAIN shown, NEW p \in Places, EditAircraft(i, p) PROVE HexInv'
  BY <1>3 DEF EditAircraft, hexes, HexInv
<1>4. ASSUME NEW i \in DOMAIN hexagons, ClickHexagon(hexagons[i]) PROVE HexInv'
  BY <1>4, Selects DEF ClickHexagon
<1>5. CASE ClickMap BY <1>5, Deselects DEF ClickMap
<1>6. ASSUME NEW r \in Radii \ {None}, OnDblClick(r) PROVE HexInv'
  <2>. DEFINE h == Area(NextId, r)
  <2>1. /\ hexagons' = Append(hexagons, h) /\ selectedHexagon' = h /\ draft' = Copied(h)
    BY <1>6 DEF OnDblClick, HandleHexagonSelect
  <2>2. hexagons \in Seq(Hexagon) /\ Len(hexagons) \in Nat BY LenProperties DEF HexInv
  <2>3. r \in Nat BY InputAssumption
  <2>4. h \in Hexagon /\ h.id = Len(hexagons) BY <2>2, <2>3 DEF Area, NextId, Hexagon
  <2>. HIDE DEF h
  <2>5. /\ hexagons' \in Seq(Hexagon)
        /\ DOMAIN hexagons' = 1..(Len(hexagons) + 1)
        /\ \A i \in 1..Len(hexagons) : hexagons'[i] = hexagons[i]
        /\ hexagons'[Len(hexagons) + 1] = h
    BY <2>1, <2>2, <2>4, AppendProperties, LenProperties
  <2>6. \A i \in DOMAIN hexagons' : hexagons'[i].id = i - 1
    BY <2>2, <2>4, <2>5, LenProperties DEF HexInv
  <2>7. draft' \in Draft BY <2>1, <2>4, CopiedType
  <2>8. \E i \in DOMAIN hexagons' : hexagons'[i] = selectedHexagon' BY <2>1, <2>2, <2>5
  <2>. QED BY <2>5, <2>6, <2>7, <2>8 DEF HexInv
<1>7. ASSUME NEW n \in Names, HandleSearch(n) PROVE HexInv'
  <2>. DEFINE found == {i \in DOMAIN hexagons : hexagons[i].name = n}
  <2>1. found # {} /\ HandleHexagonSelect(hexagons[Least(found)]) /\ UNCHANGED hexagons
    BY <1>7 DEF HandleSearch
  <2>2. found \in SUBSET Nat BY LenProperties DEF HexInv
  <2>3. Least(found) \in DOMAIN hexagons BY <2>1, <2>2, LeastIsMember
  <2>. QED BY <2>1, <2>3, Selects
<1>8. ASSUME NEW n \in Names, NEW r \in Radii, EditHexagon(n, r) PROVE HexInv'
  <2>1. [name |-> n, radius |-> r] \in Draft BY InputAssumption DEF Draft
  <2>. QED BY <1>8, <2>1 DEF EditHexagon, HexInv
<1>9. CASE HandleSubmit
  <2>. DEFINE updated == [selectedHexagon EXCEPT !.name = draft.name, !.radius = draft.radius]
  <2>1. /\ selectedHexagon # None /\ draft.radius # None
        /\ hexagons' = [i \in DOMAIN hexagons |-> IF hexagons[i].id = updated.id THEN updated
                                                  ELSE hexagons[i]]
        /\ selectedHexagon' = updated /\ draft' = Copied(updated)
    BY <1>9 DEF HandleSubmit, ValidRadius, HandleHexagonSelect
  <2>2. PICK k \in DOMAIN hexagons : hexagons[k] = selectedHexagon BY <2>1 DEF HexInv
  <2>3. selectedHexagon \in Hexagon BY <2>2, HexPositions
  <2>4. draft.name \in Nat /\ draft.radius \in Nat BY <2>1 DEF HexInv, Draft
  <2>5. updated \in Hexagon /\ updated.id = hexagons[k].id BY <2>2, <2>3, <2>4 DEF Hexagon
  <2>. HIDE DEF updated
  <2>6. DOMAIN hexagons = 1..Len(hexagons) /\ Len(hexagons) \in Nat
    BY LenProperties DEF HexInv
  <2>7. \A i \in DOMAIN hexagons : hexagons'[i] \in Hexagon
    BY <2>1, <2>5, HexPositions
  <2>8. hexagons' \in Seq(Hexagon) /\ DOMAIN hexagons' = DOMAIN hexagons
    BY <2>1, <2>6, <2>7, IsASeq
  <2>9. \A i \in DOMAIN hexagons' : hexagons'[i].id = i - 1 BY <2>1, <2>8 DEF HexInv
  <2>10. hexagons'[k] = selectedHexagon' BY <2>1, <2>5, <2>8
  <2>11. draft' \in Draft BY <2>1, <2>5, CopiedType
  <2>. QED BY <2>8, <2>9, <2>10, <2>11 DEF HexInv
<1>. QED BY <1>1, <1>2, <1>3, <1>4, <1>5, <1>6, <1>7, <1>8, <1>9 DEF Next, User

(* The panel of a hexagon shows, and submits, the hexagon on the map, for any     *)
(* number of hexagons drawn, found and edited (Map.js:85-125, App.js:117-142).     *)
THEOREM PanelIsRight == Spec => []PanelIsHexagon
<1>1. Init => HexInv BY HexagonsAssumption DEF Init, HexInv
<1>2. HexInv => PanelIsHexagon
  <2>. SUFFICES ASSUME HexInv, selectedHexagon # None,
                       NEW i \in DOMAIN hexagons, hexagons[i].id = selectedHexagon.id
                PROVE  hexagons[i] = selectedHexagon
    BY DEF PanelIsHexagon
  <2>1. PICK k \in DOMAIN hexagons : hexagons[k] = selectedHexagon BY DEF HexInv
  <2>2. i - 1 = k - 1 BY <2>1 DEF HexInv
  <2>3. i \in Nat /\ k \in Nat BY HexPositions, LenProperties DEF HexInv
  <2>. QED BY <2>1, <2>2, <2>3
<1>. QED BY <1>1, <1>2, StepHex, PTL DEF Spec
-----------------------------------------------------------------------------
(* Lists of aircraft: each ICAO id is there once, so that an aircraft has a place. *)
Unique(list) ==
  \A i, j \in DOMAIN list : list[i].icaoId = list[j].icaoId => i = j
PlaceIn(list, a) ==
  LET found == Found(list, a)
  IN IF found = {} THEN None ELSE list[Least(found)].place

LEMMA PositionOf ==
  ASSUME NEW list \in Seq(Planes), Unique(list), NEW i \in DOMAIN list
  PROVE  Found(list, list[i].icaoId) = {i} /\ Least({i}) = i
<1>1. {i} \in SUBSET Nat BY LenProperties
<1>2. Least({i}) = i BY <1>1, LeastIsMember
<1>. QED BY <1>2 DEF Found, Unique

LEMMA PlaceAt ==
  ASSUME NEW list \in Seq(Planes), Unique(list), NEW a
  PROVE  /\ \A i \in DOMAIN list : list[i].icaoId = a => PlaceIn(list, a) = list[i].place
         /\ (\A i \in DOMAIN list : list[i].icaoId # a) => PlaceIn(list, a) = None
<1>1. ASSUME NEW i \in DOMAIN list, list[i].icaoId = a PROVE PlaceIn(list, a) = list[i].place
  <2>1. Found(list, a) = {i} /\ Least({i}) = i BY <1>1, PositionOf
  <2>2. {i} # {} OBVIOUS
  <2>. QED BY <2>1, <2>2 DEF PlaceIn
<1>2. ASSUME \A i \in DOMAIN list : list[i].icaoId # a PROVE PlaceIn(list, a) = None
  <2>1. Found(list, a) = {} BY <1>2 DEF Found
  <2>. QED BY <2>1 DEF PlaceIn
<1>. QED BY <1>1, <1>2

LEMMA PlaneType ==
  ASSUME NEW m \in Message
  PROVE  /\ Plane(m) \in Planes
         /\ Plane(m).id = m.icao /\ Plane(m).icaoId = m.icao /\ Plane(m).place = m.place
         /\ m.icao \in Icao /\ m.place \in Places
BY DEF Plane, Planes, Message

(* A report that is merged is on the list, in place of the aircraft it is of. *)
LEMMA Merged ==
  ASSUME NEW list \in Seq(Planes), Unique(list), NEW m \in Message, NEW l,
         l = Merge(list, m)
  PROVE  /\ l \in Seq(Planes) /\ Unique(l)
         /\ \E n \in DOMAIN l : l[n] = Plane(m)
         /\ \A i \in DOMAIN list : list[i].icaoId # m.icao => i \in DOMAIN l /\ l[i] = list[i]
         /\ \A i \in DOMAIN l : l[i] = Plane(m) \/ (i \in DOMAIN list /\ l[i] = list[i])
<1>1. /\ DOMAIN list = 1..Len(list) /\ Len(list) \in Nat
      /\ \A i \in DOMAIN list : list[i] \in Planes
  BY LenProperties, ElementOfSeq
<1>2. CASE Found(list, m.icao) = {}
  <2>1. l = Append(list, Plane(m)) BY <1>2 DEF Merge
  <2>2. /\ l \in Seq(Planes) /\ DOMAIN l = 1..(Len(list) + 1)
        /\ \A i \in 1..Len(list) : l[i] = list[i]
        /\ l[Len(list) + 1] = Plane(m)
    BY <2>1, PlaneType, AppendProperties, LenProperties
  <2>3. \A i \in DOMAIN list : list[i].icaoId # m.icao BY <1>2 DEF Found
  <2>4. Unique(l) BY <1>1, <2>2, <2>3, PlaneType DEF Unique
  <2>. QED BY <1>1, <2>2, <2>4
<1>3. CASE Found(list, m.icao) # {}
  <2>1. PICK k \in DOMAIN list : list[k].icaoId = m.icao BY <1>3 DEF Found
  <2>2. Found(list, m.icao) = {k} /\ Least({k}) = k BY <2>1, PositionOf
  <2>3. l = [list EXCEPT ![k] = Plane(m)] BY <1>3, <2>2 DEF Merge
  <2>4. l \in Seq(Planes) BY <1>1, <2>3, PlaneType, ExceptSeq
  <2>5. DOMAIN l = DOMAIN list /\ l[k] = Plane(m) /\ \A i \in DOMAIN list \ {k} : l[i] = list[i]
    BY <2>3
  <2>6. \A i \in DOMAIN l : l[i].icaoId = list[i].icaoId BY <2>1, <2>5, PlaneType
  <2>7. Unique(l) BY <2>5, <2>6 DEF Unique
  <2>. QED BY <2>1, <2>4, <2>5, <2>7
<1>. QED BY <1>2, <1>3

LEMMA MergedPlaces ==
  ASSUME NEW list \in Seq(Planes), Unique(list), NEW m \in Message, NEW l,
         l = Merge(list, m), NEW a
  PROVE  PlaceIn(l, a) = IF a = m.icao THEN m.place ELSE PlaceIn(list, a)
<1>1. l \in Seq(Planes) /\ Unique(l) BY Merged
<1>2. CASE a = m.icao
  <2>1. PICK n \in DOMAIN l : l[n] = Plane(m) BY Merged
  <2>. QED BY <1>1, <1>2, <2>1, PlaceAt, PlaneType
<1>3. CASE a # m.icao
  <2>1. ASSUME NEW i \in DOMAIN list, list[i].icaoId = a
        PROVE PlaceIn(l, a) = PlaceIn(list, a)
    <3>1. i \in DOMAIN l /\ l[i] = list[i] BY <1>3, <2>1, Merged
    <3>. QED BY <1>1, <2>1, <3>1, PlaceAt
  <2>2. ASSUME \A i \in DOMAIN list : list[i].icaoId # a
        PROVE PlaceIn(l, a) = PlaceIn(list, a)
    <3>1. \A i \in DOMAIN l : l[i].icaoId # a BY <1>3, <2>2, Merged, PlaneType
    <3>. QED BY <1>1, <2>2, <3>1, PlaceAt
  <2>. QED BY <1>3, <2>1, <2>2
<1>. QED BY <1>2, <1>3

(* What the panel writes back goes to the aircraft with its id; an id is always    *)
(* of one ICAO id.                                                                 *)
Written(list, u) == [i \in DOMAIN list |-> IF list[i].id = u.id THEN u ELSE list[i]]

LEMMA WrittenBack ==
  ASSUME NEW list \in Seq(Planes), Unique(list), NEW u \in Planes,
         \A i \in DOMAIN list : list[i].id = u.id => list[i].icaoId = u.icaoId
  PROVE  /\ Written(list, u) \in Seq(Planes) /\ Unique(Written(list, u))
         /\ \/ \A a : PlaceIn(Written(list, u), a) = PlaceIn(list, a)
            \/ /\ PlaceIn(list, u.icaoId) \in Places
               /\ \A a : PlaceIn(Written(list, u), a) =
                           IF a = u.icaoId THEN u.place ELSE PlaceIn(list, a)
<1>. DEFINE l == Written(list, u)
<1>1. /\ DOMAIN list = 1..Len(list) /\ Len(list) \in Nat
      /\ \A i \in DOMAIN list : list[i] \in Planes
  BY LenProperties, ElementOfSeq
<1>2. /\ DOMAIN l = DOMAIN list
      /\ \A i \in DOMAIN list : l[i] = IF list[i].id = u.id THEN u ELSE list[i]
  BY DEF Written
<1>3. \A i \in DOMAIN l : l[i] \in Planes /\ l[i].icaoId = list[i].icaoId BY <1>1, <1>2
<1>4. l \in Seq(Planes) BY <1>1, <1>3, IsASeq DEF Written
<1>. HIDE DEF l
<1>5. Unique(l) BY <1>2, <1>3 DEF Unique
<1>6. ASSUME NEW a, \A i \in DOMAIN list : list[i].icaoId = a => l[i] = list[i]
      PROVE  PlaceIn(l, a) = PlaceIn(list, a)
  <2>1. CASE \A i \in DOMAIN list : list[i].icaoId # a
    BY <1>2, <1>3, <1>4, <1>5, <2>1, PlaceAt
  <2>2. ASSUME NEW i \in DOMAIN list, list[i].icaoId = a PROVE PlaceIn(l, a) = PlaceIn(list, a)
    BY <1>2, <1>4, <1>5, <1>6, <2>2, PlaceAt
  <2>. QED BY <2>1, <2>2
<1>7. CASE \A i \in DOMAIN list : list[i].id # u.id
  <2>1. \A i \in DOMAIN list : l[i] = list[i] BY <1>2, <1>7
  <2>. QED BY <1>4, <1>5, <1>6, <2>1 DEF l
<1>8. ASSUME NEW k \in DOMAIN list, list[k].id = u.id
      PROVE  /\ PlaceIn(list, u.icaoId) \in Places
             /\ \A a : PlaceIn(l, a) = IF a = u.icaoId THEN u.place ELSE PlaceIn(list, a)
  <2>1. list[k].icaoId = u.icaoId /\ l[k] = u BY <1>2, <1>8
  <2>2. PlaceIn(list, u.icaoId) = list[k].place BY <2>1, PlaceAt
  <2>3. PlaceIn(l, u.icaoId) = u.place BY <1>2, <1>4, <1>5, <2>1, PlaceAt
  <2>4. ASSUME NEW a, a # u.icaoId PROVE PlaceIn(l, a) = PlaceIn(list, a)
    BY <1>2, <1>6, <2>4
  <2>. QED BY <1>1, <2>2, <2>3, <2>4 DEF Planes
<1>. QED BY <1>4, <1>5, <1>7, <1>8 DEF l
-----------------------------------------------------------------------------
(* Why reports count in order: an open connection has brought everything sent      *)
(* since the last one opened up to where it is, and with a single connection no    *)
(* report that has counted is still on its way.                                    *)
Counted(k) == opened < k => sent[k] \in seen
Brings(c) ==
  /\ c.next # 0 /\ c.next <= Len(sent) + 1
  /\ \A k \in DOMAIN sent : k < c.next => Counted(k)
  /\ remounts = 0 => newest < c.next
OrderInv ==
  /\ newest \in Nat /\ opened \in Nat
  /\ newest <= Len(sent) /\ opened <= Len(sent)
  /\ \A k \in DOMAIN sent : k <= newest => Counted(k)
  /\ \A s \in Sockets : sockets[s].state = "open" => Brings(sockets[s])

LEMMA InitOrder == Init => OrderInv
<1>. SUFFICES ASSUME Init PROVE OrderInv
  OBVIOUS
<1>1. sent = <<>> /\ newest = 0 /\ opened = 0 BY DEF Init
<1>2. Len(sent) = 0 BY <1>1, EmptySeq
<1>3. \A k \in DOMAIN sent : FALSE BY <1>1, EmptySeq
<1>4. \A s \in Sockets : sockets[s].state # "open"
  BY SocketType DEF Init
<1>. QED BY <1>1, <1>2, <1>3, <1>4 DEF OrderInv

LEMMA OneLive ==
  ASSUME NetOK, OneConnection, remounts = 0, NEW s \in Live, NEW t \in Live
  PROVE  s = t
<1>1. Cardinality(Live) + timers = 1 BY DEF OneConnection
<1>2. Cardinality(Live) <= 1 BY <1>1, LiveIsFinite DEF NetOK
<1>3. Cardinality(Live \ {s}) = Cardinality(Live) - 1 /\ IsFiniteSet(Live \ {s})
  BY LiveIsFinite, FS_RemoveElement
<1>4. Cardinality(Live \ {s}) = 0 BY <1>2, <1>3, LiveIsFinite, FS_CardinalityType
<1>5. Live \ {s} = {} BY <1>3, <1>4, FS_EmptySet
<1>. QED BY <1>5

(* Connections come and go: the open ones are where they were. *)
LEMMA OrderKept ==
  ASSUME OrderInv, UNCHANGED <<sent, opened, seen, newest>>,
         remounts' = 0 => remounts = 0,
         \A s \in Sockets : sockets'[s].state = "open" => sockets'[s] = sockets[s]
  PROVE  OrderInv'
BY DEF OrderInv, Brings, Counted

LEMMA StepOrder == NetOK /\ OneConnection /\ OrderInv /\ [Next]_vars => OrderInv'
<1>. SUFFICES ASSUME NetOK, OneConnection, OrderInv, [Next]_vars PROVE OrderInv'
  OBVIOUS
<1>. Len(sent) \in Nat /\ DOMAIN sent = 1..Len(sent) BY LenProperties DEF NetOK
<1>1. ASSUME NEW s \in Sockets, OnOpen(s) PROVE OrderInv'
  <2>. DEFINE c == [state |-> "open", next |-> Len(sent) + 1]
  <2>1. sockets' = [sockets EXCEPT ![s] = c] /\ opened' = Len(sent)
        /\ UNCHANGED <<sent, remounts, seen, newest>>
    BY <1>1 DEF OnOpen, fleet
  <2>2. c.next = Len(sent) + 1 OBVIOUS
  <2>. HIDE DEF c
  <2>3. \A k \in DOMAIN sent' : Counted(k)' BY <2>1 DEF Counted
  <2>4. ASSUME NEW t \in Sockets, sockets'[t].state = "open" PROVE Brings(sockets[t])'
    <3>1. CASE t = s
      <4>1. sockets'[t] = c BY <2>1, <3>1 DEF NetOK
      <4>2. Len(sent) + 1 # 0 /\ newest < Len(sent) + 1 BY DEF OrderInv
      <4>. QED BY <2>1, <2>2, <2>3, <4>1, <4>2 DEF Brings
    <3>2. CASE t # s
      <4>1. sockets'[t] = sockets[t] BY <2>1, <3>2 DEF NetOK
      <4>2. Brings(sockets[t]) BY <2>4, <4>1 DEF OrderInv
      <4>. QED BY <2>1, <2>3, <4>1, <4>2 DEF Brings
    <3>. QED BY <3>1, <3>2
  <2>. QED BY <2>1, <2>3, <2>4 DEF OrderInv
<1>2. CASE \E s \in Sockets : Drop(s) \/ CloseEnds(s)
  <2>1. PICK s \in Sockets : Drop(s) \/ CloseEnds(s) BY <1>2
  <2>2. sockets' = [sockets EXCEPT ![s] = Closed]
        /\ UNCHANGED <<sent, opened, seen, newest, remounts>>
    BY <2>1 DEF Drop, CloseEnds, OnClose, fleet
  <2>3. \A t \in Sockets : sockets'[t].state = "open" => sockets'[t] = sockets[t]
    BY <2>2, SocketType DEF NetOK
  <2>. QED BY <2>2, <2>3, OrderKept
<1>3. ASSUME NEW s \in Sockets, OnMessage(s) PROVE OrderInv'
  <2>. PICK n : n = sockets[s].next OBVIOUS
  <2>. DEFINE c == [sockets[s] EXCEPT !.next = n + 1]
  <2>1. /\ sockets[s].state = "open" /\ n <= Len(sent)
        /\ sockets' = [sockets EXCEPT ![s] = c]
        /\ seen' = seen \cup {sent[n]}
        /\ newest' \in {newest, n}
        /\ UNCHANGED <<sent, opened, remounts>>
    BY <1>3 DEF OnMessage, NetOK
  <2>2. n \in Nat /\ c.next = n + 1 BY DEF NetOK, Socket
  <2>3. Brings(sockets[s]) BY <2>1 DEF OrderInv
  <2>4. n # 0 /\ \A k \in DOMAIN sent : k < n => Counted(k) BY <2>3 DEF Brings
  <2>a. remounts = 0 => newest < n BY <2>3 DEF Brings
  <2>. HIDE DEF c
  <2>5. \A k : Counted(k) => Counted(k)' BY <2>1 DEF Counted
  <2>6. Counted(n)' BY <2>1 DEF Counted
  <2>7. \A k \in DOMAIN sent' : k < n + 1 => Counted(k)'
    BY <2>1, <2>2, <2>4, <2>5, <2>6
  <2>8. \A k \in DOMAIN sent' : k <= newest' => Counted(k)'
    BY <2>1, <2>2, <2>5, <2>7 DEF OrderInv
  <2>9. ASSUME NEW t \in Sockets, sockets'[t].state = "open" PROVE Brings(sockets[t])'
    <3>1. CASE t = s
      <4>1. sockets'[t] = c BY <2>1, <3>1 DEF NetOK
      <4>2. n + 1 # 0 /\ n + 1 <= Len(sent') + 1 BY <2>1, <2>2
      <4>3. remounts' = 0 => newest' < n + 1 BY <2>1, <2>2, <2>a DEF OrderInv
      <4>. QED BY <2>2, <2>7, <4>1, <4>2, <4>3 DEF Brings
    <3>2. CASE t # s
      <4>1. sockets'[t] = sockets[t] BY <2>1, <3>2 DEF NetOK
      <4>2. Brings(sockets[t]) /\ sockets[t].state = "open" BY <2>9, <4>1 DEF OrderInv
      <4>3. remounts # 0
        <5>1. s \in Live /\ t \in Live BY <2>1, <4>2 DEF Live
        <5>. QED BY <3>2, <5>1, OneLive
      <4>. QED BY <2>1, <2>5, <4>1, <4>2, <4>3 DEF Brings
    <3>. QED BY <3>1, <3>2
  <2>10. newest' \in Nat /\ newest' <= Len(sent') BY <2>1, <2>2 DEF OrderInv
  <2>. QED BY <2>1, <2>8, <2>9, <2>10 DEF OrderInv
<1>4. ASSUME NEW a \in Icao, NEW p \in Places, Send(a, p) PROVE OrderInv'
  <2>. DEFINE m == [icao |-> a, place |-> p]
  <2>1. sent' = Append(sent, m) /\ UNCHANGED <<sockets, opened, remounts, seen, newest>>
    BY <1>4 DEF Send, fleet
  <2>2. m \in Message BY DEF Message
  <2>. HIDE DEF m
  <2>3. Len(sent') = Len(sent) + 1 /\ DOMAIN sent' = 1..(Len(sent) + 1)
        /\ \A k \in 1..Len(sent) : sent'[k] = sent[k]
    BY <2>1, <2>2, AppendProperties, LenProperties DEF NetOK
  <2>4. \A k \in DOMAIN sent : Counted(k) => Counted(k)' BY <2>1, <2>3 DEF Counted
  <2>5. ASSUME NEW k \in DOMAIN sent', k <= Len(sent) PROVE k \in DOMAIN sent
    BY <2>3, <2>5
  <2>6. \A k \in DOMAIN sent' : k <= newest' => Counted(k)'
    BY <2>1, <2>3, <2>4, <2>5 DEF OrderInv
  <2>7. ASSUME NEW t \in Sockets, sockets'[t].state = "open" PROVE Brings(sockets[t])'
    <3>1. Brings(sockets[t]) /\ sockets'[t] = sockets[t] /\ sockets[t].next \in Nat
      BY <2>1, <2>7 DEF OrderInv, NetOK, Socket
    <3>2. \A k \in DOMAIN sent' : k < sockets'[t].next => Counted(k)'
      BY <2>3, <2>4, <2>5, <3>1 DEF Brings
    <3>3. sockets[t].next <= Len(sent') + 1 BY <2>3, <3>1 DEF Brings
    <3>. QED BY <2>1, <3>1, <3>2, <3>3 DEF Brings
  <2>8. newest' <= Len(sent') /\ opened' <= Len(sent') BY <2>1, <2>3 DEF OrderInv
  <2>. QED BY <2>1, <2>6, <2>7, <2>8 DEF OrderInv
<1>5. CASE Reconnect
  <2>1. sockets' = [sockets EXCEPT ![Least(Free)] = Connecting]
        /\ UNCHANGED <<sent, opened, remounts, seen, newest>>
    BY <1>5 DEF Reconnect, fleet
  <2>2. \A t \in Sockets : sockets'[t].state = "open" => sockets'[t] = sockets[t]
    BY <2>1, SocketType DEF NetOK
  <2>. QED BY <2>1, <2>2, OrderKept
<1>6. CASE Remount
  <2>1. /\ remounts' = remounts + 1
        /\ \A t \in Sockets : sockets'[t] \in {Connecting, Idle("closing"), sockets[t]}
        /\ UNCHANGED <<sent, opened, seen, newest>>
    BY <1>6 DEF Remount, fleet
  <2>2. \A t \in Sockets : sockets'[t].state = "open" => sockets'[t] = sockets[t]
    BY <2>1, SocketType
  <2>3. remounts' # 0 BY <2>1 DEF NetOK
  <2>. QED BY <2>1, <2>2, <2>3, OrderKept
<1>7. CASE Render \/ User \/ UNCHANGED vars
  <2>1. UNCHANGED <<sent, sockets, opened, remounts, seen, newest>>
    BY <1>7 DEF Render, User, ClickAircraft, EditAircraft, ClickHexagon, ClickMap, OnDblClick,
                HandleSearch, EditHexagon, HandleSubmit, vars, net, fleet
  <2>. QED BY <2>1, OrderKept
<1>. QED BY <1>1, <1>2, <1>3, <1>4, <1>5, <1>6, <1>7 DEF Next, Network
-----------------------------------------------------------------------------
(* The id of an aircraft is its ICAO id, or it is the number it began with. *)
Known(x) ==
  \/ x.id = x.icaoId
  \/ \E k \in DOMAIN InitialAircraft :
       x.id = InitialAircraft[k].id /\ x.icaoId = InitialAircraft[k].icaoId

FleetInv ==
  /\ aircraft \in Seq(Planes) /\ shown \in Seq(Planes)
  /\ Unique(aircraft)
  /\ \A i \in DOMAIN aircraft : Known(aircraft[i])
  /\ \A i \in DOMAIN shown : Known(shown[i])

LEMMA OneIcao ==
  ASSUME NEW x \in Planes, NEW y \in Planes, Known(x), Known(y), x.id = y.id
  PROVE  x.icaoId = y.icaoId
<1>1. x.icaoId \in Icao /\ y.icaoId \in Icao BY DEF Planes
<1>. QED BY <1>1, AircraftAssumption DEF Known

LEMMA InitFleet == Init => FleetInv
<1>. SUFFICES ASSUME Init PROVE FleetInv
  OBVIOUS
<1>1. aircraft = InitialAircraft /\ shown = InitialAircraft BY DEF Init
<1>2. \A i \in DOMAIN InitialAircraft : Known(InitialAircraft[i]) BY DEF Known
<1>3. Unique(InitialAircraft) BY AircraftAssumption DEF Unique
<1>. QED BY <1>1, <1>2, <1>3, AircraftAssumption DEF FleetInv

(* Every step takes a report that is news, writes one aircraft back, is one of the *)
(* user that leaves the aircraft alone, or is one of the server, the connections  *)
(* and the renders.                                                                *)
feed == <<sent, opened, remounts>>
Takes(n) ==
  /\ n \in DOMAIN sent /\ sent[n] \in Message /\ sent[n] \notin seen
  /\ seen' = seen \cup {sent[n]}
  /\ aircraft' = Merge(aircraft, sent[n])
  /\ newest' = IF newest < n THEN n ELSE newest
  /\ UNCHANGED <<shown, acts, feed>>
Writes(u) ==
  /\ u \in Planes /\ Known(u)
  /\ aircraft' = Written(aircraft, u)
  /\ shown' = aircraft'
  /\ acts' = acts + 1
  /\ UNCHANGED <<seen, newest, feed>>
Clicks ==
  /\ acts' = acts + 1
  /\ UNCHANGED <<seen, aircraft, shown, newest, feed>>
Feeds ==
  \/ \E a \in Icao, p \in Places : sent' = Append(sent, [icao |-> a, place |-> p])
                                   /\ UNCHANGED <<opened, remounts>>
  \/ opened' = Len(sent) /\ UNCHANGED <<sent, remounts>>
  \/ remounts' = remounts + 1 /\ UNCHANGED <<sent, opened>>
  \/ UNCHANGED feed
Serves ==
  /\ Feeds
  /\ shown' \in {shown, aircraft}
  /\ UNCHANGED <<seen, aircraft, newest, acts>>

LEMMA StepTakes ==
  ASSUME NetOK, NEW s \in Sockets, OnMessage(s), sockets[s].next # 0
  PROVE  Serves \/ Takes(sockets[s].next)
<1>. DEFINE n == sockets[s].next
<1>1. /\ n <= Len(sent) /\ seen' = seen \cup {sent[n]}
      /\ aircraft' = IF sent[n] \notin seen THEN Merge(aircraft, sent[n]) ELSE aircraft
      /\ newest' = IF sent[n] \notin seen /\ newest < n THEN n ELSE newest
      /\ UNCHANGED <<shown, acts, feed>>
  BY DEF OnMessage, News, feed
<1>2. n \in Nat BY DEF NetOK, Socket
<1>. HIDE DEF n
<1>3. n \in DOMAIN sent /\ sent[n] \in Message BY <1>1, <1>2, SentIs DEF n
<1>4. CASE sent[n] \in seen BY <1>1, <1>4 DEF Serves, Feeds
<1>5. CASE sent[n] \notin seen
  <2>1. Takes(n) BY <1>1, <1>3, <1>5 DEF Takes
  <2>. QED BY <2>1 DEF n
<1>. QED BY <1>4, <1>5

LEMMA StepWrites ==
  ASSUME FleetInv, NEW i \in DOMAIN shown, NEW p \in Places, EditAircraft(i, p)
  PROVE  \E u : Writes(u)
<1>. DEFINE u == [shown[i] EXCEPT !.place = p]
<1>1. shown[i] \in Planes /\ Known(shown[i]) BY ElementOfSeq DEF FleetInv
<1>2. u \in Planes /\ u.id = shown[i].id /\ u.icaoId = shown[i].icaoId BY <1>1 DEF Planes
<1>3. Known(u) BY <1>1, <1>2 DEF Known
<1>4. /\ aircraft' = HandleAircraftUpdate(u) /\ shown' = aircraft' /\ acts' = acts + 1
      /\ UNCHANGED <<seen, newest, feed>>
  BY DEF EditAircraft, Act, net, feed
<1>. HIDE DEF u
<1>5. Writes(u) BY <1>2, <1>3, <1>4 DEF Writes, Written, HandleAircraftUpdate
<1>. QED BY <1>5

LEMMA Steps ==
  ASSUME NetOK, FleetInv, OrderInv, [Next]_vars
  PROVE  Serves \/ Clicks \/ (\E n : Takes(n)) \/ (\E u : Writes(u))
<1>1. ASSUME NEW s \in Sockets, OnMessage(s) PROVE Serves \/ \E n : Takes(n)
  <2>1. sockets[s].next # 0 BY <1>1 DEF OnMessage, OrderInv, Brings
  <2>. QED BY <1>1, <2>1, StepTakes
<1>2. ASSUME NEW i \in DOMAIN shown, NEW p \in Places, EditAircraft(i, p)
      PROVE \E u : Writes(u)
  BY <1>2, StepWrites
<1>3. CASE \E s \in Sockets : OnOpen(s) \/ Drop(s) \/ CloseEnds(s)
  BY <1>3 DEF OnOpen, Drop, CloseEnds, fleet, feed, Feeds, Serves
<1>4. CASE (\E a \in Icao, p \in Places : Send(a, p)) \/ Reconnect \/ Remount \/ Render
  BY <1>4 DEF Send, Reconnect, Remount, Render, net, fleet, feed, Feeds, Serves
<1>5. CASE \/ \E i \in DOMAIN shown : ClickAircraft(i)
           \/ \E i \in DOMAIN hexagons : ClickHexagon(hexagons[i])
           \/ ClickMap
           \/ \E r \in Radii \ {None} : OnDblClick(r)
  BY <1>5 DEF ClickAircraft, ClickHexagon, ClickMap, OnDblClick, Act, net, fleet, feed, Clicks
<1>6. CASE \/ \E n \in Names : HandleSearch(n)
           \/ \E n \in Names, r \in Radii : EditHexagon(n, r)
           \/ HandleSubmit
  BY <1>6 DEF HandleSearch, EditHexagon, HandleSubmit, Act, net, fleet, feed, Clicks
<1>7. CASE UNCHANGED vars BY <1>7 DEF vars, net, fleet, feed, Feeds, Serves
<1>. QED BY <1>1, <1>2, <1>3, <1>4, <1>5, <1>6, <1>7 DEF Next, Network, User

LEMMA FleetTakes == ASSUME FleetInv, NEW n, Takes(n) PROVE FleetInv'
<1>. DEFINE m == sent[n]
<1>1. m \in Message /\ aircraft' = Merge(aircraft, m) /\ shown' = shown BY DEF Takes
<1>. HIDE DEF m
<1>2. aircraft \in Seq(Planes) /\ Unique(aircraft) BY DEF FleetInv
<1>3. /\ aircraft' \in Seq(Planes) /\ Unique(aircraft')
      /\ \A i \in DOMAIN aircraft' :
           aircraft'[i] = Plane(m) \/ (i \in DOMAIN aircraft /\ aircraft'[i] = aircraft[i])
  BY <1>1, <1>2, Merged
<1>4. Known(Plane(m)) BY <1>1, PlaneType DEF Known
<1>5. \A i \in DOMAIN aircraft' : Known(aircraft'[i]) BY <1>3, <1>4 DEF FleetInv
<1>. QED BY <1>1, <1>3, <1>5 DEF FleetInv, Unique

LEMMA SameIcao ==
  ASSUME FleetInv, NEW u \in Planes, Known(u)
  PROVE  \A i \in DOMAIN aircraft : aircraft[i].id = u.id => aircraft[i].icaoId = u.icaoId
<1>1. \A i \in DOMAIN aircraft : aircraft[i] \in Planes BY ElementOfSeq DEF FleetInv
<1>. QED BY <1>1, OneIcao DEF FleetInv

LEMMA FleetWrites == ASSUME FleetInv, NEW u, Writes(u) PROVE FleetInv'
<1>1. u \in Planes /\ Known(u) /\ aircraft' = Written(aircraft, u) /\ shown' = aircraft'
  BY DEF Writes
<1>2. aircraft' \in Seq(Planes) /\ Unique(aircraft')
  BY <1>1, SameIcao, WrittenBack DEF FleetInv
<1>3. \A i \in DOMAIN aircraft' : Known(aircraft'[i]) BY <1>1 DEF Written, FleetInv
<1>. QED BY <1>1, <1>2, <1>3 DEF FleetInv, Unique

Inv == NetOK /\ OneConnection /\ FleetInv /\ OrderInv /\ seen \subseteq Message

LEMMA StepInv == Inv /\ [Next]_vars => Inv'
<1>. SUFFICES ASSUME Inv, [Next]_vars PROVE Inv'
  OBVIOUS
<1>1. NetOK' /\ OneConnection' BY StepNet DEF Inv
<1>2. OrderInv' BY StepOrder DEF Inv
<1>3. CASE Serves \/ Clicks
  <2>1. seen' \subseteq Message BY <1>3 DEF Serves, Clicks, Inv
  <2>2. FleetInv' BY <1>3 DEF Serves, Clicks, Inv, FleetInv, Unique
  <2>. QED BY <1>1, <1>2, <2>1, <2>2 DEF Inv
<1>4. ASSUME NEW n, Takes(n) PROVE Inv'
  BY <1>1, <1>2, <1>4, FleetTakes DEF Inv, Takes
<1>5. ASSUME NEW u, Writes(u) PROVE Inv'
  BY <1>1, <1>2, <1>5, FleetWrites DEF Inv, Writes
<1>. QED BY <1>3, <1>4, <1>5, Steps DEF Inv

LEMMA AlwaysInv == Spec => []Inv
<1>1. Init => Inv BY InitNet, InitFleet, InitOrder DEF Init, Inv
<1>. QED BY <1>1, StepInv, PTL DEF Spec

(* An aircraft is on the map once, for any reports on any number of connections   *)
(* and whatever the user edits meanwhile (App.js:63-89, 193-197).                  *)
THEOREM IcaoIsUnique == Spec => []UniqueIcao
<1>1. Inv => UniqueIcao BY DEF Inv, FleetInv, Unique, UniqueIcao
<1>. QED BY <1>1, AlwaysInv, PTL
-----------------------------------------------------------------------------
LEMMA PlaceOfIs ==
  /\ \A a : PlaceOf(a) = PlaceIn(aircraft, a)
  /\ \A a : PlaceOf(a)' = PlaceIn(aircraft', a)
BY DEF PlaceOf, PlaceIn, Found

OnMap == [a \in Icao |-> PlaceOf(a)]
Doubled == remounts > 0

LEMMA RefineInit == Init => F!Init
<1>. SUFFICES ASSUME Init PROVE F!Init
  OBVIOUS
<1>1. /\ aircraft = InitialAircraft /\ seen = {} /\ acts = 0
      /\ sent = <<>> /\ newest = 0 /\ opened = 0 /\ remounts = 0
  BY DEF Init
<1>2. InitialAircraft \in Seq(Planes) /\ Unique(InitialAircraft)
  BY AircraftAssumption DEF Unique
<1>3. ASSUME NEW a \in Icao
      PROVE PlaceOf(a) = IF \E i \in DOMAIN InitialAircraft : InitialAircraft[i].icaoId = a
                         THEN (CHOOSE x \in Range(InitialAircraft) : x.icaoId = a).place
                         ELSE None
  <2>1. PlaceOf(a) = PlaceIn(InitialAircraft, a) BY <1>1, PlaceOfIs
  <2>2. CASE \A i \in DOMAIN InitialAircraft : InitialAircraft[i].icaoId # a
    BY <1>2, <2>1, <2>2, PlaceAt
  <2>3. ASSUME NEW i \in DOMAIN InitialAircraft, InitialAircraft[i].icaoId = a
        PROVE PlaceOf(a) = (CHOOSE x \in Range(InitialAircraft) : x.icaoId = a).place
    <3>. DEFINE c == CHOOSE x \in Range(InitialAircraft) : x.icaoId = a
    <3>1. c \in Range(InitialAircraft) /\ c.icaoId = a BY <2>3 DEF Range
    <3>2. PICK j \in DOMAIN InitialAircraft : c = InitialAircraft[j] BY <3>1 DEF Range
    <3>. QED BY <1>2, <2>1, <3>1, <3>2, PlaceAt
  <2>. QED BY <2>2, <2>3
<1>. QED BY <1>1, <1>3 DEF F!Init

(* A report that counts comes in turn, or late while there are two connections. *)
LEMMA InOrder ==
  ASSUME Inv, NEW s \in Sockets, OnMessage(s), sent[sockets[s].next] \notin seen
  PROVE  newest < sockets[s].next \/ (remounts > 0 /\ sockets[s].next <= opened)
<1>. DEFINE n == sockets[s].next
<1>1. n \in Nat /\ newest \in Nat /\ opened \in Nat /\ remounts \in Nat
  BY DEF Inv, NetOK, Socket, OrderInv
<1>2. sockets[s].state = "open" /\ n <= Len(sent) BY DEF OnMessage
<1>3. Brings(sockets[s]) BY <1>2 DEF Inv, OrderInv
<1>4. n \in DOMAIN sent BY <1>1, <1>2, <1>3, SentIs DEF Brings, Inv
<1>5. n <= newest => n <= opened BY <1>1, <1>4 DEF Inv, OrderInv, Counted
<1>6. remounts = 0 => newest < n BY <1>3 DEF Brings
<1>. QED BY <1>1, <1>5, <1>6

LEMMA RefineTakes ==
  ASSUME Inv, NEW s \in Sockets, OnMessage(s), Takes(sockets[s].next)
  PROVE  F!Next
<1>. DEFINE n == sockets[s].next
            m == sent[n]
<1>1. /\ n \in DOMAIN sent /\ m \in Message /\ m \notin seen /\ seen' = seen \cup {m}
      /\ aircraft' = Merge(aircraft, m) /\ acts' = acts
      /\ newest' = IF newest < n THEN n ELSE newest
      /\ UNCHANGED feed
  BY DEF Takes
<1>a. newest < n \/ (Doubled /\ n <= opened) BY <1>1, InOrder DEF Doubled
<1>. HIDE DEF n
<1>2. m.icao \in Icao /\ m.place \in Places BY <1>1, PlaneType
<1>3. aircraft \in Seq(Planes) /\ Unique(aircraft) BY DEF Inv, FleetInv
<1>4. \A a : PlaceOf(a)' = IF a = m.icao THEN m.place ELSE PlaceOf(a)
  BY <1>1, <1>3, MergedPlaces, PlaceOfIs
<1>5. OnMap' = [OnMap EXCEPT ![m.icao] = m.place] BY <1>4 DEF OnMap
<1>6. Doubled' = Doubled BY <1>1 DEF Doubled, feed
<1>8. F!Report(n)
  BY <1>1, <1>a, <1>5, <1>6
  DEF F!Report, F!InTurn, F!Late, F!server, OnMap, Doubled, feed
<1>. QED BY <1>1, <1>8 DEF F!Next

LEMMA RefineWrites ==
  ASSUME Inv, NEW u, Writes(u)
  PROVE  F!Next
<1>1. /\ u \in Planes /\ Known(u) /\ aircraft' = Written(aircraft, u)
      /\ acts' = acts + 1 /\ UNCHANGED <<seen, newest, feed>>
  BY DEF Writes
<1>2. u.icaoId \in Icao /\ u.place \in Places BY <1>1 DEF Planes
<1>3. aircraft \in Seq(Planes) /\ Unique(aircraft) BY DEF Inv, FleetInv
<1>4. Doubled' = Doubled BY <1>1 DEF Doubled, feed
<1>5. \/ \A a : PlaceOf(a)' = PlaceOf(a)
      \/ /\ PlaceOf(u.icaoId) \in Places
         /\ \A a : PlaceOf(a)' = IF a = u.icaoId THEN u.place ELSE PlaceOf(a)
  BY <1>1, <1>3, SameIcao, WrittenBack, PlaceOfIs DEF Inv
<1>6. CASE \A a : PlaceOf(a)' = PlaceOf(a)
  <2>1. OnMap' = OnMap BY <1>6 DEF OnMap
  <2>. QED BY <1>1, <1>4, <2>1 DEF F!Next, F!Touch, F!server, OnMap, Doubled, feed
<1>7. CASE /\ PlaceOf(u.icaoId) \in Places
           /\ \A a : PlaceOf(a)' = IF a = u.icaoId THEN u.place ELSE PlaceOf(a)
  <2>1. OnMap' = [OnMap EXCEPT ![u.icaoId] = u.place] BY <1>7 DEF OnMap
  <2>2. OnMap[u.icaoId] # None BY <1>2, <1>7, NoneAssumption DEF OnMap
  <2>3. F!Touch BY <1>1, <1>2, <1>4, <2>1, <2>2 DEF F!Touch, F!server, OnMap, Doubled, feed
  <2>. QED BY <2>3 DEF F!Next
<1>. QED BY <1>5, <1>6, <1>7

LEMMA RefineClicks ==
  ASSUME Clicks
  PROVE  F!Next
<1>1. acts' = acts + 1 /\ UNCHANGED <<seen, aircraft, newest, feed>> BY DEF Clicks
<1>2. OnMap' = OnMap BY <1>1, PlaceOfIs DEF OnMap
<1>3. Doubled' = Doubled BY <1>1 DEF Doubled, feed
<1>. QED BY <1>1, <1>2, <1>3 DEF F!Next, F!Touch, F!server, OnMap, Doubled, feed

LEMMA RefineServes ==
  ASSUME NetOK, Serves
  PROVE  [F!Next]_F!vars
<1>1. UNCHANGED <<seen, aircraft, newest, acts>> /\ Feeds BY DEF Serves
<1>2. OnMap' = OnMap BY <1>1, PlaceOfIs DEF OnMap
<1>3. remounts' = remounts => Doubled' = Doubled BY DEF Doubled
<1>4. ASSUME NEW a \in Icao, NEW p \in Places, UNCHANGED <<opened, remounts>>,
             sent' = Append(sent, [icao |-> a, place |-> p])
      PROVE  F!Next
  <2>1. F!Tell(a, p) BY <1>1, <1>2, <1>3, <1>4 DEF F!Tell, OnMap, Doubled
  <2>. QED BY <2>1 DEF F!Next
<1>5. CASE opened' = Len(sent) /\ UNCHANGED <<sent, remounts>>
  <2>1. F!Open BY <1>1, <1>2, <1>3, <1>5 DEF F!Open, OnMap, Doubled
  <2>. QED BY <2>1 DEF F!Next
<1>6. CASE remounts' = remounts + 1 /\ UNCHANGED <<sent, opened>>
  <2>1. Doubled' = TRUE BY <1>6 DEF Doubled, NetOK
  <2>2. F!Double BY <1>1, <1>2, <1>6, <2>1 DEF F!Double, OnMap, Doubled
  <2>. QED BY <2>2 DEF F!Next
<1>7. CASE UNCHANGED feed
  BY <1>1, <1>2, <1>3, <1>7 DEF F!vars, F!server, OnMap, Doubled, feed
<1>. QED BY <1>1, <1>4, <1>5, <1>6, <1>7 DEF Feeds

LEMMA RefineStep ==
  ASSUME Inv, [Next]_vars
  PROVE  [F!Next]_F!vars
<1>1. ASSUME NEW s \in Sockets, OnMessage(s) PROVE [F!Next]_F!vars
  <2>1. sockets[s].next # 0 BY <1>1 DEF OnMessage, Inv, OrderInv, Brings
  <2>2. Serves \/ Takes(sockets[s].next) BY <1>1, <2>1, StepTakes DEF Inv
  <2>. QED BY <1>1, <2>2, RefineTakes, RefineServes DEF Inv
<1>2. ASSUME NEW n, Takes(n) PROVE \E s \in Sockets : OnMessage(s)
  <2>1. seen' # seen BY <1>2 DEF Takes
  <2>. QED BY <2>1
       DEF Next, Network, User, OnOpen, Drop, CloseEnds, Send, Reconnect, Remount, Render,
           ClickAircraft, EditAircraft, ClickHexagon, ClickMap, OnDblClick, HandleSearch,
           EditHexagon, HandleSubmit, vars, fleet
<1>3. Serves \/ Clicks \/ (\E n : Takes(n)) \/ (\E u : Writes(u)) BY Steps DEF Inv
<1>. QED BY <1>1, <1>2, <1>3, RefineWrites, RefineClicks, RefineServes DEF Inv

(* The map is the fleet: however often connections are doubled, dropped and opened *)
(* again, each report counts once and in the order it was sent, save that after a   *)
(* remount one of before the last connection opened may count late; renders and    *)
(* ids never show (App.js:21-98, 193-197).                                          *)
THEOREM Refinement == Spec => ImplementsFleet
<1>1. Inv /\ [Next]_vars => [F!Next]_F!vars BY RefineStep
<1>. QED BY <1>1, RefineInit, AlwaysInv, PTL DEF Spec, ImplementsFleet, F!Spec
-----------------------------------------------------------------------------
Id == Nat \cup Icao \cup {None}

LEMMA StepId ==
  FleetInv /\ selectedAircraftId \in Id /\ [Next]_vars => selectedAircraftId' \in Id
<1>. SUFFICES ASSUME FleetInv, selectedAircraftId \in Id, [Next]_vars
              PROVE  selectedAircraftId' \in Id
  OBVIOUS
<1>1. ASSUME NEW i \in DOMAIN shown, ClickAircraft(i) PROVE selectedAircraftId' \in Id
  <2>1. shown[i] \in Planes BY ElementOfSeq, LenProperties DEF FleetInv
  <2>2. shown[i].id \in Nat \cup Icao BY <2>1 DEF Planes
  <2>. QED BY <1>1, <2>2 DEF ClickAircraft, Id
<1>2. CASE (\E i \in DOMAIN hexagons : ClickHexagon(hexagons[i])) \/ ClickMap
  BY <1>2 DEF ClickHexagon, ClickMap, Id
<1>3. CASE \/ \E i \in DOMAIN shown, p \in Places : EditAircraft(i, p)
           \/ \E r \in Radii \ {None} : OnDblClick(r)
           \/ \E n \in Names : HandleSearch(n)
           \/ \E n \in Names, r \in Radii : EditHexagon(n, r)
           \/ HandleSubmit
  BY <1>3 DEF EditAircraft, OnDblClick, HandleSearch, EditHexagon, HandleSubmit
<1>4. CASE \/ \E s \in Sockets : OnOpen(s) \/ Drop(s) \/ CloseEnds(s) \/ OnMessage(s)
           \/ \E a \in Icao, p \in Places : Send(a, p)
           \/ Reconnect \/ Remount \/ Render
  BY <1>4 DEF OnOpen, Drop, CloseEnds, OnMessage, Send, Reconnect, Remount, Render
<1>5. CASE UNCHANGED vars BY <1>5 DEF vars
<1>. QED BY <1>1, <1>2, <1>3, <1>4, <1>5 DEF Next, Network, User

(* Whatever arrives, drops and is edited, the connections, the aircraft, the       *)
(* hexagons and what is selected are of their types.                               *)
THEOREM TypeCorrect == Spec => []TypeOK
<1>. DEFINE TInv == Inv /\ HexInv /\ selectedAircraftId \in Id
<1>1. Init => TInv
  BY InitNet, InitFleet, InitOrder, HexagonsAssumption DEF Init, Inv, HexInv, Id
<1>2. TInv /\ [Next]_vars => TInv' BY StepInv, StepHex, StepId DEF Inv
<1>3. TInv => TypeOK
  <2>. SUFFICES ASSUME TInv PROVE TypeOK
    OBVIOUS
  <2>1. selectedHexagon \in Hexagon \cup {None} BY HexPositions DEF HexInv
  <2>. QED BY <2>1 DEF TypeOK, Inv, NetOK, Socket, States, FleetInv, HexInv, Id
<1>. QED BY <1>1, <1>2, <1>3, PTL DEF Spec
=============================================================================
