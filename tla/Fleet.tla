------------------------------- MODULE Fleet -------------------------------
(***************************************************************************)
(* What the map of aw-dashboard promises of aircraft: each has one place,  *)
(* the place of the last report that counted, unless the user has edited   *)
(* it since.  Connections that drop, lists and renders do not show.        *)
(* An aircraft that returns to a place it was reported at stays where it   *)
(* was seen last: a report with a place that has counted never counts      *)
(* again.  And once there may be two connections, a report of before the   *)
(* newer one opened may come late on the older one and still count.        *)
(***************************************************************************)
EXTENDS Naturals, Sequences

CONSTANTS Icao, Places, Start, None

VARIABLES
  sent,                   \* the reports of the server, in order
  opened,                 \* how many had been sent when the last connection opened
  doubled,                \* there has been a second connection
  place,                  \* place[a]: where aircraft a is on the map, None: not there
  news, last,             \* the reports that have counted, and the last one's number
  touches                 \* how often the user has done something

server == <<sent, opened, doubled>>
vars == <<server, place, news, last, touches>>

Init ==
  /\ sent = <<>> /\ opened = 0 /\ doubled = FALSE
  /\ place = Start /\ news = {} /\ last = 0
  /\ touches = 0

(* What the server and the connections do moves no aircraft. *)
Tell(a, p) ==
  /\ sent' = Append(sent, [icao |-> a, place |-> p])
  /\ UNCHANGED <<opened, doubled, place, news, last, touches>>

Open ==
  /\ opened' = Len(sent)
  /\ UNCHANGED <<sent, doubled, place, news, last, touches>>

Double ==
  /\ doubled' = TRUE
  /\ UNCHANGED <<sent, opened, place, news, last, touches>>

InTurn(n) == last < n

Late(n) == doubled /\ n <= opened

Report(n) ==
  /\ InTurn(n) \/ Late(n)
  /\ sent[n] \notin news
  /\ news' = news \cup {sent[n]}
  /\ last' = IF InTurn(n) THEN n ELSE last
  /\ place' = [place EXCEPT ![sent[n].icao] = sent[n].place]
  /\ UNCHANGED <<server, touches>>

(* What the user does moves one aircraft that is on the map, or none. *)
Touch ==
  /\ touches' = touches + 1
  /\ \/ UNCHANGED place
     \/ \E a \in Icao, p \in Places : place[a] # None /\ place' = [place EXCEPT ![a] = p]
  /\ UNCHANGED <<server, news, last>>

Next ==
  \/ \E a \in Icao, p \in Places : Tell(a, p)
  \/ Open
  \/ Double
  \/ \E n \in DOMAIN sent : Report(n)
  \/ Touch

Spec == Init /\ [][Next]_vars
=============================================================================
