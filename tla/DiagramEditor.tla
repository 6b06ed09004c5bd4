--------------------------- MODULE DiagramEditor ---------------------------
(***************************************************************************)
(* The topology editor of skel-viz/ext-helicopter: the canvas (React Flow) *)
(* with its sidebar, its two property panels, the interval that polls      *)
(* telemetry, and the snapshots kept in localStorage and in exported       *)
(* files.  Positions, popups and styling are left out; title stands for    *)
(* title, address, icon and tags of a node, label for the fields of an     *)
(* edge.  The network of a node has a dropdown with a state of its own.    *)
(*                                                                         *)
(* React renders what a user event changed, and runs the effects of that   *)
(* render, before the next event.  What a promise or a file reader changes *)
(* is queued (nodes, edges) and rendered later (shown): handlers read the  *)
(* rendered values, functional updates the queued ones.                    *)
(***************************************************************************)
EXTENDS Integers, Sequences, FiniteSets, SequencesExt

CONSTANTS
  Projects, Freqs,        \* what the top panel can ask for
  Titles,                 \* titles of nodes, and texts to search for
  Labels,                 \* labels of edges
  NewIds,                 \* ids the user may type into the panel
  Networks, ChainUid,     \* networksMap, and the network of a contract
  Contracts,              \* Contracts[p]: the answers getDashboard may give
  InitialNodes, InitialEdges,
  NewTitle,               \* title of an added node and of a contract
  MaxNodes,               \* bound: no node is added to a canvas of this size
  MaxFlight,              \* bound: requests of one kind and project in flight
  MaxActs,                \* bound: events of the user
  None

VARIABLES
  nodes, edges,           \* the state with every queued update applied
  shown,                  \* what is rendered
  panels,                 \* selectedNode and selectedEdge, with the panels' copies
                          \* and the network the dropdown holds; history: stale, the
                          \* canvas was replaced under them, and carried, the dropdown
                          \* holds what was chosen for a node selected before
  props,                  \* projectId and refreshFreq
  timers, timerRef,       \* live intervals, and the one the ref holds
  requests,               \* calls of loadDashboard that are not answered
  reading,                \* the file a FileReader is reading
  store, disk,            \* localStorage by project, the exported file
  acts,                   \* events so far, and the clock
  gone                    \* history: ids that left the canvas without their edges

view == <<nodes, edges, shown, panels, gone>>
polling == <<props, timers, timerRef>>
kept == <<reading, store, disk>>
vars == <<view, polling, kept, requests, acts>>

Ids(ns) == {ns[i].id : i \in DOMAIN ns}
Ends(e) == {e.source, e.target}
EdgeId(e) == <<e.source, e.target>>
Canvas == [nodes |-> nodes, edges |-> edges]
Kinds == {"telemetry", "topology"}

(* A node and an edge as the code makes them. *)
NewNode(id) == [id |-> id, title |-> NewTitle, network |-> None, telemetry |-> None,
                selected |-> FALSE]
NewEdge(a, b) == [source |-> a, target |-> b, label |-> None, selected |-> FALSE]

(* The project the page starts with; ids that are no numbers are negative here. *)
DefaultNodes == <<-1, 2134, -2, 2134, 2135, 2136, 956, -3, -4>>
DefaultEdges == {<<2134, 2135>>, <<2134, 2136>>}

ASSUME DefaultAnchored == \A e \in DefaultEdges : {e[1], e[2]} \subseteq ToSet(DefaultNodes)
ASSUME InitialAnchored == \A e \in InitialEdges : Ends(e) \subseteq Ids(InitialNodes)

Node == [id : Int, title : Titles \cup {NewTitle}, network : Networks \cup {ChainUid, None},
         telemetry : Int \cup {None}, selected : BOOLEAN]
Edge == [source : Int, target : Int, label : Labels \cup {None}, selected : BOOLEAN]
Canvases == [nodes : Seq(Node), edges : SUBSET Edge]

ASSUME DiagramAssumption ==
  /\ InitialNodes \in Seq(Node)
  /\ \A i \in DOMAIN InitialNodes : InitialNodes[i].telemetry \in {None, InitialNodes[i].id}
  /\ InitialEdges \subseteq Edge /\ IsFiniteSet(InitialEdges)
  /\ \A p \in Projects : \A contracts \in Contracts[p] : contracts \in Seq(Int)
  /\ NewIds \subseteq Int
  /\ MaxFlight \in Nat /\ MaxActs \in Nat

Update(ns, F(_)) == [i \in DOMAIN ns |-> F(ns[i])]

(* React Flow keeps the nodes in a map by id: of two with one id the later counts. *)
Internals(ns) ==
  {ns[i] : i \in {k \in DOMAIN ns : \A j \in DOMAIN ns : j > k => ns[j].id # ns[k].id}}

Selection(canvas) ==
  [nodes |-> {n \in Internals(canvas.nodes) : n.selected},
   edges |-> {e \in canvas.edges : e.selected}]

SelectedIds(canvas) ==
  [nodes |-> {n.id : n \in Selection(canvas).nodes},
   edges |-> {EdgeId(e) : e \in Selection(canvas).edges}]

(* What a panel shows: the copies its effect takes of a node or an edge. *)
NodePanel(n) == [id |-> n.id, title |-> n.title, network |-> n.network]
EdgePanel(e) == [source |-> e.source, target |-> e.target, label |-> e.label]
NoPanels == [node |-> None, edge |-> None, network |-> None, stale |-> FALSE, carried |-> FALSE]
The(S) == CHOOSE x \in S : TRUE

(* networksMap.get: the dropdown and the canvas show nothing for another uid. *)
Looked(network) == IF network \in Networks THEN network ELSE None

(* The panels with another selection.  The dropdown takes the network of the node   *)
(* when it is mounted and when the next node has another one; between two nodes    *)
(* that were selected with the same network it keeps what it holds.                *)
Opened(given, node, edge) ==
  LET keeps == given.node # None /\ node # None /\ given.node.network = node.network
  IN [node |-> node, edge |-> edge, stale |-> FALSE,
      network |-> IF keeps THEN given.network
                  ELSE IF node # None THEN Looked(node.network) ELSE None,
      carried |-> keeps /\ given.network # Looked(node.network)]

\* mutant: the panel of a node stays open beside that of an edge
OnSelectionChangeKeepsNode(sel, given) ==
  IF Cardinality(sel.edges) = 1
  THEN Opened(given, given.node, EdgePanel(The(sel.edges)))
  ELSE IF Cardinality(sel.nodes) = 1
       THEN Opened(given, NodePanel(The(sel.nodes)), None)
       ELSE NoPanels

OnSelectionChange(sel, given) ==
  IF Cardinality(sel.edges) = 1
  THEN Opened(given, None, EdgePanel(The(sel.edges)))
  ELSE IF Cardinality(sel.nodes) = 1
       THEN Opened(given, NodePanel(The(sel.nodes)), None)
       ELSE NoPanels

(* A render: React Flow's listener fires when other ids are selected than before. *)
Listened(before, after, given) ==
  IF SelectedIds(before) = SelectedIds(after) THEN given
  ELSE OnSelectionChange(Selection(after), given)

Commit(ns, es, given) ==
  LET after == [nodes |-> ns, edges |-> es]
  IN /\ nodes' = ns
     /\ edges' = es
     /\ shown' = after
     /\ panels' = Listened(shown, after, given)

Queue(ns, es) ==
  /\ nodes' = ns
  /\ edges' = es
  /\ UNCHANGED <<shown, panels>>

User ==
  /\ acts < MaxActs
  /\ acts' = acts + 1
-----------------------------------------------------------------------------
Init ==
  /\ nodes = InitialNodes
  /\ edges = InitialEdges
  /\ shown = Canvas
  /\ panels = NoPanels
  /\ props \in [projectId : Projects, refreshFreq : Freqs]
  /\ timers = {[id |-> 1, props |-> props]}
  /\ timerRef = 1
  /\ requests = [r \in Kinds \X Projects |-> 0]
  /\ reading = None
  /\ store = [p \in Projects |-> None]
  /\ disk = None
  /\ acts = 0
  /\ gone = {}

\* mutant: the effect has no cleanup and clears nothing
PollEffectAdds(new) ==
  LET id == Cardinality(timers) + 1
  IN /\ timers' = timers \cup {[id |-> id, props |-> new]}
     /\ timerRef' = id

(* The effect on projectId and refreshFreq: its old cleanup, then its body. *)
PollEffect(new) ==
  LET others == {t \in timers : t.id # timerRef}
      id == Cardinality(others) + 1
  IN /\ timers' = others \cup {[id |-> id, props |-> new]}
     /\ timerRef' = id

SetProps(new) ==
  /\ User
  /\ new # props
  /\ props' = new
  /\ PollEffect(new)
  /\ Commit(nodes, edges, panels)
  /\ UNCHANGED <<kept, requests, gone>>

(* loadDashboard starts: the project is the one of the render it was called in. *)
Ask(kind, project) ==
  /\ requests[kind, project] < MaxFlight
  /\ requests' = [requests EXCEPT ![<<kind, project>>] = @ + 1]

Answered(kind, project) ==
  /\ requests[kind, project] > 0
  /\ requests' = [requests EXCEPT ![<<kind, project>>] = @ - 1]

Tick(t) ==
  /\ Ask("telemetry", t.props.projectId)
  /\ UNCHANGED <<view, polling, kept, acts>>

OnRefresh ==
  /\ User
  /\ Ask("telemetry", props.projectId)
  /\ UNCHANGED <<view, polling, kept>>

OnTopology ==
  /\ User
  /\ Ask("topology", props.projectId)
  /\ UNCHANGED <<view, polling, kept>>

\* mutant: the first contract of the answer instead of the one with the id
FoundFirst(n, contracts) ==
  IF contracts # <<>> THEN [n EXCEPT !.telemetry = contracts[1]] ELSE n

(* The figures of the one contract that has the node's id. *)
Found(n, contracts) ==
  IF Cardinality({i \in DOMAIN contracts : contracts[i] = n.id}) = 1
  THEN [n EXCEPT !.telemetry = n.id]
  ELSE n

UpdateCounters(project) ==
  \E contracts \in Contracts[project] :
    /\ Answered("telemetry", project)
    /\ Queue(Update(nodes, LAMBDA n : Found(n, contracts)), edges)
    /\ UNCHANGED <<polling, kept, acts, gone>>

\* mutant: a contract makes a node without a title
ContractUntitled(id) == [NewNode(id) EXCEPT !.telemetry = id, !.network = ChainUid,
                                             !.title = None]

Contract(id) == [NewNode(id) EXCEPT !.telemetry = id, !.network = ChainUid]

\* mutant: setEdges is not called for a new topology
PopulateKeepsEdges(contracts) == Queue(Update(contracts, Contract), edges)

Populate(contracts) == Queue(Update(contracts, Contract), {})

TopologyAnswer(project) ==
  \E contracts \in Contracts[project] :
    /\ Answered("topology", project)
    /\ Populate(contracts)
    /\ UNCHANGED <<polling, kept, acts, gone>>

(* loadDashboard catches every error and answers null; both callers only tell. *)
LoadFails(kind, project) ==
  /\ Answered(kind, project)
  /\ UNCHANGED <<view, polling, kept, acts>>
-----------------------------------------------------------------------------
(* onConnect: addEdge keeps one edge between two handles. *)
OnConnect(a, b) ==
  /\ User
  /\ a # b
  /\ Commit(nodes,
            IF \E e \in edges : EdgeId(e) = <<a, b>> THEN edges
            ELSE edges \cup {NewEdge(a, b)},
            panels)
  /\ gone' = gone \cup ({a, b} \ Ids(nodes))
  /\ UNCHANGED <<polling, kept, requests>>

OnEdgeDoubleClick(edge) ==
  /\ User
  /\ Commit(nodes,
            {e \in edges : EdgeId(e) # EdgeId(edge)},
            panels)
  /\ UNCHANGED <<polling, kept, requests, gone>>

AddNode(id) ==
  /\ User
  /\ Len(nodes) < MaxNodes
  /\ Commit(Append(nodes, NewNode(id)), edges, panels)
  /\ UNCHANGED <<polling, kept, requests, gone>>

OnAddNode == AddNode(Len(shown.nodes) + 1)

(* The id is the time: no other node has it. *)
OnAddGPTNode == AddNode(- acts)

(* The nodes with other ids, in their order. *)
Without(ns, ids) ==
  LET staying == {i \in DOMAIN ns : ns[i].id \notin ids}
      rank(i) == Cardinality({j \in staying : j <= i})
  IN [k \in 1..Cardinality(staying) |-> ns[CHOOSE i \in staying : rank(i) = k]]

(* The delete key: React Flow removes the selected elements and calls onNodesDelete. *)
OnNodesDelete ==
  LET chosen == SelectedIds(shown)
  IN /\ User
     /\ chosen.nodes # {} \/ chosen.edges # {}
     /\ Commit(Without(nodes, chosen.nodes),
               {e \in edges : EdgeId(e) \notin chosen.edges /\ Ends(e) \cap chosen.nodes = {}},
               panels)
     /\ UNCHANGED <<polling, kept, requests, gone>>

(* React Flow changes the selected flag of what it shows with another flag. *)
Flagged(ids, es) ==
  LET chosen == SelectedIds(shown)
      flip(n) == n.id \in Ids(shown.nodes) /\ (n.id \in ids) # (n.id \in chosen.nodes)
      turn(e) == /\ EdgeId(e) \in {EdgeId(f) : f \in shown.edges}
                 /\ (EdgeId(e) \in es) # (EdgeId(e) \in chosen.edges)
  IN Commit(Update(nodes, LAMBDA n : IF flip(n) THEN [n EXCEPT !.selected = n.id \in ids]
                                     ELSE n),
            {IF turn(e) THEN [e EXCEPT !.selected = EdgeId(e) \in es] ELSE e : e \in edges},
            IF ids = {} /\ es = {} THEN NoPanels ELSE panels)

Select(ids, es) ==
  /\ User
  /\ ids # {} \/ es # {}
  /\ Flagged(ids, es)
  /\ UNCHANGED <<polling, kept, requests, gone>>

OnPaneClick ==
  /\ User
  /\ Flagged({}, {})
  /\ UNCHANGED <<polling, kept, requests, gone>>

(* The effect on searchText: the first node with the title is selected, or none. *)
Search(text) ==
  LET found == {i \in DOMAIN nodes : nodes[i].title = text}
      first == CHOOSE i \in found : \A j \in found : i <= j
      rendered == Listened(shown, Canvas, panels)
      match(n) == [n EXCEPT !.selected = found # {} /\ n.id = nodes[first].id]
      ns == Update(nodes, match)
      after == [nodes |-> ns, edges |-> edges]
  IN /\ User
     /\ nodes' = ns
     /\ shown' = after
     /\ panels' = Listened(Canvas, after,
                   [Opened(rendered, IF found = {} THEN None ELSE NodePanel(nodes[first]),
                           rendered.edge) EXCEPT !.stale = rendered.stale])
     /\ UNCHANGED <<edges, polling, kept, requests, gone>>
-----------------------------------------------------------------------------
\* mutant: the edit reaches the canvas and not the panel's copy
EditNodeOnly(title) ==
  /\ User
  /\ panels.node # None
  /\ Commit(Update(nodes, LAMBDA n : IF n.id = panels.node.id
                                      THEN [n EXCEPT !.title = title] ELSE n),
            edges, panels)
  /\ UNCHANGED <<polling, kept, requests, gone>>

(* The panel of a node: title, address, icon and tags go into data and the copy. *)
EditNode(title) ==
  /\ User
  /\ panels.node # None
  /\ Commit(Update(nodes, LAMBDA n : IF n.id = panels.node.id
                                      THEN [n EXCEPT !.title = title] ELSE n),
            edges, [panels EXCEPT !.node.title = title])
  /\ UNCHANGED <<polling, kept, requests, gone>>

(* A choice in the dropdown goes into data only; the node selected keeps its own. *)
EditNetwork(network) ==
  /\ User
  /\ panels.node # None
  /\ Commit(Update(nodes, LAMBDA n : IF n.id = panels.node.id
                                      THEN [n EXCEPT !.network = network] ELSE n),
            edges, [panels EXCEPT !.network = network, !.carried = FALSE])
  /\ UNCHANGED <<polling, kept, requests, gone>>

EditNodeId(id) ==
  /\ User
  /\ panels.node # None
  /\ Commit(Update(nodes, LAMBDA n : IF n.id = panels.node.id
                                      THEN [n EXCEPT !.id = id] ELSE n),
            edges, panels)
  /\ gone' = gone \cup ({panels.node.id} \ {id})
  /\ UNCHANGED <<polling, kept, requests>>

EditEdge(label) ==
  LET old == panels.edge
  IN /\ User
     /\ old # None
     /\ Commit(nodes,
               {IF EdgeId(e) = EdgeId(old) THEN [e EXCEPT !.label = label] ELSE e : e \in edges},
               [panels EXCEPT !.edge.label = label])
     /\ UNCHANGED <<polling, kept, requests, gone>>

(* The sidebar: snapshots are of what is rendered. *)
OnSave ==
  /\ User
  /\ store' = [store EXCEPT ![props.projectId] = shown]
  /\ UNCHANGED <<view, polling, requests, reading, disk>>

OnRestore ==
  LET saved == store[props.projectId]
  IN /\ User
     /\ saved # None
     /\ Commit(saved.nodes, saved.edges, [panels EXCEPT !.stale = TRUE])
     /\ UNCHANGED <<polling, kept, requests, gone>>

HandleClearAll ==
  /\ User
  /\ Commit(<<>>, edges, panels)
  /\ gone' = gone \cup Ids(nodes)
  /\ UNCHANGED <<polling, kept, requests>>

OnExport ==
  /\ User
  /\ disk' = shown
  /\ UNCHANGED <<view, polling, requests, reading, store>>

OnImport ==
  /\ User
  /\ disk # None
  /\ reading' = disk
  /\ UNCHANGED <<view, polling, requests, store, disk>>

(* reader.onload *)
Imported ==
  /\ reading # None
  /\ nodes' = reading.nodes
  /\ edges' = reading.edges
  /\ panels' = [panels EXCEPT !.stale = TRUE]
  /\ reading' = None
  /\ UNCHANGED <<shown, polling, requests, store, disk, acts, gone>>

Render ==
  /\ shown # Canvas
  /\ Commit(nodes, edges, panels)
  /\ UNCHANGED <<polling, kept, requests, acts, gone>>

Sidebar ==
  \/ OnAddNode \/ OnAddGPTNode \/ OnSave \/ OnRestore \/ HandleClearAll
  \/ OnExport \/ OnImport \/ OnRefresh \/ OnTopology

Board ==
  \/ \E a, b \in Ids(shown.nodes) : OnConnect(a, b)
  \/ \E e \in shown.edges : OnEdgeDoubleClick(e)
  \/ OnNodesDelete
  \/ \E ids \in SUBSET Ids(shown.nodes), es \in SUBSET {EdgeId(e) : e \in shown.edges} :
       Select(ids, es)
  \/ OnPaneClick

Panels ==
  \/ \E t \in Titles : EditNode(t)
  \/ \E w \in Networks : EditNetwork(w)
  \/ \E id \in NewIds : EditNodeId(id)
  \/ \E l \in Labels : EditEdge(l)

Wakes ==
  \/ \E t \in timers : Tick(t)
  \/ \E p \in Projects : UpdateCounters(p) \/ TopologyAnswer(p)
  \/ \E k \in Kinds, p \in Projects : LoadFails(k, p)
  \/ Imported
  \/ Render

Next ==
  \/ Sidebar
  \/ Board
  \/ Panels
  \/ \E new \in [projectId : Projects, refreshFreq : Freqs] : SetProps(new)
  \/ \E t \in Titles \cup {""} : Search(t)
  \/ Wakes

Spec == Init /\ [][Next]_vars
-----------------------------------------------------------------------------
(* The types of the canvas, as rendered, as queued and as saved, of the      *)
(* panels, the intervals and the requests; a node has a title to search in.  *)
TypeOK ==
  /\ \A c \in {Canvas, shown} : c \in Canvases
  /\ \A c \in {reading, disk} \cup {store[p] : p \in Projects} :
       c = None \/ c \in Canvases
  /\ panels.node # None =>
       panels.node \in [id : Int, title : Titles \cup {NewTitle},
                        network : Networks \cup {ChainUid, None}]
  /\ panels.network \in Networks \cup {None}
  /\ panels.edge # None =>
       panels.edge \in [source : Int, target : Int, label : Labels \cup {None}]
  /\ props \in [projectId : Projects, refreshFreq : Freqs]
  /\ timers \subseteq [id : Nat, props : [projectId : Projects, refreshFreq : Freqs]]
  /\ requests \in [Kinds \X Projects -> 0..MaxFlight]
  /\ acts \in 0..MaxActs

(* However the project and the frequency change, one interval is alive: the  *)
(* one the ref holds, and it polls the project and frequency of the last     *)
(* render (DiagramEditor.tsx:102-142, an effect with both a cleanup and a    *)
(* clear of its own).                                                        *)
OnePoller == timers = {[id |-> timerRef, props |-> props]}

(* The figures on a node are those of the contract with the node's id, unless *)
(* the user has renamed the node since, whichever answers of whichever        *)
(* projects arrive in whichever order.                                        *)
TelemetryIsOwn ==
  \A i \in DOMAIN nodes :
    nodes[i].telemetry \in {None, nodes[i].id} \cup gone

(* No edge hangs in the air: an end that is no node of the canvas has left it *)
(* by Clear or by a change of its id, or was connected while the canvas was   *)
(* being replaced; never by a deletion, a new topology or a snapshot.         *)
EdgesAnchored == \A e \in edges : Ends(e) \subseteq Ids(nodes) \cup gone

(* A panel that is open shows what is selected on the canvas, and nothing else *)
(* of its kind is selected: an edit in the panel never goes to another node.   *)
PanelShowsSelection ==
  /\ panels.node # None => SelectedIds(shown).nodes = {panels.node.id}
  /\ panels.edge # None => SelectedIds(shown).edges = {EdgeId(panels.edge)}

(* The copies in the panels agree with the canvas, unless a snapshot replaced *)
(* the canvas and the same element is selected in it.  The network shown is   *)
(* that of the node too, with one exception: chosen for one node, it stays    *)
(* when the next node selected has the network the first one was selected     *)
(* with, and the panel is then wrong (NodePropertyPanel.tsx:74-76,            *)
(* NetworkDropdown.tsx:12-22).                                                *)
ShowsNode(p, n) ==
  /\ n.id = p.node.id /\ n.title = p.node.title
  /\ IF p.carried THEN n.network = p.node.network ELSE Looked(n.network) = p.network

PanelFresh ==
  \/ panels.stale
  \/ /\ panels.node # None => \E i \in DOMAIN shown.nodes : ShowsNode(panels, shown.nodes[i])
     /\ panels.edge # None => \E e \in shown.edges : EdgePanel(e) = panels.edge
=============================================================================
