------------------------ MODULE DiagramEditorProofs ------------------------
(***************************************************************************)
(* What holds of the topology editor for any projects, frequencies,        *)
(* titles, contracts and canvases and any number of events: one interval   *)
(* polls; every canvas it holds is well formed, with its edges anchored    *)
(* and its figures its own; and an open panel is that of the one element   *)
(* that is selected.  The last needs an invariant of two canvases, the     *)
(* rendered one and the one with every queued update applied.              *)
(***************************************************************************)
EXTENDS DiagramEditor, FiniteSetTheorems, WellFoundedInduction, TLAPS

(* The cleanup takes the interval of the ref away, and it was the only one. *)
LEMMA Repolls ==
  ASSUME OnePoller, NEW new, props' = new, PollEffect(new)
  PROVE  OnePoller'
<1>. DEFINE others == {t \in timers : t.id # timerRef}
<1>1. others = {} BY DEF OnePoller
<1>2. Cardinality({}) + 1 = 1 BY FS_EmptySet
<1>3. timers' = {[id |-> 1, props |-> new]} /\ timerRef' = 1
  BY <1>1, <1>2 DEF PollEffect
<1>. QED BY <1>3 DEF OnePoller

LEMMA SamePoller == OnePoller /\ UNCHANGED polling => OnePoller'
BY DEF OnePoller, polling

LEMMA SidebarKeeps == Sidebar => UNCHANGED polling
BY DEF Sidebar, OnAddNode, OnAddGPTNode, AddNode, OnSave, OnRestore, HandleClearAll, OnExport,
       OnImport, OnRefresh, OnTopology, polling

LEMMA BoardKeeps == Board => UNCHANGED polling
BY DEF Board, OnConnect, OnEdgeDoubleClick, OnNodesDelete, Select, OnPaneClick, polling

LEMMA PanelsKeep == Panels => UNCHANGED polling
BY DEF Panels, EditNode, EditNetwork, EditNodeId, EditEdge, polling

LEMMA WakesKeep == Wakes => UNCHANGED polling
BY DEF Wakes, Tick, UpdateCounters, TopologyAnswer, LoadFails, Imported, Render, polling

LEMMA StepPoller == OnePoller /\ [Next]_vars => OnePoller'
<1>. SUFFICES ASSUME OnePoller, [Next]_vars PROVE OnePoller'
  OBVIOUS
<1>1. CASE Sidebar \/ Board \/ Panels \/ Wakes
  BY <1>1, SidebarKeeps, BoardKeeps, PanelsKeep, WakesKeep, SamePoller
<1>2. ASSUME NEW new \in [projectId : Projects, refreshFreq : Freqs], SetProps(new)
      PROVE OnePoller'
  BY <1>2, Repolls DEF SetProps
<1>3. CASE \E t \in Titles \cup {""} : Search(t)
  <2>1. UNCHANGED polling BY <1>3 DEF Search, polling
  <2>. QED BY <2>1, SamePoller
<1>4. CASE UNCHANGED vars
  <2>1. UNCHANGED polling BY <1>4 DEF vars, polling
  <2>. QED BY <2>1, SamePoller
<1>. QED BY <1>1, <1>2, <1>3, <1>4 DEF Next

(* However often the project and the frequency change, one interval polls, with *)
(* the project and the frequency of the last render (DiagramEditor.tsx:102-142). *)
THEOREM OnePolls == Spec => []OnePoller
<1>1. Init => OnePoller BY DEF Init, OnePoller
<1>. QED BY <1>1, StepPoller, PTL DEF Spec
-----------------------------------------------------------------------------
(* Every non-empty set of natural numbers has a least member, and a bounded   *)
(* one a greatest.                                                            *)
LEMMA Least == ASSUME NEW S \in SUBSET Nat, S # {} PROVE \E x \in S : \A y \in S : x <= y
<1>. DEFINE R == OpToRel(<, Nat)
<1>1. IsWellFoundedOn(R, Nat) BY NatLessThanWellFounded, Zenon
<1>2. PICK x \in S : \A y \in S : ~ (<<y, x>> \in R) BY <1>1, WFMin, Zenon
<1>3. \A m, n \in Nat : <<m, n>> \in R <=> m < n BY DEF OpToRel
<1>. HIDE DEF R
<1>4. \A y \in S : ~(y < x) BY <1>2, <1>3
<1>5. x \in Nat /\ \A y \in S : y \in Nat OBVIOUS
<1>. QED BY <1>4, <1>5

LEMMA Greatest ==
  ASSUME NEW n \in Nat, NEW S \in SUBSET (1..n), S # {}
  PROVE  \E x \in S : \A y \in S : y <= x
<1>. DEFINE T == {n - y : y \in S}
<1>1. T \in SUBSET Nat /\ T # {}
  <2>1. \A y \in S : n - y \in Nat
    <3>1. \A y \in 1..n : n - y \in Nat OBVIOUS
    <3>. QED BY <3>1
  <2>. QED BY <2>1
<1>. HIDE DEF T
<1>2. PICK t \in T : \A u \in T : t <= u BY <1>1, Least
<1>3. PICK x \in S : t = n - x BY DEF T
<1>4. \A y \in S : n - x <= n - y BY <1>2, <1>3 DEF T
<1>5. x \in Int /\ \A y \in S : y \in Int OBVIOUS
<1>. QED BY <1>4, <1>5

(* The elements of a sequence, and what a change of each makes of it. *)
LEMMA Elements ==
  ASSUME NEW T, NEW s \in Seq(T)
  PROVE  /\ Len(s) \in Nat /\ DOMAIN s = 1..Len(s)
         /\ \A i \in DOMAIN s : s[i] \in T
OBVIOUS

LEMMA Mapped ==
  ASSUME NEW T, NEW U, NEW s \in Seq(T), NEW f,
         f = [i \in DOMAIN s |-> f[i]], \A i \in DOMAIN s : f[i] \in U
  PROVE  f \in Seq(U)
<1>1. DOMAIN s = 1..Len(s) /\ Len(s) \in Nat OBVIOUS
<1>2. f \in [1..Len(s) -> U] BY <1>1
<1>. QED BY <1>1, <1>2

(* A filter keeps the elements that pass, and only those. *)
Upto(S, i) == {j \in S : j <= i}

LEMMA RankGrows ==
  ASSUME NEW n \in Nat, NEW S \in SUBSET (1..n)
  PROVE  /\ IsFiniteSet(S) /\ Cardinality(S) \in Nat
         /\ \A i \in S : Cardinality(Upto(S, i)) \in 1..Cardinality(S)
         /\ \A i, j \in S : Cardinality(Upto(S, i)) = Cardinality(Upto(S, j)) => i = j
<1>1. IsFiniteSet(1..n) BY FS_Interval
<1>2. IsFiniteSet(S) BY <1>1, FS_Subset
<1>3. Cardinality(S) \in Nat BY <1>2, FS_CardinalityType
<1>4. \A i \in S : i \in Upto(S, i) /\ Upto(S, i) \in SUBSET S BY DEF Upto
<1>5. \A i, j \in S : i < j => j \in Upto(S, j) /\ j \notin Upto(S, i)
                              /\ Upto(S, i) \in SUBSET Upto(S, j)
  <2>. SUFFICES ASSUME NEW i \in S, NEW j \in S, i < j
                PROVE  j \in Upto(S, j) /\ j \notin Upto(S, i)
                       /\ \A k \in S : k <= i => k <= j
    BY DEF Upto
  <2>1. i \in Int /\ j \in Int /\ \A k \in S : k \in Int OBVIOUS
  <2>. QED BY <2>1 DEF Upto
<1>6. ASSUME NEW i \in S PROVE Cardinality(Upto(S, i)) \in 1..Cardinality(S)
  <2>1. IsFiniteSet(Upto(S, i)) /\ Cardinality(Upto(S, i)) <= Cardinality(S)
    BY <1>2, <1>4, FS_Subset
  <2>2. Cardinality(Upto(S, i)) \in Nat BY <2>1, FS_CardinalityType
  <2>3. Cardinality(Upto(S, i)) # 0 BY <1>4, <2>1, FS_EmptySet
  <2>. QED BY <1>3, <2>1, <2>2, <2>3
<1>7. ASSUME NEW i \in S, NEW j \in S, i < j
      PROVE  Cardinality(Upto(S, i)) # Cardinality(Upto(S, j))
  <2>1. IsFiniteSet(Upto(S, j)) BY <1>2, <1>4, FS_Subset
  <2>. QED BY <1>5, <1>7, <2>1, FS_Subset
<1>8. \A i, j \in S : i = j \/ i < j \/ j < i
  <2>1. \A i \in S : i \in Int OBVIOUS
  <2>. QED BY <2>1
<1>. QED BY <1>2, <1>3, <1>6, <1>7, <1>8

LEMMA Ranked ==
  ASSUME NEW n \in Nat, NEW S \in SUBSET (1..n), NEW k \in 1..Cardinality(S)
  PROVE  \E i \in S : Cardinality(Upto(S, i)) = k
<1>. DEFINE f == [i \in S |-> Cardinality(Upto(S, i))]
            c == Cardinality(S)
<1>1. c \in Nat /\ IsFiniteSet(S) BY RankGrows
<1>2. f \in Injection(S, 1..c)
  BY RankGrows DEF Injection, IsInjective
<1>. HIDE DEF c
<1>3. IsFiniteSet(1..c) /\ Cardinality(1..c) = IF 1 > c THEN 0 ELSE c - 1 + 1
  BY <1>1, FS_Interval
<1>4. Cardinality(1..c) = c BY <1>1, <1>3
<1>5. f \in Surjection(S, 1..c)
  <2>. HIDE DEF f
  <2>. QED BY <1>2, <1>3, <1>4, FS_Injection DEF c
<1>6. \E i \in S : f[i] = k
  BY <1>5 DEF Surjection, c
<1>. QED BY <1>6

LEMMA WithoutKeeps ==
  ASSUME NEW ns \in Seq(Node), NEW ids, NEW w, w = Without(ns, ids)
  PROVE  /\ w \in Seq(Node)
         /\ Ids(w) = Ids(ns) \ ids
         /\ \A k \in DOMAIN w : \E i \in DOMAIN ns : ns[i].id \notin ids /\ w[k] = ns[i]
         /\ \A i \in DOMAIN ns : ns[i].id \notin ids => \E k \in DOMAIN w : w[k] = ns[i]
<1>. DEFINE staying == {i \in DOMAIN ns : ns[i].id \notin ids}
            rank(i) == Cardinality(Upto(staying, i))
            at(k) == CHOOSE i \in staying : rank(i) = k
            c == Cardinality(staying)
<1>1. Len(ns) \in Nat /\ DOMAIN ns = 1..Len(ns) /\ \A i \in DOMAIN ns : ns[i] \in Node
  BY Elements
<1>2. staying \in SUBSET (1..Len(ns)) BY <1>1
<1>3. w = [k \in 1..c |-> ns[at(k)]]
  BY DEF Without, Upto
<1>4. \A i \in staying : i \in DOMAIN ns /\ ns[i].id \notin ids OBVIOUS
<1>5. \A i \in DOMAIN ns : ns[i].id \notin ids => i \in staying OBVIOUS
<1>. HIDE DEF staying
<1>6. /\ c \in Nat
      /\ \A i \in staying : rank(i) \in 1..c
      /\ \A i, j \in staying : rank(i) = rank(j) => i = j
  BY <1>1, <1>2, RankGrows
<1>7. \A k \in 1..c : at(k) \in staying /\ rank(at(k)) = k
  <2>. TAKE k \in 1..c
  <2>1. \E i \in staying : rank(i) = k
    BY <1>1, <1>2, Ranked
  <2>. HIDE DEF rank
  <2>. QED BY <2>1
<1>. HIDE DEF at, rank, c
<1>8. \A i \in staying : rank(i) \in 1..c /\ at(rank(i)) = i
  BY <1>6, <1>7
<1>9. DOMAIN w = 1..c /\ \A k \in 1..c : w[k] = ns[at(k)] /\ at(k) \in staying
  BY <1>3, <1>7
<1>10. \A k \in 1..c : w[k] \in Node
  BY <1>1, <1>4, <1>9
<1>11. w \in Seq(Node)
  <2>1. w \in [1..c -> Node] BY <1>3, <1>9, <1>10
  <2>. QED BY <2>1, <1>6
<1>12. \A k \in DOMAIN w : \E i \in DOMAIN ns : ns[i].id \notin ids /\ w[k] = ns[i]
  BY <1>4, <1>9
<1>13. \A i \in DOMAIN ns : ns[i].id \notin ids => \E k \in DOMAIN w : w[k] = ns[i]
  BY <1>5, <1>8, <1>9
<1>14. Ids(w) = Ids(ns) \ ids
  BY <1>12, <1>13 DEF Ids
<1>. QED BY <1>11, <1>12, <1>13, <1>14

-----------------------------------------------------------------------------
(* What the editor keeps true, beyond the properties: every canvas it holds, *)
(* rendered, queued or saved, is well formed, its edges end at its nodes and *)
(* its figures are its nodes' own, but for what has left a canvas;           *)
Saved == ({reading, disk} \cup {store[p] : p \in Projects}) \ {None}
Sound(c) == c \in Canvases /\ IsFiniteSet(c.edges)
AnchoredIn(c, left) == \A e \in c.edges : Ends(e) \subseteq Ids(c.nodes) \cup left
OwnIn(c, left) ==
  \A i \in DOMAIN c.nodes : c.nodes[i].telemetry \in {None, c.nodes[i].id} \cup left
Good(c, left) == Sound(c) /\ AnchoredIn(c, left) /\ OwnIn(c, left)
CanvasInv == \A c \in {Canvas, shown} \cup Saved : Good(c, gone)

(* the panels hold copies of a node and of an edge;                          *)
NodeCopy == [id : Int, title : Titles \cup {NewTitle}, network : Networks \cup {ChainUid, None}]
EdgeCopy == [source : Int, target : Int, label : Labels \cup {None}]
Copies == [node : NodeCopy \cup {None}, edge : EdgeCopy \cup {None},
           network : Networks \cup {None}, stale : BOOLEAN, carried : BOOLEAN]

(* the interval is the first and only one, and requests and events stay in   *)
(* their bounds;                                                             *)
PollInv ==
  /\ props \in [projectId : Projects, refreshFreq : Freqs]
  /\ timers = {[id |-> 1, props |-> props]} /\ timerRef = 1
  /\ requests \in [Kinds \X Projects -> 0..MaxFlight]
  /\ acts \in 0..MaxActs
  /\ DOMAIN store = Projects

(* and the copies are of elements of the queued canvas too, or nothing in    *)
(* that one is selected, so that its render closes the panels.               *)
ShowsIn(c, p) ==
  /\ p.node # None => SelectedIds(c).nodes = {p.node.id}
  /\ p.edge # None => SelectedIds(c).edges = {EdgeId(p.edge)}
CopiedIn(c, p) ==
  /\ p.node # None => \E i \in DOMAIN c.nodes : ShowsNode(p, c.nodes[i])
  /\ p.edge # None => \E e \in c.edges : EdgePanel(e) = p.edge
Unselected(c) ==
  (\A i \in DOMAIN c.nodes : ~c.nodes[i].selected) /\ (\A e \in c.edges : ~e.selected)
PanelInv ==
  /\ panels \in Copies
  /\ ShowsIn(shown, panels)
  /\ panels.stale \/ CopiedIn(shown, panels)
  /\ panels.stale \/ Unselected(Canvas) \/ CopiedIn(Canvas, panels)

EditorInv == CanvasInv /\ PollInv /\ PanelInv
-----------------------------------------------------------------------------
(* The selection of a canvas is finite, and what the listener makes of it is *)
(* a copy of the one element selected.                                       *)
LEMMA SelectionFinite ==
  ASSUME NEW c, Sound(c)
  PROVE  /\ IsFiniteSet(Selection(c).nodes) /\ IsFiniteSet(Selection(c).edges)
         /\ \A n \in Selection(c).nodes : n \in Node /\ \E i \in DOMAIN c.nodes : n = c.nodes[i]
         /\ \A e \in Selection(c).edges : e \in Edge /\ e \in c.edges
<1>. DEFINE ns == c.nodes
            all == {ns[i] : i \in DOMAIN ns}
            f == [i \in DOMAIN ns |-> ns[i]]
            sn == {n \in Internals(ns) : n.selected}
            se == {e \in c.edges : e.selected}
<1>1. Selection(c).nodes = sn /\ Selection(c).edges = se BY DEF Selection
<1>2. ns \in Seq(Node) /\ c.edges \in SUBSET Edge /\ IsFiniteSet(c.edges)
  BY DEF Sound, Canvases
<1>3. DOMAIN ns = 1..Len(ns) /\ Len(ns) \in Nat /\ \A i \in DOMAIN ns : ns[i] \in Node
  BY <1>2, Elements
<1>. HIDE DEF ns
<1>4. IsFiniteSet(DOMAIN ns) BY <1>3, FS_Interval
<1>5. f \in Surjection(DOMAIN ns, all) BY DEF Surjection
<1>6. IsFiniteSet(all) BY <1>4, <1>5, FS_Surjection
<1>7. sn \in SUBSET all BY DEF Internals
<1>8. se \in SUBSET c.edges OBVIOUS
<1>9. IsFiniteSet(sn) /\ IsFiniteSet(se) BY <1>2, <1>6, <1>7, <1>8, FS_Subset
<1>10. \A n \in sn : n \in Node /\ \E i \in DOMAIN ns : n = ns[i] BY <1>3, <1>7
<1>11. \A e \in se : e \in Edge /\ e \in c.edges BY <1>2
<1>. QED BY <1>1, <1>9, <1>10, <1>11 DEF ns

LEMMA OnlyOne ==
  ASSUME NEW S, IsFiniteSet(S), Cardinality(S) = 1
  PROVE  The(S) \in S /\ S = {The(S)}
<1>1. PICK x : S = {x} BY FS_Singleton
<1>. QED BY <1>1 DEF The

LEMMA NodePanelType == \A n \in Node : NodePanel(n) \in NodeCopy /\ NodePanel(n).id = n.id
BY DEF Node, NodePanel, NodeCopy

LEMMA EdgePanelType ==
  \A e \in Edge : EdgePanel(e) \in EdgeCopy /\ EdgeId(EdgePanel(e)) = EdgeId(e)
BY DEF Edge, EdgePanel, EdgeCopy, EdgeId

LEMMA NoCopies ==
  /\ NoPanels \in Copies /\ NoPanels.node = None /\ NoPanels.edge = None /\ ~NoPanels.stale
  /\ \A c : ShowsIn(c, NoPanels) /\ CopiedIn(c, NoPanels)
BY DEF NoPanels, Copies, ShowsIn, CopiedIn

LEMMA SamePanel ==
  ASSUME NEW p, NEW n, NEW m, NodePanel(n) = NodePanel(m), ShowsNode(p, n)
  PROVE  ShowsNode(p, m)
BY DEF NodePanel, ShowsNode

(* However the selection changes, the panels that open show the node: the     *)
(* dropdown has its network, or carries another and the node keeps its own.   *)
LEMMA Opens ==
  ASSUME NEW given \in Copies, NEW node \in NodeCopy \cup {None},
         NEW edge \in EdgeCopy \cup {None},
         NEW p, p = Opened(given, node, edge)
  PROVE  /\ p \in Copies /\ p.node = node /\ p.edge = edge /\ ~p.stale
         /\ \A n : node # None /\ NodePanel(n) = node => ShowsNode(p, n)
<1>. DEFINE keeps == given.node # None /\ node # None /\ given.node.network = node.network
            network == IF keeps THEN given.network
                       ELSE IF node # None THEN Looked(node.network) ELSE None
            carried == keeps /\ given.network # Looked(node.network)
<1>1. p = [node |-> node, edge |-> edge, stale |-> FALSE, network |-> network,
           carried |-> carried]
  BY DEF Opened
<1>2. carried \in BOOLEAN OBVIOUS
<1>3. network \in Networks \cup {None} BY DEF Copies, Looked
<1>4. node # None => IF carried THEN TRUE ELSE Looked(node.network) = network
  OBVIOUS
<1>. HIDE DEF network, carried
<1>5. p \in Copies BY <1>1, <1>2, <1>3 DEF Copies
<1>6. /\ p.network = network /\ p.carried = carried /\ p.node = node
      /\ p.edge = edge /\ p.stale = FALSE
  BY <1>1
<1>7. \A n : NodePanel(n) = node =>
        n.id = node.id /\ n.title = node.title /\ n.network = node.network
  BY DEF NodePanel
<1>8. \A n : node # None /\ NodePanel(n) = node => ShowsNode(p, n)
  BY <1>4, <1>6, <1>7 DEF ShowsNode
<1>. QED BY <1>5, <1>6, <1>8

LEMMA Chosen ==
  ASSUME NEW c, Sound(c), NEW given \in Copies,
         NEW p, p = OnSelectionChange(Selection(c), given)
  PROVE  p \in Copies /\ ShowsIn(c, p) /\ CopiedIn(c, p) /\ ~p.stale
<1>. DEFINE sel == Selection(c)
<1>1. CASE Cardinality(sel.edges) = 1
  <2>. DEFINE e == The(sel.edges)
  <2>1. e \in sel.edges /\ sel.edges = {e} BY <1>1, SelectionFinite, OnlyOne
  <2>2. p = Opened(given, None, EdgePanel(e))
    BY <1>1 DEF OnSelectionChange
  <2>. HIDE DEF e, sel
  <2>3. e \in Edge /\ e \in c.edges BY <2>1, SelectionFinite DEF sel
  <2>4. EdgePanel(e) \in EdgeCopy /\ EdgeId(EdgePanel(e)) = EdgeId(e) BY <2>3, EdgePanelType
  <2>5. SelectedIds(c).edges = {EdgeId(e)} BY <2>1 DEF SelectedIds, sel
  <2>6. p \in Copies /\ p.node = None /\ p.edge = EdgePanel(e) /\ ~p.stale
    BY <2>2, <2>4, Opens
  <2>. QED BY <2>3, <2>4, <2>5, <2>6 DEF ShowsIn, CopiedIn
<1>2. CASE Cardinality(sel.edges) # 1 /\ Cardinality(sel.nodes) = 1
  <2>. DEFINE n == The(sel.nodes)
  <2>1. n \in sel.nodes /\ sel.nodes = {n} BY <1>2, SelectionFinite, OnlyOne
  <2>2. p = Opened(given, NodePanel(n), None)
    BY <1>2 DEF OnSelectionChange
  <2>. HIDE DEF n, sel
  <2>3. n \in Node /\ \E i \in DOMAIN c.nodes : n = c.nodes[i] BY <2>1, SelectionFinite DEF sel
  <2>4. NodePanel(n) \in NodeCopy /\ NodePanel(n).id = n.id BY <2>3, NodePanelType
  <2>5. SelectedIds(c).nodes = {n.id} BY <2>1 DEF SelectedIds, sel
  <2>6. /\ p \in Copies /\ p.edge = None /\ p.node = NodePanel(n) /\ ~p.stale
        /\ NodePanel(n) # None => ShowsNode(p, n)
    BY <2>2, <2>4, Opens
  <2>. QED BY <2>3, <2>4, <2>5, <2>6 DEF ShowsIn, CopiedIn
<1>3. CASE Cardinality(sel.edges) # 1 /\ Cardinality(sel.nodes) # 1
  <2>1. p = NoPanels BY <1>3 DEF OnSelectionChange
  <2>. QED BY <2>1, NoCopies
<1>. QED BY <1>1, <1>2, <1>3

(* A canvas where nothing is selected closes the panels when it is rendered. *)
LEMMA NothingSelected ==
  ASSUME NEW c, Unselected(c)
  PROVE  SelectedIds(c).nodes = {} /\ SelectedIds(c).edges = {}
BY DEF Unselected, SelectedIds, Selection, Internals

LEMMA SameShown ==
  ASSUME NEW c, NEW d, NEW p, ShowsIn(c, p), SelectedIds(c) = SelectedIds(d)
  PROVE  ShowsIn(d, p)
BY DEF ShowsIn

LEMMA ShowsNothing ==
  ASSUME NEW c, NEW p, ShowsIn(c, p), SelectedIds(c).nodes = {}, SelectedIds(c).edges = {}
  PROVE  p.node = None /\ p.edge = None
BY DEF ShowsIn

(* What the listener leaves: the panels it is given, if no other ids are     *)
(* selected, or copies of what is.                                           *)
Tied(given, p) ==
  /\ given.node # None => p.node # None /\ given.node.id = p.node.id
  /\ given.edge # None => p.edge # None /\ EdgeId(given.edge) = EdgeId(p.edge)
Fits(before, after, given) ==
  SelectedIds(before) = SelectedIds(after) => given.stale \/ CopiedIn(after, given)

LEMMA TiedShows ==
  ASSUME NEW c, NEW p, NEW given, ShowsIn(c, p), Tied(given, p)
  PROVE  ShowsIn(c, given)
BY DEF ShowsIn, Tied

LEMMA ListenedShows ==
  ASSUME NEW before, NEW after, NEW given, NEW p, Sound(after), given \in Copies,
         SelectedIds(before) = SelectedIds(after) => ShowsIn(before, given),
         Fits(before, after, given), p = Listened(before, after, given)
  PROVE  p \in Copies /\ ShowsIn(after, p) /\ (p.stale \/ CopiedIn(after, p))
<1>1. CASE SelectedIds(before) = SelectedIds(after)
  <2>1. p = given BY <1>1 DEF Listened
  <2>2. ShowsIn(after, p) BY <1>1, <2>1, SameShown
  <2>. QED BY <1>1, <2>1, <2>2 DEF Fits
<1>2. CASE SelectedIds(before) # SelectedIds(after)
  <2>1. p = OnSelectionChange(Selection(after), given) BY <1>2 DEF Listened
  <2>. QED BY <2>1, Chosen
<1>. QED BY <1>1, <1>2

(* What a render keeps: the canvas is good, and the panels fit it.           *)
LEMMA CommitKeeps ==
  ASSUME EditorInv, NEW ns, NEW es, NEW given, Commit(ns, es, given),
         Good([nodes |-> ns, edges |-> es], gone'), gone \subseteq gone',
         given \in Copies, Tied(given, panels),
         Fits(shown, [nodes |-> ns, edges |-> es], given), UNCHANGED kept
  PROVE  CanvasInv' /\ PanelInv'
<1>. DEFINE after == [nodes |-> ns, edges |-> es]
<1>1. /\ nodes' = ns /\ edges' = es /\ shown' = after
      /\ panels' = Listened(shown, after, given)
      /\ Good(after, gone') /\ Fits(shown, after, given)
  BY DEF Commit
<1>2. Canvas' = after BY <1>1 DEF Canvas
<1>. HIDE DEF after
<1>3. ShowsIn(shown, given) BY TiedShows DEF EditorInv, PanelInv
<1>4. panels' \in Copies /\ ShowsIn(after, panels') /\ (panels'.stale \/ CopiedIn(after, panels'))
  BY <1>1, <1>3, ListenedShows DEF Good
<1>5. PanelInv' BY <1>1, <1>2, <1>4 DEF PanelInv
<1>6. \A c \in Saved : Good(c, gone')
  <2>1. \A c \in Saved : Good(c, gone) BY DEF EditorInv, CanvasInv
  <2>. QED BY <2>1 DEF Good, AnchoredIn, OwnIn
<1>7. Saved' = Saved BY DEF Saved, kept
<1>8. CanvasInv' BY <1>1, <1>2, <1>6, <1>7 DEF CanvasInv
<1>. QED BY <1>5, <1>8

-----------------------------------------------------------------------------
LEMMA CanvasFacts ==
  ASSUME EditorInv
  PROVE  /\ nodes \in Seq(Node) /\ Len(nodes) \in Nat /\ DOMAIN nodes = 1..Len(nodes)
         /\ \A i \in DOMAIN nodes : nodes[i] \in Node
         /\ \A i \in DOMAIN nodes : nodes[i].telemetry \in {None, nodes[i].id} \cup gone
         /\ edges \in SUBSET Edge /\ IsFiniteSet(edges)
         /\ \A e \in edges : Ends(e) \subseteq Ids(nodes) \cup gone
<1>1. Good(Canvas, gone) BY DEF EditorInv, CanvasInv
<1>2. Canvas.nodes = nodes /\ Canvas.edges = edges BY DEF Canvas
<1>3. nodes \in Seq(Node) /\ edges \in SUBSET Edge /\ IsFiniteSet(edges)
  BY <1>1, <1>2 DEF Good, Sound, Canvases
<1>4. \A i \in DOMAIN nodes : nodes[i].telemetry \in {None, nodes[i].id} \cup gone
  BY <1>1, <1>2 DEF Good, OwnIn
<1>5. \A e \in edges : Ends(e) \subseteq Ids(nodes) \cup gone
  BY <1>1, <1>2 DEF Good, AnchoredIn
<1>. QED BY <1>3, <1>4, <1>5, Elements

LEMMA GoodOf ==
  ASSUME NEW ns \in Seq(Node), NEW es \in SUBSET Edge, IsFiniteSet(es), NEW left,
         \A i \in DOMAIN ns : ns[i].telemetry \in {None, ns[i].id} \cup left,
         \A e \in es : Ends(e) \subseteq Ids(ns) \cup left
  PROVE  Good([nodes |-> ns, edges |-> es], left)
BY DEF Good, Sound, Canvases, AnchoredIn, OwnIn

LEMMA GoodCanvas == EditorInv => Good([nodes |-> nodes, edges |-> edges], gone)
BY DEF EditorInv, CanvasInv, Canvas

(* An effect on the elements of the canvas that leaves the selection alone.  *)
LEMMA FitsCopied ==
  ASSUME EditorInv, NEW after, NEW given, Tied(given, panels), given.stale = panels.stale,
         SelectedIds(shown) = SelectedIds(after) /\ CopiedIn(Canvas, panels)
           => CopiedIn(after, given),
         SelectedIds(shown) = SelectedIds(after) /\ Unselected(Canvas)
           => Unselected(after) \/ (given.node = None /\ given.edge = None)
  PROVE  Fits(shown, after, given)
<1>. SUFFICES ASSUME SelectedIds(shown) = SelectedIds(after), ~panels.stale
              PROVE  CopiedIn(after, given)
  BY DEF Fits
<1>1. Unselected(Canvas) \/ CopiedIn(Canvas, panels) BY DEF EditorInv, PanelInv
<1>2. ShowsIn(after, given) BY TiedShows, SameShown DEF EditorInv, PanelInv
<1>3. CASE CopiedIn(Canvas, panels) BY <1>3
<1>4. CASE Unselected(Canvas)
  <2>1. given.node = None /\ given.edge = None
    BY <1>2, <1>4, NothingSelected, ShowsNothing
  <2>. QED BY <2>1 DEF CopiedIn
<1>. QED BY <1>1, <1>3, <1>4

LEMMA TiedSelf == Tied(panels, panels)
BY DEF Tied

LEMMA PanelTypes ==
  ASSUME EditorInv
  PROVE  /\ panels \in Copies
         /\ panels.node # None => panels.node \in NodeCopy
         /\ panels.edge # None => panels.edge \in EdgeCopy
BY DEF EditorInv, PanelInv, Copies

(* A render of the queued canvas as it is.                                   *)
LEMMA RenderKeeps ==
  ASSUME EditorInv, Commit(nodes, edges, panels), UNCHANGED <<kept, gone>>
  PROVE  CanvasInv' /\ PanelInv'
<1>. DEFINE after == [nodes |-> nodes, edges |-> edges]
<1>1. Good(after, gone) BY GoodCanvas
<1>2. after = Canvas BY DEF Canvas
<1>. HIDE DEF after
<1>3. Fits(shown, after, panels) BY <1>2, FitsCopied, TiedSelf
<1>. QED BY <1>1, <1>3, CommitKeeps, TiedSelf, PanelTypes DEF after

LEMMA NewEdgeType ==
  ASSUME NEW a \in Int, NEW b \in Int
  PROVE  NewEdge(a, b) \in Edge /\ Ends(NewEdge(a, b)) = {a, b} /\ ~NewEdge(a, b).selected
BY DEF NewEdge, Edge, Ends

LEMMA NewNodeType ==
  ASSUME NEW id \in Int
  PROVE  /\ NewNode(id) \in Node /\ NewNode(id).id = id
         /\ NewNode(id).telemetry = None /\ ~NewNode(id).selected
BY DEF NewNode, Node

LEMMA ShownIds == EditorInv => Ids(shown.nodes) \subseteq Int
<1>. SUFFICES ASSUME EditorInv PROVE Ids(shown.nodes) \subseteq Int OBVIOUS
<1>1. shown \in Canvases BY DEF EditorInv, CanvasInv, Good, Sound
<1>2. shown.nodes \in Seq(Node) BY <1>1 DEF Canvases
<1>3. \A i \in DOMAIN shown.nodes : shown.nodes[i] \in Node BY <1>2, Elements
<1>. QED BY <1>3 DEF Ids, Node

LEMMA ConnectKeeps ==
  ASSUME EditorInv, NEW a \in Int, NEW b \in Int, OnConnect(a, b)
  PROVE  CanvasInv' /\ PanelInv'
<1>. DEFINE es == IF \E e \in edges : EdgeId(e) = <<a, b>> THEN edges
                  ELSE edges \cup {NewEdge(a, b)}
            after == [nodes |-> nodes, edges |-> es]
<1>1. /\ Commit(nodes, es, panels) /\ UNCHANGED kept
      /\ gone' = gone \cup ({a, b} \ Ids(nodes))
  BY DEF OnConnect, kept
<1>2. /\ es \in SUBSET Edge /\ IsFiniteSet(es) /\ edges \subseteq es
      /\ \A e \in es : e \in edges \/ (Ends(e) = {a, b} /\ ~e.selected)
  <2>1. IsFiniteSet(edges \cup {NewEdge(a, b)}) BY CanvasFacts, FS_AddElement
  <2>. QED BY <2>1, CanvasFacts, NewEdgeType
<1>. HIDE DEF es
<1>3. \A e \in es : Ends(e) \subseteq Ids(nodes) \cup gone'
  BY <1>1, <1>2, CanvasFacts
<1>4. \A i \in DOMAIN nodes : nodes[i].telemetry \in {None, nodes[i].id} \cup gone'
  BY <1>1, CanvasFacts
<1>5. Good(after, gone') BY <1>2, <1>3, <1>4, CanvasFacts, GoodOf
<1>6. CopiedIn(Canvas, panels) => CopiedIn(after, panels) BY <1>2 DEF CopiedIn, Canvas
<1>7. Unselected(Canvas) => Unselected(after) BY <1>2 DEF Unselected, Canvas
<1>. HIDE DEF after
<1>8. Fits(shown, after, panels) BY <1>6, <1>7, FitsCopied, TiedSelf
<1>. QED BY <1>1, <1>5, <1>8, CommitKeeps, TiedSelf, PanelTypes DEF after

LEMMA EdgeRemovedKeeps ==
  ASSUME EditorInv, NEW edge, OnEdgeDoubleClick(edge)
  PROVE  CanvasInv' /\ PanelInv'
<1>. DEFINE es == {e \in edges : EdgeId(e) # EdgeId(edge)}
            after == [nodes |-> nodes, edges |-> es]
<1>1. Commit(nodes, es, panels) /\ UNCHANGED <<kept, gone>>
  BY DEF OnEdgeDoubleClick
<1>2. es \in SUBSET Edge /\ IsFiniteSet(es)
  BY CanvasFacts, FS_Subset
<1>3. Good(after, gone') BY <1>1, <1>2, CanvasFacts, GoodOf
<1>4. Unselected(Canvas) => Unselected(after) BY DEF Unselected, Canvas
<1>5. SelectedIds(shown) = SelectedIds(after) /\ CopiedIn(Canvas, panels)
        => CopiedIn(after, panels)
  <2>. SUFFICES ASSUME SelectedIds(shown) = SelectedIds(after), CopiedIn(Canvas, panels),
                       panels.edge # None
                PROVE  \E e \in es : EdgePanel(e) = panels.edge
    BY DEF CopiedIn, Canvas
  <2>1. SelectedIds(after).edges = {EdgeId(panels.edge)}
    BY DEF EditorInv, PanelInv, ShowsIn
  <2>2. PICK f \in es : EdgeId(f) = EdgeId(panels.edge)
    BY <2>1 DEF SelectedIds, Selection
  <2>3. PICK e \in edges : EdgePanel(e) = panels.edge BY DEF CopiedIn, Canvas
  <2>4. EdgeId(e) = EdgeId(panels.edge) BY <2>3, EdgePanelType, CanvasFacts
  <2>. QED BY <2>2, <2>3, <2>4
<1>. HIDE DEF after, es
<1>6. Fits(shown, after, panels) BY <1>4, <1>5, FitsCopied, TiedSelf
<1>. QED BY <1>1, <1>3, <1>6, CommitKeeps, TiedSelf, PanelTypes DEF after

LEMMA AppendNode ==
  ASSUME NEW ns \in Seq(Node), NEW n \in Node
  PROVE  /\ Append(ns, n) \in Seq(Node)
         /\ DOMAIN ns \subseteq DOMAIN Append(ns, n)
         /\ \A i \in DOMAIN ns : Append(ns, n)[i] = ns[i]
         /\ \A i \in DOMAIN Append(ns, n) :
              \/ Append(ns, n)[i] = n
              \/ i \in DOMAIN ns /\ Append(ns, n)[i] = ns[i]
OBVIOUS

LEMMA AddKeeps ==
  ASSUME EditorInv, NEW id \in Int, AddNode(id)
  PROVE  CanvasInv' /\ PanelInv'
<1>. DEFINE n == NewNode(id)
            ns == Append(nodes, n)
            after == [nodes |-> ns, edges |-> edges]
<1>1. Commit(ns, edges, panels) /\ UNCHANGED <<kept, gone>> BY DEF AddNode
<1>2. n \in Node /\ n.telemetry = None /\ ~n.selected BY NewNodeType
<1>. HIDE DEF n
<1>3. /\ ns \in Seq(Node) /\ DOMAIN nodes \subseteq DOMAIN ns
      /\ \A i \in DOMAIN nodes : ns[i] = nodes[i]
      /\ \A i \in DOMAIN ns : ns[i] = n \/ (i \in DOMAIN nodes /\ ns[i] = nodes[i])
  BY <1>2, CanvasFacts, AppendNode
<1>. HIDE DEF ns
<1>4. Ids(nodes) \subseteq Ids(ns) BY <1>3 DEF Ids
<1>5. \A i \in DOMAIN ns : ns[i].telemetry \in {None, ns[i].id} \cup gone'
  BY <1>1, <1>2, <1>3, CanvasFacts
<1>6. Good(after, gone') BY <1>1, <1>3, <1>4, <1>5, CanvasFacts, GoodOf
<1>7. CopiedIn(Canvas, panels) => CopiedIn(after, panels) BY <1>3 DEF CopiedIn, Canvas
<1>8. Unselected(Canvas) => Unselected(after) BY <1>2, <1>3 DEF Unselected, Canvas
<1>. HIDE DEF after
<1>9. Fits(shown, after, panels) BY <1>7, <1>8, FitsCopied, TiedSelf
<1>. QED BY <1>1, <1>6, <1>9, CommitKeeps, TiedSelf, PanelTypes DEF after

(* A deletion takes away what was selected, so the listener always fires.    *)
LEMMA DeleteKeeps ==
  ASSUME EditorInv, OnNodesDelete
  PROVE  CanvasInv' /\ PanelInv'
<1>. DEFINE chosen == SelectedIds(shown)
            ns == Without(nodes, chosen.nodes)
            es == {e \in edges : EdgeId(e) \notin chosen.edges /\ Ends(e) \cap chosen.nodes = {}}
            after == [nodes |-> ns, edges |-> es]
<1>1. /\ Commit(ns, es, panels) /\ UNCHANGED <<kept, gone>>
      /\ chosen.nodes # {} \/ chosen.edges # {}
  BY DEF OnNodesDelete
<1>. HIDE DEF chosen
<1>2. /\ ns \in Seq(Node) /\ Ids(ns) = Ids(nodes) \ chosen.nodes
      /\ \A k \in DOMAIN ns : \E i \in DOMAIN nodes :
           nodes[i].id \notin chosen.nodes /\ ns[k] = nodes[i]
  <2>1. nodes \in Seq(Node) /\ ns = Without(nodes, chosen.nodes) BY CanvasFacts
  <2>. HIDE DEF ns
  <2>. QED BY <2>1, WithoutKeeps
<1>. HIDE DEF ns
<1>3. es \in SUBSET Edge /\ IsFiniteSet(es) BY CanvasFacts, FS_Subset
<1>4. \A e \in es : Ends(e) \subseteq Ids(ns) \cup gone' BY <1>1, <1>2, CanvasFacts
<1>5. \A k \in DOMAIN ns : ns[k].telemetry \in {None, ns[k].id} \cup gone'
  BY <1>1, <1>2, CanvasFacts
<1>6. Good(after, gone') BY <1>2, <1>3, <1>4, <1>5, GoodOf
<1>7. \A x \in SelectedIds(after).nodes : x \notin chosen.nodes
  BY <1>2 DEF SelectedIds, Selection, Internals
<1>8. \A x \in SelectedIds(after).edges : x \notin chosen.edges
  BY DEF SelectedIds, Selection
<1>. HIDE DEF after, es
<1>9. SelectedIds(after) # chosen BY <1>1, <1>7, <1>8
<1>10. Fits(shown, after, panels) BY <1>9 DEF Fits, chosen
<1>. QED BY <1>1, <1>6, <1>10, CommitKeeps, TiedSelf, PanelTypes DEF after

-----------------------------------------------------------------------------
(* A change of every node that leaves the ids, and of every edge.            *)
LEMMA NodesChanged ==
  ASSUME NEW ns \in Seq(Node), NEW f, f = [i \in DOMAIN ns |-> f[i]],
         \A i \in DOMAIN ns : f[i] \in Node
  PROVE  /\ f \in Seq(Node) /\ DOMAIN f = DOMAIN ns
         /\ (\A i \in DOMAIN ns : f[i].id = ns[i].id) => Ids(f) = Ids(ns)
<1>1. DOMAIN f = DOMAIN ns BY Zenon
<1>2. f \in Seq(Node) BY Mapped
<1>. QED BY <1>1, <1>2 DEF Ids

LEMMA ImageFinite ==
  ASSUME NEW S, IsFiniteSet(S), NEW f, DOMAIN f = S, NEW T, T = {f[x] : x \in S}
  PROVE  IsFiniteSet(T)
<1>. DEFINE g == [x \in S |-> f[x]]
<1>1. g \in Surjection(S, T) BY DEF Surjection
<1>. QED BY <1>1, FS_Surjection

LEMMA LastOf ==
  ASSUME NEW ns \in Seq(Node), NEW x \in Ids(ns)
  PROVE  \E i \in DOMAIN ns : ns[i].id = x /\ ns[i] \in Internals(ns)
<1>. DEFINE S == {i \in DOMAIN ns : ns[i].id = x}
<1>1. Len(ns) \in Nat /\ DOMAIN ns = 1..Len(ns) BY Elements
<1>2. S \in SUBSET (1..Len(ns)) /\ S # {} BY <1>1 DEF Ids
<1>3. PICK i \in S : \A j \in S : j <= i BY <1>1, <1>2, Greatest
<1>4. i \in DOMAIN ns /\ ns[i].id = x /\ \A j \in DOMAIN ns : ns[j].id = x => j <= i
  BY <1>3
<1>5. \A j \in DOMAIN ns : j > i => ns[j].id # ns[i].id
  BY <1>1, <1>4
<1>. QED BY <1>4, <1>5 DEF Internals

LEMMA NodeFlag ==
  ASSUME NEW n \in Node, NEW b \in BOOLEAN, NEW m, m = [n EXCEPT !.selected = b]
  PROVE  /\ m \in Node /\ m.id = n.id /\ m.title = n.title /\ m.network = n.network
         /\ m.telemetry = n.telemetry /\ m.selected = b
BY DEF Node

LEMMA EdgeFlag ==
  ASSUME NEW e \in Edge, NEW b \in BOOLEAN, NEW f, f = [e EXCEPT !.selected = b]
  PROVE  /\ f \in Edge /\ EdgeId(f) = EdgeId(e) /\ Ends(f) = Ends(e)
         /\ EdgePanel(f) = EdgePanel(e) /\ f.selected = b
BY DEF Edge, EdgeId, EdgePanel, Ends

LEMMA FlaggedKeeps ==
  ASSUME EditorInv, NEW ids, NEW marked, Flagged(ids, marked), UNCHANGED <<kept, gone>>
  PROVE  CanvasInv' /\ PanelInv'
<1>. DEFINE chosen == SelectedIds(shown)
            flip(n) == n.id \in Ids(shown.nodes) /\ (n.id \in ids) # (n.id \in chosen.nodes)
            turn(e) == /\ EdgeId(e) \in {EdgeId(f) : f \in shown.edges}
                       /\ (EdgeId(e) \in marked) # (EdgeId(e) \in chosen.edges)
            flag(n) == IF flip(n) THEN [n EXCEPT !.selected = n.id \in ids] ELSE n
            mark(e) == IF turn(e) THEN [e EXCEPT !.selected = EdgeId(e) \in marked] ELSE e
            ns == [i \in DOMAIN nodes |-> flag(nodes[i])]
            es == {mark(e) : e \in edges}
            given == IF ids = {} /\ marked = {} THEN NoPanels ELSE panels
            after == [nodes |-> ns, edges |-> es]
<1>1. Commit(ns, es, given) BY DEF Flagged, Update
<1>2. \A n \in Node : /\ flag(n) \in Node /\ flag(n).id = n.id /\ flag(n).title = n.title
                      /\ flag(n).network = n.network /\ flag(n).telemetry = n.telemetry
                      /\ flag(n).selected => n.selected \/ (flip(n) /\ n.id \in ids)
  <2>. SUFFICES ASSUME NEW n \in Node
                PROVE  /\ flag(n) \in Node /\ flag(n).id = n.id /\ flag(n).title = n.title
                       /\ flag(n).network = n.network /\ flag(n).telemetry = n.telemetry
                       /\ flag(n).selected => n.selected \/ (flip(n) /\ n.id \in ids)
    BY Zenon
  <2>. DEFINE b == n.id \in ids
              m == [n EXCEPT !.selected = b]
  <2>1. b \in BOOLEAN OBVIOUS
  <2>4. flag(n) = IF flip(n) THEN m ELSE n OBVIOUS
  <2>2. b => n.id \in ids OBVIOUS
  <2>. HIDE DEF b, flag, flip
  <2>3. /\ m \in Node /\ m.id = n.id /\ m.title = n.title /\ m.network = n.network
        /\ m.telemetry = n.telemetry /\ m.selected = b
    BY <2>1, NodeFlag
  <2>. HIDE DEF m
  <2>. QED BY <2>2, <2>3, <2>4, Zenon
<1>3. \A e \in Edge : /\ mark(e) \in Edge /\ EdgeId(mark(e)) = EdgeId(e) /\ Ends(mark(e)) = Ends(e)
                      /\ EdgePanel(mark(e)) = EdgePanel(e)
                      /\ mark(e).selected => e.selected \/ (turn(e) /\ EdgeId(e) \in marked)
  <2>. SUFFICES ASSUME NEW e \in Edge
                PROVE  /\ mark(e) \in Edge /\ EdgeId(mark(e)) = EdgeId(e) /\ Ends(mark(e)) = Ends(e)
                       /\ EdgePanel(mark(e)) = EdgePanel(e)
                       /\ mark(e).selected => e.selected \/ (turn(e) /\ EdgeId(e) \in marked)
    BY Zenon
  <2>. DEFINE b == EdgeId(e) \in marked
              f == [e EXCEPT !.selected = b]
  <2>1. b \in BOOLEAN OBVIOUS
  <2>4. mark(e) = IF turn(e) THEN f ELSE e OBVIOUS
  <2>2. b => EdgeId(e) \in marked OBVIOUS
  <2>. HIDE DEF b, mark, turn
  <2>3. /\ f \in Edge /\ EdgeId(f) = EdgeId(e) /\ Ends(f) = Ends(e)
        /\ EdgePanel(f) = EdgePanel(e) /\ f.selected = b
    BY <2>1, EdgeFlag
  <2>. HIDE DEF f
  <2>. QED BY <2>2, <2>3, <2>4, Zenon
<1>4. \A i \in DOMAIN nodes : ns[i] = flag(nodes[i]) OBVIOUS
<1>5. \A e \in es : \E f \in edges : e = mark(f) OBVIOUS
<1>6. \A f \in edges : mark(f) \in es OBVIOUS
<1>7. IsFiniteSet(es)
  <2>. DEFINE g == [e \in edges |-> mark(e)]
  <2>1. es = {g[e] : e \in edges} OBVIOUS
  <2>2. DOMAIN g = edges OBVIOUS
  <2>. HIDE DEF g, es
  <2>. QED BY <2>1, <2>2, CanvasFacts, ImageFinite
<1>. HIDE DEF flag, mark
<1>8. ns \in Seq(Node) /\ DOMAIN ns = DOMAIN nodes /\ Ids(ns) = Ids(nodes)
  <2>1. ns = [i \in DOMAIN nodes |-> ns[i]] BY Zenon
  <2>2. \A i \in DOMAIN nodes : ns[i] \in Node /\ ns[i].id = nodes[i].id
    BY <1>2, <1>4, CanvasFacts
  <2>. HIDE DEF ns
  <2>. QED BY <2>1, <2>2, CanvasFacts, NodesChanged
<1>. HIDE DEF ns, es
<1>9. es \in SUBSET Edge BY <1>3, <1>5, CanvasFacts
<1>10. \A i \in DOMAIN ns : ns[i].telemetry \in {None, ns[i].id} \cup gone'
  BY <1>2, <1>4, <1>8, CanvasFacts
<1>11. \A e \in es : Ends(e) \subseteq Ids(ns) \cup gone'
  BY <1>3, <1>5, <1>8, CanvasFacts
<1>12. Good(after, gone') BY <1>7, <1>8, <1>9, <1>10, <1>11, GoodOf
<1>13. CASE given = NoPanels
  <2>1. Fits(shown, after, given) BY <1>13, NoCopies DEF Fits
  <2>2. given \in Copies /\ Tied(given, panels) BY <1>13, NoCopies DEF Tied
  <2>. QED BY <1>1, <1>12, <2>1, <2>2, CommitKeeps
<1>14. CASE given = panels
  <2>1. CopiedIn(Canvas, panels) => CopiedIn(after, panels)
    <3>1. \A i \in DOMAIN nodes : i \in DOMAIN ns /\ NodePanel(ns[i]) = NodePanel(nodes[i])
      BY <1>2, <1>4, <1>8, CanvasFacts DEF NodePanel
    <3>2. \A e \in edges : \E f \in es : EdgePanel(f) = EdgePanel(e)
      BY <1>3, <1>6, CanvasFacts
    <3>. QED BY <3>1, <3>2, SamePanel DEF CopiedIn, Canvas
  <2>2. SelectedIds(shown) = SelectedIds(after) /\ Unselected(Canvas)
          => panels.node = None /\ panels.edge = None
    <3>. SUFFICES ASSUME chosen = SelectedIds(after), Unselected(Canvas)
                  PROVE  panels.node = None /\ panels.edge = None
      OBVIOUS
    <3>1. ShowsIn(shown, panels) BY DEF EditorInv, PanelInv
    <3>2. \A x \in SelectedIds(after).nodes : x \in ids /\ x \notin chosen.nodes
      <4>. SUFFICES ASSUME NEW i \in DOMAIN ns, ns[i].selected
                    PROVE  ns[i].id \in ids /\ ns[i].id \notin chosen.nodes
        BY DEF SelectedIds, Selection, Internals
      <4>1. ~nodes[i].selected /\ nodes[i] \in Node
        BY <1>8, CanvasFacts DEF Unselected, Canvas
      <4>2. flip(nodes[i]) /\ nodes[i].id \in ids /\ ns[i].id = nodes[i].id
        BY <4>1, <1>2, <1>4, <1>8
      <4>. QED BY <4>2
    <3>3. \A x \in SelectedIds(after).edges : x \in marked /\ x \notin chosen.edges
      <4>. SUFFICES ASSUME NEW e \in es, e.selected
                    PROVE  EdgeId(e) \in marked /\ EdgeId(e) \notin chosen.edges
        BY DEF SelectedIds, Selection
      <4>1. PICK f \in edges : e = mark(f) BY <1>5
      <4>2. ~f.selected /\ f \in Edge BY CanvasFacts DEF Unselected, Canvas
      <4>3. turn(f) /\ EdgeId(f) \in marked /\ EdgeId(e) = EdgeId(f)
        BY <4>1, <4>2, <1>3
      <4>. QED BY <4>3
    <3>. HIDE DEF after
    <3>4. chosen.nodes = {} /\ chosen.edges = {} BY <3>2, <3>3
    <3>. QED BY <3>1, <3>4, ShowsNothing
  <2>. HIDE DEF after
  <2>3. Fits(shown, after, panels) BY <2>1, <2>2, FitsCopied, TiedSelf
  <2>. QED BY <1>1, <1>12, <1>14, <2>3, CommitKeeps, TiedSelf, PanelTypes DEF after
<1>. QED BY <1>13, <1>14

-----------------------------------------------------------------------------
(* A search renders twice: what was queued, and then the node it has found,  *)
(* the only one that is selected.                                            *)
LEMMA SearchKeeps ==
  ASSUME EditorInv, NEW text, Search(text)
  PROVE  CanvasInv' /\ PanelInv'
<1>. DEFINE found == {i \in DOMAIN nodes : nodes[i].title = text}
            first == CHOOSE i \in found : \A j \in found : i <= j
            id == nodes[first].id
            rendered == Listened(shown, Canvas, panels)
            match(n) == [n EXCEPT !.selected = found # {} /\ n.id = id]
            ns == [i \in DOMAIN nodes |-> match(nodes[i])]
            after == [nodes |-> ns, edges |-> edges]
            node == IF found = {} THEN None ELSE NodePanel(nodes[first])
            open == Opened(rendered, node, rendered.edge)
            given == [open EXCEPT !.stale = rendered.stale]
<1>1. /\ nodes' = ns /\ edges' = edges /\ shown' = after
      /\ panels' = Listened(Canvas, after, given)
      /\ UNCHANGED <<kept, gone>>
  BY DEF Search, Update
<1>2. found # {} => first \in DOMAIN nodes /\ nodes[first] \in Node
  <2>1. \A i \in found : i \in Nat /\ i \in DOMAIN nodes BY CanvasFacts
  <2>2. ASSUME found # {} PROVE \E i \in found : \A j \in found : i <= j
    BY <2>1, <2>2, Least
  <2>. HIDE DEF found
  <2>3. found # {} => first \in found BY <2>2
  <2>. QED BY <2>1, <2>3, CanvasFacts
<1>3. /\ rendered \in Copies /\ ShowsIn(Canvas, rendered)
      /\ rendered.stale \/ CopiedIn(Canvas, rendered)
  <2>1. Fits(shown, Canvas, panels) BY FitsCopied, TiedSelf
  <2>2. Sound(Canvas) BY DEF EditorInv, CanvasInv, Good
  <2>3. ShowsIn(shown, panels) BY DEF EditorInv, PanelInv
  <2>. QED BY <2>1, <2>2, <2>3, PanelTypes, ListenedShows
<1>4. \A n \in Node : /\ match(n) \in Node /\ match(n).id = n.id /\ match(n).title = n.title
                      /\ match(n).network = n.network /\ match(n).telemetry = n.telemetry
                      /\ match(n).selected <=> found # {} /\ n.id = id
  <2>. SUFFICES ASSUME NEW n \in Node
                PROVE  /\ match(n) \in Node /\ match(n).id = n.id /\ match(n).title = n.title
                       /\ match(n).network = n.network /\ match(n).telemetry = n.telemetry
                       /\ match(n).selected <=> found # {} /\ n.id = id
    BY Zenon
  <2>. DEFINE b == found # {} /\ n.id = id
              m == [n EXCEPT !.selected = b]
  <2>1. b \in BOOLEAN OBVIOUS
  <2>2. b <=> found # {} /\ n.id = id OBVIOUS
  <2>3. match(n) = m OBVIOUS
  <2>. HIDE DEF b, match, found, id
  <2>4. /\ m \in Node /\ m.id = n.id /\ m.title = n.title /\ m.network = n.network
        /\ m.telemetry = n.telemetry /\ m.selected = b
    BY <2>1, NodeFlag
  <2>. HIDE DEF m
  <2>. QED BY <2>2, <2>3, <2>4, Zenon
<1>5. \A i \in DOMAIN nodes : ns[i] = match(nodes[i]) OBVIOUS
<1>. HIDE DEF match
<1>6. ns \in Seq(Node) /\ DOMAIN ns = DOMAIN nodes /\ Ids(ns) = Ids(nodes)
  <2>1. ns = [i \in DOMAIN nodes |-> ns[i]] BY Zenon
  <2>2. \A i \in DOMAIN nodes : ns[i] \in Node /\ ns[i].id = nodes[i].id
    BY <1>4, <1>5, CanvasFacts
  <2>. HIDE DEF ns
  <2>. QED BY <2>1, <2>2, CanvasFacts, NodesChanged
<1>. HIDE DEF ns
<1>7. \A i \in DOMAIN ns : /\ ns[i].id = nodes[i].id /\ NodePanel(ns[i]) = NodePanel(nodes[i])
                           /\ ns[i].telemetry = nodes[i].telemetry
                           /\ ns[i].selected <=> found # {} /\ nodes[i].id = id
  <2>. SUFFICES ASSUME NEW i \in DOMAIN nodes
                PROVE  /\ ns[i].id = nodes[i].id /\ NodePanel(ns[i]) = NodePanel(nodes[i])
                       /\ ns[i].telemetry = nodes[i].telemetry
                       /\ ns[i].selected <=> found # {} /\ nodes[i].id = id
    BY <1>6, Zenon
  <2>1. nodes[i] \in Node BY CanvasFacts
  <2>2. ns[i] = match(nodes[i]) BY <1>5, Zenon
  <2>. HIDE DEF found, id
  <2>3. /\ ns[i].id = nodes[i].id /\ ns[i].title = nodes[i].title
        /\ ns[i].network = nodes[i].network /\ ns[i].telemetry = nodes[i].telemetry
        /\ ns[i].selected <=> found # {} /\ nodes[i].id = id
    BY <1>4, <2>1, <2>2, Zenon
  <2>. QED BY <2>3, Zenon DEF NodePanel
<1>. HIDE DEF found, first
<1>8. Good(after, gone')
  <2>1. \A i \in DOMAIN ns : ns[i].telemetry \in {None, ns[i].id} \cup gone'
    BY <1>1, <1>6, <1>7, CanvasFacts
  <2>. QED BY <1>1, <1>6, <2>1, CanvasFacts, GoodOf
<1>9. found # {} => SelectedIds(after).nodes = {id}
  <2>. SUFFICES ASSUME found # {} PROVE SelectedIds(after).nodes = {id} OBVIOUS
  <2>1. SelectedIds(after).nodes = {n.id : n \in {m \in Internals(ns) : m.selected}}
    BY DEF SelectedIds, Selection
  <2>2. \A m \in Internals(ns) : \E i \in DOMAIN ns : m = ns[i] BY DEF Internals
  <2>3. id \in Ids(ns) BY <1>2, <1>6 DEF Ids
  <2>4. PICK k \in DOMAIN ns : ns[k].id = id /\ ns[k] \in Internals(ns)
    BY <1>6, <2>3, LastOf
  <2>5. ns[k].selected BY <1>7, <2>4
  <2>6. \A m \in Internals(ns) : m.selected => m.id = id BY <1>7, <2>2
  <2>. HIDE DEF after, id
  <2>. QED BY <2>1, <2>4, <2>5, <2>6
<1>10. /\ given \in Copies /\ given.edge = rendered.edge /\ given.stale = rendered.stale
       /\ given.node = IF found = {} THEN None ELSE NodePanel(nodes[first])
       /\ \A n : node # None /\ NodePanel(n) = node => ShowsNode(given, n)
  <2>. HIDE DEF rendered
  <2>1. found # {} => NodePanel(nodes[first]) \in NodeCopy BY <1>2, NodePanelType
  <2>2. node \in NodeCopy \cup {None} /\ rendered.edge \in EdgeCopy \cup {None}
        /\ rendered.stale \in BOOLEAN
    BY <1>3, <2>1 DEF Copies
  <2>3. node = IF found = {} THEN None ELSE NodePanel(nodes[first]) OBVIOUS
  <2>4. open = Opened(rendered, node, rendered.edge) OBVIOUS
  <2>. HIDE DEF node, open
  <2>5. /\ open \in Copies /\ open.node = node /\ open.edge = rendered.edge
        /\ \A n : node # None /\ NodePanel(n) = node => ShowsNode(open, n)
    BY <1>3, <2>2, <2>4, Opens
  <2>6. /\ given \in Copies /\ given.node = open.node /\ given.edge = open.edge
        /\ given.network = open.network /\ given.carried = open.carried
        /\ given.stale = rendered.stale
    BY <2>2, <2>5 DEF Copies
  <2>. HIDE DEF given
  <2>7. \A n : ShowsNode(open, n) => ShowsNode(given, n) BY <2>6 DEF ShowsNode
  <2>. QED BY <2>3, <2>5, <2>6, <2>7
<1>a. node = given.node BY <1>10
<1>. HIDE DEF rendered, given, node, open
<1>11. SelectedIds(Canvas) = SelectedIds(after) => ShowsIn(Canvas, given)
  <2>. SUFFICES ASSUME SelectedIds(Canvas) = SelectedIds(after)
                PROVE  ShowsIn(Canvas, given)
    OBVIOUS
  <2>. HIDE DEF after
  <2>1. given.edge # None => SelectedIds(Canvas).edges = {EdgeId(given.edge)}
    BY <1>3, <1>10 DEF ShowsIn
  <2>2. found # {} => NodePanel(nodes[first]).id = id BY <1>2, NodePanelType
  <2>3. given.node # None => SelectedIds(Canvas).nodes = {given.node.id}
    BY <1>9, <1>10, <2>2
  <2>. QED BY <2>1, <2>3 DEF ShowsIn
<1>12. given.stale \/ CopiedIn(after, given)
  <2>. SUFFICES ASSUME CopiedIn(Canvas, rendered) PROVE CopiedIn(after, given)
    BY <1>3, <1>10
  <2>1. given.edge # None => \E e \in edges : EdgePanel(e) = given.edge
    BY <1>10 DEF CopiedIn, Canvas
  <2>2. given.node # None => \E i \in DOMAIN ns : ShowsNode(given, ns[i])
    BY <1>2, <1>6, <1>7, <1>10, <1>a
  <2>. QED BY <2>1, <2>2 DEF CopiedIn
<1>13. Canvas' = after BY <1>1 DEF Canvas
<1>. HIDE DEF after
<1>14. panels' \in Copies /\ ShowsIn(after, panels') /\ (panels'.stale \/ CopiedIn(after, panels'))
  <2>1. Fits(Canvas, after, given) BY <1>12 DEF Fits
  <2>. QED BY <1>1, <1>8, <1>10, <1>11, <2>1, ListenedShows DEF Good
<1>15. PanelInv' BY <1>1, <1>13, <1>14 DEF PanelInv
<1>16. Saved' = Saved BY <1>1 DEF Saved, kept
<1>17. CanvasInv' BY <1>1, <1>8, <1>13, <1>16 DEF CanvasInv, EditorInv
<1>. QED BY <1>15, <1>17
-----------------------------------------------------------------------------
(* The panel of a node writes the same field into the node and into its copy. *)
LEMMA NodeTitle ==
  ASSUME NEW n \in Node, NEW t \in Titles, NEW m, m = [n EXCEPT !.title = t]
  PROVE  /\ m \in Node /\ m.id = n.id /\ m.title = t /\ m.network = n.network
         /\ m.telemetry = n.telemetry /\ m.selected = n.selected
BY DEF Node

LEMMA EditNodeKeeps ==
  ASSUME EditorInv, NEW t \in Titles, EditNode(t)
  PROVE  CanvasInv' /\ PanelInv'
<1>. DEFINE p == panels.node
            write(n) == IF n.id = p.id THEN [n EXCEPT !.title = t] ELSE n
            ns == [i \in DOMAIN nodes |-> write(nodes[i])]
            given == [panels EXCEPT !.node.title = t]
            after == [nodes |-> ns, edges |-> edges]
<1>1. p # None /\ Commit(ns, edges, given) /\ UNCHANGED <<kept, gone>>
  BY DEF EditNode, Update
<1>2. panels \in Copies /\ p \in NodeCopy BY <1>1, PanelTypes
<1>3. /\ given \in Copies /\ given.edge = panels.edge /\ given.stale = panels.stale
      /\ given.node = [p EXCEPT !.title = t] /\ given.node.id = p.id
      /\ given.node.title = t /\ given.node.network = p.network
      /\ given.network = panels.network /\ given.carried = panels.carried
  BY <1>2 DEF Copies, NodeCopy
<1>4. \A n \in Node : /\ write(n) \in Node /\ write(n).id = n.id
                      /\ write(n).telemetry = n.telemetry /\ write(n).selected = n.selected
  BY NodeTitle
<1>5. ASSUME NEW n \in Node, ShowsNode(panels, n) PROVE ShowsNode(given, write(n))
  <2>1. n.id = p.id BY <1>5 DEF ShowsNode
  <2>2. write(n).id = n.id /\ write(n).title = t /\ write(n).network = n.network
    BY <2>1, NodeTitle
  <2>. HIDE DEF write, given
  <2>. QED BY <1>3, <1>5, <2>2 DEF ShowsNode
<1>6. \A i \in DOMAIN nodes : ns[i] = write(nodes[i]) OBVIOUS
<1>. HIDE DEF write, given
<1>7. ns \in Seq(Node) /\ DOMAIN ns = DOMAIN nodes /\ Ids(ns) = Ids(nodes)
  <2>1. ns = [i \in DOMAIN nodes |-> ns[i]] BY Zenon
  <2>2. \A i \in DOMAIN nodes : ns[i] \in Node /\ ns[i].id = nodes[i].id
    BY <1>4, <1>6, CanvasFacts
  <2>. HIDE DEF ns
  <2>. QED BY <2>1, <2>2, CanvasFacts, NodesChanged
<1>. HIDE DEF ns
<1>8. \A i \in DOMAIN ns : ns[i].telemetry \in {None, ns[i].id} \cup gone'
  BY <1>1, <1>4, <1>6, <1>7, CanvasFacts
<1>9. Good(after, gone') BY <1>1, <1>7, <1>8, CanvasFacts, GoodOf
<1>10. Tied(given, panels) BY <1>1, <1>3 DEF Tied
<1>11. Unselected(Canvas) => Unselected(after)
  BY <1>4, <1>6, <1>7, CanvasFacts DEF Unselected, Canvas
<1>12. CopiedIn(Canvas, panels) => CopiedIn(after, given)
  BY <1>1, <1>3, <1>5, <1>6, <1>7, CanvasFacts DEF CopiedIn, Canvas
<1>. HIDE DEF after
<1>13. Fits(shown, after, given) BY <1>3, <1>10, <1>11, <1>12, FitsCopied
<1>. QED BY <1>1, <1>3, <1>9, <1>10, <1>13, CommitKeeps DEF after

LEMMA NodeNetwork ==
  ASSUME NEW n \in Node, NEW w \in Networks, NEW m, m = [n EXCEPT !.network = w]
  PROVE  /\ m \in Node /\ m.id = n.id /\ m.title = n.title /\ m.network = w
         /\ m.telemetry = n.telemetry /\ m.selected = n.selected
BY DEF Node

(* A choice in the dropdown is what it holds, and what the nodes get.         *)
LEMMA EditNetworkKeeps ==
  ASSUME EditorInv, NEW w \in Networks, EditNetwork(w)
  PROVE  CanvasInv' /\ PanelInv'
<1>. DEFINE p == panels.node
            write(n) == IF n.id = p.id THEN [n EXCEPT !.network = w] ELSE n
            ns == [i \in DOMAIN nodes |-> write(nodes[i])]
            given == [panels EXCEPT !.network = w, !.carried = FALSE]
            after == [nodes |-> ns, edges |-> edges]
<1>1. p # None /\ Commit(ns, edges, given) /\ UNCHANGED <<kept, gone>>
  BY DEF EditNetwork, Update
<1>2. panels \in Copies BY PanelTypes
<1>3. /\ given \in Copies /\ given.edge = panels.edge /\ given.stale = panels.stale
      /\ given.node = p /\ given.network = w /\ given.carried = FALSE
  BY <1>2 DEF Copies
<1>4. \A n \in Node : /\ write(n) \in Node /\ write(n).id = n.id
                      /\ write(n).telemetry = n.telemetry /\ write(n).selected = n.selected
  BY NodeNetwork
<1>5. ASSUME NEW n \in Node, ShowsNode(panels, n) PROVE ShowsNode(given, write(n))
  <2>1. n.id = p.id /\ n.title = p.title BY <1>5 DEF ShowsNode
  <2>2. write(n).id = n.id /\ write(n).title = n.title /\ write(n).network = w
    BY <2>1, NodeNetwork
  <2>. HIDE DEF write, given
  <2>. QED BY <1>3, <2>1, <2>2 DEF ShowsNode, Looked
<1>6. \A i \in DOMAIN nodes : ns[i] = write(nodes[i]) OBVIOUS
<1>. HIDE DEF write, given
<1>7. ns \in Seq(Node) /\ DOMAIN ns = DOMAIN nodes /\ Ids(ns) = Ids(nodes)
  <2>1. ns = [i \in DOMAIN nodes |-> ns[i]] BY Zenon
  <2>2. \A i \in DOMAIN nodes : ns[i] \in Node /\ ns[i].id = nodes[i].id
    BY <1>4, <1>6, CanvasFacts
  <2>. HIDE DEF ns
  <2>. QED BY <2>1, <2>2, CanvasFacts, NodesChanged
<1>. HIDE DEF ns
<1>8. \A i \in DOMAIN ns : ns[i].telemetry \in {None, ns[i].id} \cup gone'
  BY <1>1, <1>4, <1>6, <1>7, CanvasFacts
<1>9. Good(after, gone') BY <1>1, <1>7, <1>8, CanvasFacts, GoodOf
<1>10. Tied(given, panels) BY <1>3 DEF Tied
<1>11. Unselected(Canvas) => Unselected(after)
  BY <1>4, <1>6, <1>7, CanvasFacts DEF Unselected, Canvas
<1>12. CopiedIn(Canvas, panels) => CopiedIn(after, given)
  BY <1>1, <1>3, <1>5, <1>6, <1>7, CanvasFacts DEF CopiedIn, Canvas
<1>. HIDE DEF after
<1>13. Fits(shown, after, given) BY <1>3, <1>10, <1>11, <1>12, FitsCopied
<1>. QED BY <1>1, <1>3, <1>9, <1>10, <1>13, CommitKeeps DEF after

(* Another id in the panel of a node: the panel stays only if it is the same. *)
LEMMA EditNodeIdKeeps ==
  ASSUME EditorInv, NEW new \in Int, EditNodeId(new)
  PROVE  CanvasInv' /\ PanelInv'
<1>. DEFINE p == panels.node
            write(n) == IF n.id = p.id THEN [n EXCEPT !.id = new] ELSE n
            ns == [i \in DOMAIN nodes |-> write(nodes[i])]
            after == [nodes |-> ns, edges |-> edges]
<1>1. /\ p # None /\ Commit(ns, edges, panels) /\ UNCHANGED kept
      /\ gone' = gone \cup ({p.id} \ {new})
  BY DEF EditNodeId, Update, kept
<1>2. panels \in Copies /\ p \in NodeCopy BY <1>1, PanelTypes
<1>3. \A n \in Node : /\ write(n) \in Node
                      /\ write(n).id = IF n.id = p.id THEN new ELSE n.id
                      /\ write(n).telemetry = n.telemetry /\ write(n).selected = n.selected
                      /\ write(n).title = n.title /\ write(n).network = n.network
  BY DEF Node
<1>4. \A i \in DOMAIN nodes : ns[i] = write(nodes[i]) OBVIOUS
<1>. HIDE DEF write
<1>5. ns \in Seq(Node) /\ DOMAIN ns = DOMAIN nodes
  <2>1. ns = [i \in DOMAIN nodes |-> ns[i]] BY Zenon
  <2>2. \A i \in DOMAIN nodes : ns[i] \in Node
    BY <1>3, <1>4, CanvasFacts
  <2>. HIDE DEF ns
  <2>. QED BY <2>1, <2>2, CanvasFacts, NodesChanged
<1>. HIDE DEF ns
<1>6. \A i \in DOMAIN nodes : ns[i].id = IF nodes[i].id = p.id THEN new ELSE nodes[i].id
  BY <1>3, <1>4, CanvasFacts
<1>7. \A i \in DOMAIN ns : ns[i].telemetry \in {None, ns[i].id} \cup gone'
  <2>. TAKE i \in DOMAIN ns
  <2>1. ns[i].telemetry = nodes[i].telemetry BY <1>3, <1>4, <1>5, CanvasFacts
  <2>2. nodes[i].telemetry \in {None, nodes[i].id} \cup gone BY <1>5, CanvasFacts
  <2>. QED BY <1>1, <1>5, <1>6, <2>1, <2>2
<1>8. Ids(nodes) \subseteq Ids(ns) \cup gone'
  <2>. SUFFICES ASSUME NEW i \in DOMAIN nodes PROVE nodes[i].id \in Ids(ns) \cup gone'
    BY DEF Ids
  <2>1. ns[i].id \in Ids(ns) BY <1>5 DEF Ids
  <2>. QED BY <1>1, <1>6, <2>1
<1>9. \A e \in edges : Ends(e) \subseteq Ids(ns) \cup gone'
  BY <1>1, <1>8, CanvasFacts
<1>10. Good(after, gone') BY <1>5, <1>7, <1>9, CanvasFacts, GoodOf
<1>11. Unselected(Canvas) => Unselected(after)
  BY <1>3, <1>4, <1>5, CanvasFacts DEF Unselected, Canvas
<1>12. SelectedIds(shown) = SelectedIds(after) /\ CopiedIn(Canvas, panels)
         => CopiedIn(after, panels)
  <2>. SUFFICES ASSUME SelectedIds(shown) = SelectedIds(after), CopiedIn(Canvas, panels)
                PROVE  CopiedIn(after, panels)
    OBVIOUS
  <2>1. SelectedIds(after).nodes = {p.id} BY <1>1 DEF EditorInv, PanelInv, ShowsIn
  <2>2. p.id \in SelectedIds(after).nodes BY <2>1
  <2>3. \E k \in DOMAIN ns : ns[k].id = p.id
    BY <2>2 DEF SelectedIds, Selection, Internals
  <2>4. new = p.id BY <1>5, <1>6, <2>3
  <2>5. PICK i \in DOMAIN nodes : ShowsNode(panels, nodes[i]) BY <1>1 DEF CopiedIn, Canvas
  <2>6. nodes[i] \in Node /\ nodes[i].id = p.id BY <2>5, CanvasFacts DEF ShowsNode
  <2>7. ShowsNode(panels, ns[i])
    BY <1>3, <1>4, <1>6, <2>4, <2>5, <2>6 DEF ShowsNode
  <2>. QED BY <1>5, <2>5, <2>7 DEF CopiedIn, Canvas
<1>. HIDE DEF after
<1>13. Fits(shown, after, panels) BY <1>11, <1>12, FitsCopied, TiedSelf
<1>. QED BY <1>1, <1>2, <1>10, <1>13, CommitKeeps, TiedSelf DEF after

LEMMA EdgeLabel ==
  ASSUME NEW e \in Edge, NEW l \in Labels, NEW f, f = [e EXCEPT !.label = l]
  PROVE  /\ f \in Edge /\ EdgeId(f) = EdgeId(e) /\ Ends(f) = Ends(e) /\ f.selected = e.selected
         /\ EdgePanel(f) = [EdgePanel(e) EXCEPT !.label = l]
BY DEF Edge, EdgeId, EdgePanel, Ends

LEMMA EditEdgeKeeps ==
  ASSUME EditorInv, NEW l \in Labels, EditEdge(l)
  PROVE  CanvasInv' /\ PanelInv'
<1>. DEFINE old == panels.edge
            write(e) == IF EdgeId(e) = EdgeId(old) THEN [e EXCEPT !.label = l] ELSE e
            es == {write(e) : e \in edges}
            given == [panels EXCEPT !.edge.label = l]
            after == [nodes |-> nodes, edges |-> es]
<1>1. old # None /\ Commit(nodes, es, given) /\ UNCHANGED <<kept, gone>>
  BY DEF EditEdge
<1>2. panels \in Copies /\ old \in EdgeCopy BY <1>1, PanelTypes
<1>3. /\ given \in Copies /\ given.node = panels.node /\ given.stale = panels.stale
      /\ given.network = panels.network /\ given.carried = panels.carried
      /\ given.edge = [old EXCEPT !.label = l] /\ EdgeId(given.edge) = EdgeId(old)
  BY <1>2 DEF Copies, EdgeCopy, EdgeId
<1>4. \A e \in Edge : /\ write(e) \in Edge /\ EdgeId(write(e)) = EdgeId(e)
                      /\ Ends(write(e)) = Ends(e) /\ write(e).selected = e.selected
  BY EdgeLabel
<1>5. \A e \in Edge : EdgePanel(e) = old => EdgePanel(write(e)) = given.edge
  BY <1>3, EdgeLabel, EdgePanelType
<1>6. (\A e \in es : \E f \in edges : e = write(f)) /\ (\A f \in edges : write(f) \in es)
  OBVIOUS
<1>7. IsFiniteSet(es)
  <2>. DEFINE g == [e \in edges |-> write(e)]
  <2>1. es = {g[e] : e \in edges} OBVIOUS
  <2>2. DOMAIN g = edges OBVIOUS
  <2>. HIDE DEF g, es
  <2>. QED BY <2>1, <2>2, CanvasFacts, ImageFinite
<1>. HIDE DEF write, given, es
<1>8. es \in SUBSET Edge /\ \A e \in es : Ends(e) \subseteq Ids(nodes) \cup gone'
  BY <1>1, <1>4, <1>6, CanvasFacts
<1>9. Good(after, gone') BY <1>1, <1>7, <1>8, CanvasFacts, GoodOf
<1>10. Tied(given, panels) BY <1>1, <1>3 DEF Tied
<1>11. Unselected(Canvas) => Unselected(after)
  BY <1>4, <1>6, CanvasFacts DEF Unselected, Canvas
<1>12. CopiedIn(Canvas, panels) => CopiedIn(after, given)
  <2>1. \A n : ShowsNode(panels, n) => ShowsNode(given, n) BY <1>3 DEF ShowsNode
  <2>. QED BY <1>1, <1>3, <1>5, <1>6, <2>1, CanvasFacts DEF CopiedIn, Canvas
<1>. HIDE DEF after
<1>13. Fits(shown, after, given) BY <1>3, <1>10, <1>11, <1>12, FitsCopied
<1>. QED BY <1>1, <1>3, <1>9, <1>10, <1>13, CommitKeeps DEF after

-----------------------------------------------------------------------------
(* What is saved is what was rendered, and what is restored was saved.       *)
LEMMA SavedKeeps ==
  ASSUME EditorInv, Saved' \subseteq Saved \cup {shown}, UNCHANGED view
  PROVE  CanvasInv' /\ PanelInv'
<1>1. UNCHANGED <<nodes, edges, shown, panels, gone, Canvas>> BY DEF view, Canvas
<1>2. CanvasInv' BY <1>1 DEF EditorInv, CanvasInv
<1>3. PanelInv' BY <1>1 DEF EditorInv, PanelInv
<1>. QED BY <1>2, <1>3

LEMMA SaveKeeps == EditorInv /\ OnSave => CanvasInv' /\ PanelInv'
<1>. SUFFICES ASSUME EditorInv, OnSave PROVE CanvasInv' /\ PanelInv' OBVIOUS
<1>1. /\ store' = [store EXCEPT ![props.projectId] = shown]
      /\ UNCHANGED <<reading, disk>> /\ UNCHANGED view
  BY DEF OnSave
<1>2. DOMAIN store = Projects BY DEF EditorInv, PollInv
<1>3. \A p \in Projects : store'[p] \in {shown, store[p]} BY <1>1, <1>2
<1>4. Saved' \subseteq Saved \cup {shown} BY <1>1, <1>3 DEF Saved
<1>. QED BY <1>1, <1>4, SavedKeeps

LEMMA ExportKeeps == EditorInv /\ OnExport => CanvasInv' /\ PanelInv'
<1>. SUFFICES ASSUME EditorInv, OnExport PROVE CanvasInv' /\ PanelInv' OBVIOUS
<1>1. Saved' \subseteq Saved \cup {shown} BY DEF Saved, OnExport
<1>. QED BY <1>1, SavedKeeps DEF OnExport

LEMMA ImportKeeps == EditorInv /\ OnImport => CanvasInv' /\ PanelInv'
<1>. SUFFICES ASSUME EditorInv, OnImport PROVE CanvasInv' /\ PanelInv' OBVIOUS
<1>1. Saved' \subseteq Saved \cup {shown} BY DEF Saved, OnImport
<1>. QED BY <1>1, SavedKeeps DEF OnImport

LEMMA ViewKeeps == EditorInv /\ UNCHANGED <<view, kept>> => CanvasInv' /\ PanelInv'
<1>. SUFFICES ASSUME EditorInv, UNCHANGED <<view, kept>> PROVE CanvasInv' /\ PanelInv' OBVIOUS
<1>1. Saved' \subseteq Saved \cup {shown} BY DEF Saved, kept
<1>. QED BY <1>1, SavedKeeps

LEMMA StaleCopies ==
  ASSUME EditorInv, NEW given, given = [panels EXCEPT !.stale = TRUE]
  PROVE  given \in Copies /\ Tied(given, panels) /\ given.stale
BY PanelTypes DEF Copies, Tied

LEMMA RestoreKeeps == EditorInv /\ OnRestore => CanvasInv' /\ PanelInv'
<1>. SUFFICES ASSUME EditorInv, OnRestore PROVE CanvasInv' /\ PanelInv' OBVIOUS
<1>. DEFINE saved == store[props.projectId]
            given == [panels EXCEPT !.stale = TRUE]
            after == [nodes |-> saved.nodes, edges |-> saved.edges]
<1>1. saved # None /\ Commit(saved.nodes, saved.edges, given) /\ UNCHANGED <<kept, gone>>
  BY DEF OnRestore
<1>2. props.projectId \in Projects BY DEF EditorInv, PollInv
<1>3. saved \in Saved BY <1>1, <1>2 DEF Saved
<1>. HIDE DEF saved
<1>4. Good(saved, gone) BY <1>3 DEF EditorInv, CanvasInv
<1>5. after = saved BY <1>4 DEF Good, Sound, Canvases
<1>6. Good(after, gone') BY <1>1, <1>4, <1>5
<1>. HIDE DEF after
<1>7. given \in Copies /\ Tied(given, panels) /\ given.stale BY StaleCopies
<1>. HIDE DEF given
<1>8. Fits(shown, after, given) BY <1>7 DEF Fits
<1>. QED BY <1>1, <1>6, <1>7, <1>8, CommitKeeps DEF after

LEMMA ImportedKeeps == EditorInv /\ Imported => CanvasInv' /\ PanelInv'
<1>. SUFFICES ASSUME EditorInv, Imported PROVE CanvasInv' /\ PanelInv' OBVIOUS
<1>1. /\ reading # None /\ nodes' = reading.nodes /\ edges' = reading.edges
      /\ panels' = [panels EXCEPT !.stale = TRUE] /\ reading' = None
      /\ UNCHANGED <<shown, store, disk, gone>>
  BY DEF Imported
<1>2. reading \in Saved BY <1>1 DEF Saved
<1>3. Good(reading, gone) BY <1>2 DEF EditorInv, CanvasInv
<1>4. Canvas' = reading BY <1>1, <1>3 DEF Canvas, Good, Sound, Canvases
<1>5. Saved' \subseteq Saved BY <1>1 DEF Saved
<1>6. CanvasInv' BY <1>1, <1>3, <1>4, <1>5 DEF EditorInv, CanvasInv
<1>7. panels' \in Copies /\ Tied(panels', panels) /\ panels'.stale BY <1>1, StaleCopies
<1>8. ShowsIn(shown, panels') BY <1>7, TiedShows DEF EditorInv, PanelInv
<1>9. PanelInv' BY <1>1, <1>7, <1>8 DEF PanelInv
<1>. QED BY <1>6, <1>9

LEMMA ClearKeeps == EditorInv /\ HandleClearAll => CanvasInv' /\ PanelInv'
<1>. SUFFICES ASSUME EditorInv, HandleClearAll PROVE CanvasInv' /\ PanelInv' OBVIOUS
<1>. DEFINE ns == <<>>
            after == [nodes |-> ns, edges |-> edges]
<1>1. Commit(ns, edges, panels) /\ gone' = gone \cup Ids(nodes) /\ UNCHANGED kept
  BY DEF HandleClearAll, kept
<1>2. ns \in Seq(Node) /\ DOMAIN ns = {} OBVIOUS
<1>. HIDE DEF ns
<1>3. Good(after, gone') BY <1>1, <1>2, CanvasFacts, GoodOf
<1>4. Unselected(Canvas) => Unselected(after) BY <1>2 DEF Unselected, Canvas
<1>5. SelectedIds(shown) = SelectedIds(after) /\ CopiedIn(Canvas, panels)
        => CopiedIn(after, panels)
  <2>. SUFFICES ASSUME SelectedIds(shown) = SelectedIds(after), CopiedIn(Canvas, panels)
                PROVE  CopiedIn(after, panels)
    OBVIOUS
  <2>1. SelectedIds(after).nodes = {} BY <1>2 DEF SelectedIds, Selection, Internals
  <2>2. panels.node = None BY <2>1 DEF EditorInv, PanelInv, ShowsIn
  <2>. QED BY <2>2 DEF CopiedIn, Canvas
<1>. HIDE DEF after
<1>6. Fits(shown, after, panels) BY <1>4, <1>5, FitsCopied, TiedSelf
<1>. QED BY <1>1, <1>3, <1>6, CommitKeeps, TiedSelf, PanelTypes DEF after
-----------------------------------------------------------------------------
(* The answers queue nodes and leave the rendered ones and the panels alone. *)
LEMMA QueueKeeps ==
  ASSUME EditorInv, NEW ns, NEW es, Queue(ns, es), UNCHANGED <<kept, gone>>,
         Good([nodes |-> ns, edges |-> es], gone),
         \/ Unselected([nodes |-> ns, edges |-> es])
         \/ /\ Unselected(Canvas) => Unselected([nodes |-> ns, edges |-> es])
            /\ CopiedIn(Canvas, panels) => CopiedIn([nodes |-> ns, edges |-> es], panels)
  PROVE  CanvasInv' /\ PanelInv'
<1>1. Canvas' = [nodes |-> ns, edges |-> es] /\ UNCHANGED <<shown, panels>>
  BY DEF Queue, Canvas
<1>2. Saved' = Saved BY DEF Saved, kept
<1>3. CanvasInv' BY <1>1, <1>2 DEF EditorInv, CanvasInv
<1>4. PanelInv' BY <1>1 DEF EditorInv, PanelInv
<1>. QED BY <1>3, <1>4

LEMMA Figures ==
  ASSUME NEW n \in Node, NEW m, m = [n EXCEPT !.telemetry = n.id]
  PROVE  /\ m \in Node /\ m.id = n.id /\ m.title = n.title /\ m.network = n.network
         /\ m.telemetry = n.id /\ m.selected = n.selected
BY DEF Node

LEMMA CountersKeep ==
  ASSUME EditorInv, NEW project, UpdateCounters(project)
  PROVE  CanvasInv' /\ PanelInv'
<1>1. PICK contracts \in Contracts[project] :
        Queue(Update(nodes, LAMBDA n : Found(n, contracts)), edges) /\ UNCHANGED <<kept, gone>>
  BY DEF UpdateCounters
<1>. DEFINE ns == [i \in DOMAIN nodes |-> Found(nodes[i], contracts)]
            after == [nodes |-> ns, edges |-> edges]
<1>2. Queue(ns, edges) BY <1>1 DEF Update
<1>3. \A n \in Node : LET m == Found(n, contracts)
                      IN /\ m \in Node /\ m.id = n.id /\ m.title = n.title
                         /\ m.network = n.network
                         /\ m.selected = n.selected /\ m.telemetry \in {n.telemetry, n.id}
  BY Figures DEF Found
<1>4. \A i \in DOMAIN nodes : ns[i] = Found(nodes[i], contracts) OBVIOUS
<1>5. \A i \in DOMAIN nodes : /\ ns[i] \in Node /\ ns[i].id = nodes[i].id
                              /\ ns[i].title = nodes[i].title /\ ns[i].network = nodes[i].network
                              /\ ns[i].selected = nodes[i].selected
                              /\ ns[i].telemetry \in {nodes[i].telemetry, nodes[i].id}
  BY <1>3, <1>4, CanvasFacts
<1>6. ns \in Seq(Node) /\ DOMAIN ns = DOMAIN nodes /\ Ids(ns) = Ids(nodes)
  <2>1. ns = [i \in DOMAIN nodes |-> ns[i]] BY Zenon
  <2>. HIDE DEF ns
  <2>. QED BY <1>5, <2>1, CanvasFacts, NodesChanged
<1>. HIDE DEF ns
<1>7. \A i \in DOMAIN ns : ns[i].telemetry \in {None, ns[i].id} \cup gone
  BY <1>5, <1>6, CanvasFacts
<1>8. Good(after, gone) BY <1>6, <1>7, CanvasFacts, GoodOf
<1>9. Unselected(Canvas) => Unselected(after)
  BY <1>5, <1>6 DEF Unselected, Canvas
<1>10. CopiedIn(Canvas, panels) => CopiedIn(after, panels)
  BY <1>5, <1>6 DEF CopiedIn, Canvas, ShowsNode
<1>. QED BY <1>1, <1>2, <1>8, <1>9, <1>10, QueueKeeps

LEMMA TopologyKeeps ==
  ASSUME EditorInv, NEW project \in Projects, TopologyAnswer(project)
  PROVE  CanvasInv' /\ PanelInv'
<1>1. PICK contracts \in Contracts[project] : Populate(contracts) /\ UNCHANGED <<kept, gone>>
  BY DEF TopologyAnswer
<1>. DEFINE ns == [i \in DOMAIN contracts |-> Contract(contracts[i])]
            after == [nodes |-> ns, edges |-> {}]
<1>2. Queue(ns, {}) BY <1>1 DEF Populate, Update
<1>3. contracts \in Seq(Int) BY DiagramAssumption
<1>4. \A id \in Int : /\ Contract(id) \in Node /\ Contract(id).id = id
                      /\ Contract(id).telemetry = id /\ ~Contract(id).selected
  BY DEF Contract, NewNode, Node
<1>5. \A i \in DOMAIN contracts : ns[i] = Contract(contracts[i]) /\ contracts[i] \in Int
  BY <1>3, Elements
<1>6. \A i \in DOMAIN contracts : /\ ns[i] \in Node /\ ns[i].telemetry = ns[i].id
                                  /\ ~ns[i].selected
  BY <1>4, <1>5
<1>7. ns \in Seq(Node) /\ DOMAIN ns = DOMAIN contracts
  <2>1. ns = [i \in DOMAIN contracts |-> ns[i]] BY Zenon
  <2>2. DOMAIN ns = DOMAIN contracts OBVIOUS
  <2>. HIDE DEF ns
  <2>. QED BY <1>3, <1>6, <2>1, <2>2, Mapped
<1>. HIDE DEF ns
<1>8. Good(after, gone) BY <1>6, <1>7, GoodOf, FS_EmptySet
<1>9. Unselected(after) BY <1>6, <1>7 DEF Unselected
<1>. QED BY <1>1, <1>2, <1>8, <1>9, QueueKeeps

-----------------------------------------------------------------------------
(* The interval, the requests and the count of events.                       *)
PropsSet == [projectId : Projects, refreshFreq : Freqs]

LEMMA UserBounded == EditorInv /\ User => acts' \in 0..MaxActs
BY DiagramAssumption DEF EditorInv, PollInv, User

LEMMA AskBounded ==
  ASSUME EditorInv, NEW kind \in Kinds, NEW project \in Projects, Ask(kind, project)
  PROVE  requests' \in [Kinds \X Projects -> 0..MaxFlight]
<1>1. /\ requests \in [Kinds \X Projects -> 0..MaxFlight]
      /\ requests[<<kind, project>>] < MaxFlight
      /\ requests' = [requests EXCEPT ![<<kind, project>>] = requests[<<kind, project>>] + 1]
  BY DEF EditorInv, PollInv, Ask
<1>2. <<kind, project>> \in Kinds \X Projects OBVIOUS
<1>3. requests[<<kind, project>>] + 1 \in 0..MaxFlight
  BY <1>1, <1>2, DiagramAssumption
<1>. QED BY <1>1, <1>3

LEMMA AnsweredBounded ==
  ASSUME EditorInv, NEW kind \in Kinds, NEW project \in Projects, Answered(kind, project)
  PROVE  requests' \in [Kinds \X Projects -> 0..MaxFlight]
<1>1. /\ requests \in [Kinds \X Projects -> 0..MaxFlight]
      /\ requests[<<kind, project>>] > 0
      /\ requests' = [requests EXCEPT ![<<kind, project>>] = requests[<<kind, project>>] - 1]
  BY DEF EditorInv, PollInv, Answered
<1>2. <<kind, project>> \in Kinds \X Projects OBVIOUS
<1>3. requests[<<kind, project>>] - 1 \in 0..MaxFlight
  BY <1>1, <1>2, DiagramAssumption
<1>. QED BY <1>1, <1>3

LEMMA PollKept ==
  ASSUME EditorInv, UNCHANGED polling, DOMAIN store' = DOMAIN store,
         requests' \in [Kinds \X Projects -> 0..MaxFlight], acts' \in 0..MaxActs
  PROVE  PollInv'
BY DEF EditorInv, PollInv, polling

LEMMA PollSame == EditorInv => /\ requests \in [Kinds \X Projects -> 0..MaxFlight]
                               /\ acts \in 0..MaxActs
BY DEF EditorInv, PollInv

LEMMA PropsPoll ==
  ASSUME EditorInv, NEW new \in PropsSet, SetProps(new)
  PROVE  PollInv'
<1>1. timers = {[id |-> 1, props |-> props]} /\ timerRef = 1 BY DEF EditorInv, PollInv
<1>2. {t \in timers : t.id # timerRef} = {} BY <1>1
<1>3. Cardinality({}) + 1 = 1 BY FS_EmptySet
<1>4. timers' = {[id |-> 1, props |-> new]} /\ timerRef' = 1
  BY <1>2, <1>3 DEF SetProps, PollEffect
<1>5. props' = new /\ UNCHANGED <<store, requests>> BY DEF SetProps, kept
<1>6. acts' \in 0..MaxActs BY UserBounded DEF SetProps
<1>. QED BY <1>4, <1>5, <1>6 DEF EditorInv, PollInv, PropsSet

LEMMA SidebarPoll == EditorInv /\ Sidebar => PollInv'
<1>. SUFFICES ASSUME EditorInv, Sidebar PROVE PollInv' OBVIOUS
<1>1. User BY DEF Sidebar, OnAddNode, OnAddGPTNode, AddNode, OnSave, OnRestore, HandleClearAll,
                  OnExport, OnImport, OnRefresh, OnTopology
<1>2. acts' \in 0..MaxActs BY <1>1, UserBounded
<1>3. DOMAIN store' = DOMAIN store
  BY DEF Sidebar, OnAddNode, OnAddGPTNode, AddNode, OnSave, OnRestore, HandleClearAll,
         OnExport, OnImport, OnRefresh, OnTopology, kept
<1>4. \/ requests' = requests
      \/ \E kind \in Kinds : Ask(kind, props.projectId)
  BY DEF Sidebar, OnAddNode, OnAddGPTNode, AddNode, OnSave, OnRestore, HandleClearAll,
         OnExport, OnImport, OnRefresh, OnTopology, Kinds
<1>5. props.projectId \in Projects BY DEF EditorInv, PollInv
<1>. QED BY <1>2, <1>3, <1>4, <1>5, SidebarKeeps, PollKept, PollSame, AskBounded

LEMMA BoardPoll == EditorInv /\ (Board \/ Panels) => PollInv'
<1>. SUFFICES ASSUME EditorInv, Board \/ Panels PROVE PollInv' OBVIOUS
<1>1. User /\ UNCHANGED <<store, requests>>
  BY DEF Board, OnConnect, OnEdgeDoubleClick, OnNodesDelete, Select, OnPaneClick,
         Panels, EditNode, EditNetwork, EditNodeId, EditEdge, kept
<1>. QED BY <1>1, BoardKeeps, PanelsKeep, PollKept, PollSame, UserBounded

LEMMA WakesPoll == EditorInv /\ Wakes => PollInv'
<1>. SUFFICES ASSUME EditorInv, Wakes PROVE PollInv' OBVIOUS
<1>1. UNCHANGED <<store, acts>>
  BY DEF Wakes, Tick, UpdateCounters, TopologyAnswer, LoadFails, Imported, Render, kept
<1>2. \A t \in timers : t.props.projectId \in Projects BY DEF EditorInv, PollInv
<1>3. \/ requests' = requests
      \/ \E kind \in Kinds, p \in Projects : Ask(kind, p) \/ Answered(kind, p)
  BY <1>2 DEF Wakes, Tick, UpdateCounters, TopologyAnswer, LoadFails, Imported, Render, Kinds
<1>. QED BY <1>1, <1>3, WakesKeep, PollKept, PollSame, AskBounded, AnsweredBounded
-----------------------------------------------------------------------------
LEMMA InitEditor == Init => EditorInv
<1>. SUFFICES ASSUME Init PROVE EditorInv OBVIOUS
<1>1. /\ nodes = InitialNodes /\ edges = InitialEdges /\ shown = Canvas
      /\ panels = NoPanels /\ gone = {} /\ reading = None /\ disk = None
      /\ store = [p \in Projects |-> None]
  BY DEF Init
<1>2. Saved = {} BY <1>1 DEF Saved
<1>3. Good(Canvas, gone)
  BY <1>1, GoodOf, DiagramAssumption, InitialAnchored DEF Canvas
<1>4. CanvasInv BY <1>1, <1>2, <1>3 DEF CanvasInv
<1>5. PanelInv BY <1>1, NoCopies DEF PanelInv
<1>6. /\ props \in [projectId : Projects, refreshFreq : Freqs]
      /\ timers = {[id |-> 1, props |-> props]} /\ timerRef = 1
      /\ requests = [r \in Kinds \X Projects |-> 0] /\ acts = 0
  BY DEF Init
<1>7. PollInv BY <1>1, <1>6, DiagramAssumption DEF PollInv
<1>. QED BY <1>4, <1>5, <1>7 DEF EditorInv

LEMMA SidebarEditor == EditorInv /\ Sidebar => CanvasInv' /\ PanelInv'
<1>. SUFFICES ASSUME EditorInv, Sidebar PROVE CanvasInv' /\ PanelInv' OBVIOUS
<1>1. CASE OnAddNode
  <2>1. shown.nodes \in Seq(Node) BY DEF EditorInv, CanvasInv, Good, Sound, Canvases
  <2>2. Len(shown.nodes) + 1 \in Int BY <2>1, Elements
  <2>. QED BY <1>1, <2>2, AddKeeps DEF OnAddNode
<1>2. CASE OnAddGPTNode
  <2>1. - acts \in Int BY DEF EditorInv, PollInv
  <2>. QED BY <1>2, <2>1, AddKeeps DEF OnAddGPTNode
<1>3. CASE OnRefresh \/ OnTopology
  <2>1. UNCHANGED <<view, kept>> BY <1>3 DEF OnRefresh, OnTopology
  <2>. QED BY <2>1, ViewKeeps
<1>. QED BY <1>1, <1>2, <1>3, SaveKeeps, RestoreKeeps, ClearKeeps, ExportKeeps, ImportKeeps
         DEF Sidebar

LEMMA BoardEditor == EditorInv /\ Board => CanvasInv' /\ PanelInv'
<1>. SUFFICES ASSUME EditorInv, Board PROVE CanvasInv' /\ PanelInv' OBVIOUS
<1>1. ASSUME NEW a \in Ids(shown.nodes), NEW b \in Ids(shown.nodes), OnConnect(a, b)
      PROVE  CanvasInv' /\ PanelInv'
  BY <1>1, ShownIds, ConnectKeeps
<1>2. ASSUME NEW ids, NEW marked, Select(ids, marked) PROVE CanvasInv' /\ PanelInv'
  <2>1. Flagged(ids, marked) /\ UNCHANGED <<kept, gone>> BY <1>2 DEF Select
  <2>. QED BY <2>1, FlaggedKeeps
<1>3. CASE OnPaneClick
  <2>1. Flagged({}, {}) /\ UNCHANGED <<kept, gone>> BY <1>3 DEF OnPaneClick
  <2>. QED BY <2>1, FlaggedKeeps
<1>. QED BY <1>1, <1>2, <1>3, EdgeRemovedKeeps, DeleteKeeps DEF Board

LEMMA PanelsEditor == EditorInv /\ Panels => CanvasInv' /\ PanelInv'
BY EditNodeKeeps, EditNetworkKeeps, EditNodeIdKeeps, EditEdgeKeeps, DiagramAssumption DEF Panels

LEMMA WakesEditor == EditorInv /\ Wakes => CanvasInv' /\ PanelInv'
<1>. SUFFICES ASSUME EditorInv, Wakes PROVE CanvasInv' /\ PanelInv' OBVIOUS
<1>1. CASE (\E t \in timers : Tick(t)) \/ \E k \in Kinds, p \in Projects : LoadFails(k, p)
  <2>1. UNCHANGED <<view, kept>> BY <1>1 DEF Tick, LoadFails
  <2>. QED BY <2>1, ViewKeeps
<1>2. CASE Render
  <2>1. Commit(nodes, edges, panels) /\ UNCHANGED <<kept, gone>> BY <1>2 DEF Render
  <2>. QED BY <2>1, RenderKeeps
<1>. QED BY <1>1, <1>2, CountersKeep, TopologyKeeps, ImportedKeeps DEF Wakes

LEMMA StepEditor == EditorInv /\ [Next]_vars => EditorInv'
<1>. SUFFICES ASSUME EditorInv, [Next]_vars PROVE EditorInv' OBVIOUS
<1>1. CASE Sidebar BY <1>1, SidebarEditor, SidebarPoll DEF EditorInv
<1>2. CASE Board BY <1>2, BoardEditor, BoardPoll DEF EditorInv
<1>3. CASE Panels BY <1>3, PanelsEditor, BoardPoll DEF EditorInv
<1>4. CASE Wakes BY <1>4, WakesEditor, WakesPoll DEF EditorInv
<1>5. ASSUME NEW new \in PropsSet, SetProps(new) PROVE EditorInv'
  <2>1. Commit(nodes, edges, panels) /\ UNCHANGED <<kept, gone>> BY <1>5 DEF SetProps
  <2>. QED BY <1>5, <2>1, RenderKeeps, PropsPoll DEF EditorInv
<1>6. ASSUME NEW text, Search(text) PROVE EditorInv'
  <2>1. User /\ UNCHANGED <<polling, kept, requests>> BY <1>6 DEF Search
  <2>2. UNCHANGED <<polling, store, requests>> BY <2>1 DEF kept
  <2>3. PollInv' BY <2>1, <2>2, UserBounded, PollSame, PollKept
  <2>. QED BY <1>6, <2>3, SearchKeeps DEF EditorInv
<1>7. CASE UNCHANGED vars
  <2>1. UNCHANGED <<view, polling, kept, requests, acts>> BY <1>7 DEF vars
  <2>2. UNCHANGED store BY <2>1 DEF kept
  <2>3. PollInv' BY <2>1, <2>2, PollSame, PollKept
  <2>. QED BY <2>1, <2>3, ViewKeeps DEF EditorInv
<1>. QED BY <1>1, <1>2, <1>3, <1>4, <1>5, <1>6, <1>7, Zenon DEF Next, PropsSet

LEMMA EditorHolds == Spec => []EditorInv
BY InitEditor, StepEditor, PTL DEF Spec

(* The canvases, rendered, queued and saved, the panels, the interval and the *)
(* requests have their types, with any projects, titles and ids               *)
(* (DiagramEditor.tsx:86-142).                                                *)
THEOREM TypeCorrect == Spec => []TypeOK
<1>1. EditorInv => TypeOK
  <2>. SUFFICES ASSUME EditorInv PROVE TypeOK OBVIOUS
  <2>1. \A c \in {Canvas, shown} \cup Saved : c \in Canvases
    BY DEF EditorInv, CanvasInv, Good, Sound
  <2>2. \A c \in {reading, disk} \cup {store[p] : p \in Projects} : c = None \/ c \in Canvases
    BY <2>1 DEF Saved
  <2>3. /\ panels.node # None =>
             panels.node \in [id : Int, title : Titles \cup {NewTitle},
                              network : Networks \cup {ChainUid, None}]
        /\ panels.edge # None =>
             panels.edge \in [source : Int, target : Int, label : Labels \cup {None}]
        /\ panels.network \in Networks \cup {None}
    BY PanelTypes DEF NodeCopy, EdgeCopy, Copies
  <2>. QED BY <2>1, <2>2, <2>3 DEF TypeOK, EditorInv, PollInv
<1>. QED BY <1>1, EditorHolds, PTL

(* Whichever answers of whichever projects arrive in whichever order, the *)
(* figures of a node are those of the contract with its id, or of an id that a *)
(* user has taken away (DiagramEditor.tsx:144-181, 193-250). *)
THEOREM AlwaysTelemetryIsOwn == Spec => []TelemetryIsOwn
<1>1. EditorInv => TelemetryIsOwn BY CanvasFacts DEF TelemetryIsOwn
<1>. QED BY <1>1, EditorHolds, PTL

(* No deletion, new topology, snapshot or import leaves an edge without its *)
(* ends (DiagramEditor.tsx:198-241, 321-325, 443-475). *)
THEOREM AlwaysEdgesAnchored == Spec => []EdgesAnchored
<1>1. EditorInv => EdgesAnchored BY CanvasFacts DEF EdgesAnchored
<1>. QED BY <1>1, EditorHolds, PTL

(* An open panel is that of the one element selected on the rendered canvas, *)
(* whatever was queued, rendered or searched before (DiagramEditor.tsx:328-371). *)
THEOREM AlwaysPanelShowsSelection == Spec => []PanelShowsSelection
<1>1. EditorInv => PanelShowsSelection
  BY DEF EditorInv, PanelInv, ShowsIn, PanelShowsSelection
<1>. QED BY <1>1, EditorHolds, PTL

(* The copies the panels edit are those of an element of the rendered canvas, *)
(* unless a snapshot replaced it; and the dropdown shows the node's network,  *)
(* unless it carries what was chosen for a node selected before               *)
(* (DiagramEditor.tsx:373-424, 443-475, NetworkDropdown.tsx:12-22).           *)
THEOREM AlwaysPanelFresh == Spec => []PanelFresh
<1>1. EditorInv => PanelFresh
  BY DEF EditorInv, PanelInv, CopiedIn, PanelFresh
<1>. QED BY <1>1, EditorHolds, PTL
=============================================================================
