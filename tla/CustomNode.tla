----------------------------- MODULE CustomNode -----------------------------
(***************************************************************************)
(* One node of the canvas (ext-helicopter, CustomNode.tsx): the text of an *)
(* info node, which two effects keep equal to the data of the node, and    *)
(* the prompt and answer of a GPT node, which handlers write into the data *)
(* object they closed over.  The editor replaces that object by a copy     *)
(* whenever it updates the node, so an object carries its identity (ref).  *)
(* What the user types is rendered at once, what setNodes and the effects  *)
(* queue by Render.                                                        *)
(***************************************************************************)
EXTENDS Naturals, FiniteSets

CONSTANTS
  Texts,                  \* what the user may type; "" is among them
  MaxFlight,              \* bound: prompts that wait for an answer
  MaxActs,                \* bound: events of the user and of the editor
  None                    \* undefined

VARIABLES
  nodeType,               \* "gpt" or "info"
  mounted,
  current,                \* the data object in the nodes state
  data,                   \* the data object of the last render
  inputText, queuedText,  \* the text as rendered, and as an effect has set it
  input, output, isLoading,
  requests,               \* calls of getGPTResponse: the prompt and the data object
  saved,                  \* the node in localStorage
  acts,
  lost,                   \* history: what is shown and was not put into the node
  crossed                 \* history: the node was replaced while a text was under way

ASSUME NoneAssumption == None \notin Texts /\ None # "" /\ None # "failed"
ASSUME TextsAssumption == "" \in Texts

local == <<inputText, queuedText, input, output, isLoading>>
vars == <<nodeType, mounted, current, data, local, requests, saved, acts, lost, crossed>>

Or(value) == IF value = None THEN "" ELSE value
Content(o) == [input |-> o.input, output |-> o.output, inputText |-> o.inputText]

(* A new object: the least reference nobody holds. *)
Fresh(content) ==
  LET held == {current.ref, data.ref} \cup {r.ref : r \in requests}
  IN [ref |-> CHOOSE n \in 0..Cardinality(held) : n \notin held,
      input |-> content.input, output |-> content.output,
      inputText |-> content.inputText]

\* mutant: the rest of the data is not spread into the copy
WithTextOnly(text) == Fresh([input |-> None, output |-> None, inputText |-> text])

(* The effect on inputText: a copy of the data with the text in it. *)
WithText(text) == Fresh([Content(current) EXCEPT !.inputText = text])

Act == acts < MaxActs /\ acts' = acts + 1

AtRest == queuedText = None /\ current = data

Init ==
  /\ nodeType \in {"gpt", "info"}
  /\ mounted = TRUE
  /\ current = [ref |-> 0, input |-> None, output |-> None, inputText |-> ""]
  /\ data = current
  /\ inputText = ""
  /\ queuedText = None
  /\ input = ""
  /\ output = ""
  /\ isLoading = FALSE
  /\ requests = {}
  /\ saved = None
  /\ acts = 0
  /\ lost = {}
  /\ crossed = FALSE

(* Typing into an info node: rendered with its effect; the copy is queued. *)
SetInputText(text) ==
  /\ Act
  /\ mounted /\ nodeType = "info"
  /\ text # inputText
  /\ inputText' = text
  /\ queuedText' = None
  /\ current' = WithText(text)
  /\ UNCHANGED <<nodeType, mounted, data, input, output, isLoading, requests, saved,
                 lost, crossed>>

\* mutant: no effect on data.inputText
NoDataEffect(text) == None

(* The effect on data.inputText: the text of the node is set, if it has one. *)
DataEffect(text) ==
  IF current.inputText \in {None, data.inputText, text} THEN None ELSE current.inputText

Render ==
  LET text == IF queuedText = None THEN inputText ELSE queuedText
  IN /\ mounted
     /\ ~ AtRest
     /\ data' = current
     /\ inputText' = text
     /\ queuedText' = DataEffect(text)
     /\ current' = IF text = inputText THEN current ELSE WithText(text)
     /\ UNCHANGED <<nodeType, mounted, input, output, isLoading, requests, saved, acts,
                    lost, crossed>>

\* mutant: the click on the pane copies only the text
CopyWithoutData ==
  /\ Act
  /\ mounted
  /\ current' = WithTextOnly(current.inputText)
  /\ UNCHANGED <<nodeType, mounted, data, local, requests, saved, lost, crossed>>

(* Every update of the node by the editor copies its data: a click on the   *)
(* pane, telemetry, an edit in the property panel.                          *)
Copy ==
  /\ Act
  /\ mounted
  /\ current' = Fresh(Content(current))
  /\ UNCHANGED <<nodeType, mounted, data, local, requests, saved, lost, crossed>>

(* What a handler writes into the data object it closed over. *)
Write(ref, field, value) ==
  /\ current' = IF current.ref = ref THEN [current EXCEPT ![field] = value] ELSE current
  /\ data' = IF data.ref = ref THEN [data EXCEPT ![field] = value] ELSE data
  /\ lost' = IF current.ref = ref THEN lost \ {field} ELSE lost \cup {field}

HandleInputChange(text) ==
  /\ Act
  /\ mounted /\ nodeType = "gpt"
  /\ input' = text
  /\ Write(data.ref, "input", text)
  /\ UNCHANGED <<nodeType, mounted, inputText, queuedText, output, isLoading, requests,
                 saved, crossed>>

(* The button is disabled while loading; Ctrl+Enter in the textarea is not. *)
HandleSubmit ==
  /\ Act
  /\ mounted /\ nodeType = "gpt"
  /\ input # ""
  /\ Cardinality(requests) < MaxFlight
  /\ isLoading' = TRUE
  /\ requests' = requests \cup {[ref |-> data.ref, prompt |-> input]}
  /\ UNCHANGED <<nodeType, mounted, current, data, inputText, queuedText, input, output,
                 saved, lost, crossed>>

(* The finally clause. *)
Finally == FALSE

Responses(prompt) == {prompt, "failed"}

(* getGPTResponse answers, or answers that it failed: it never throws. *)
Answer(r) ==
  /\ r \in requests
  /\ requests' = requests \ {r}
  /\ output' \in Responses(r.prompt)
  /\ Write(r.ref, "output", output')
  /\ isLoading' = Finally
  /\ UNCHANGED <<nodeType, mounted, inputText, queuedText, input, saved, acts, crossed>>

(* The component is unmounted: its promises set nothing that is rendered. *)
OnDelete ==
  /\ Act
  /\ mounted
  /\ mounted' = FALSE
  /\ requests' = {}
  /\ isLoading' = FALSE
  /\ UNCHANGED <<nodeType, current, data, inputText, queuedText, input, output, saved,
                 lost, crossed>>

OnSave ==
  /\ Act
  /\ mounted
  /\ saved' = Content(data)
  /\ UNCHANGED <<nodeType, mounted, current, data, local, requests, lost, crossed>>

(* Restore or import: another data object under a component that stays mounted; *)
(* only inputText follows it.                                                   *)
OnRestore ==
  /\ Act
  /\ mounted
  /\ saved # None
  /\ current' = Fresh(saved)
  /\ lost' = {"input", "output"}
  /\ crossed' = (crossed \/ ~ AtRest)
  /\ UNCHANGED <<nodeType, mounted, data, local, requests, saved>>

(* The same after a deletion: the component is mounted with its first effects. *)
Mount ==
  /\ Act
  /\ ~ mounted
  /\ saved # None
  /\ mounted' = TRUE
  /\ data' = [ref |-> 0, input |-> saved.input, output |-> saved.output,
              inputText |-> saved.inputText]
  /\ current' = [data' EXCEPT !.ref = 1, !.inputText = Or(@)]
  /\ inputText' = Or(saved.inputText)
  /\ queuedText' = None
  /\ input' = Or(saved.input)
  /\ output' = Or(saved.output)
  /\ isLoading' = FALSE
  /\ lost' = {}
  /\ crossed' = FALSE
  /\ UNCHANGED <<nodeType, requests, saved>>

Next ==
  \/ \E t \in Texts : SetInputText(t) \/ HandleInputChange(t)
  \/ Render
  \/ Copy
  \/ HandleSubmit
  \/ \E r \in requests : Answer(r)
  \/ OnDelete
  \/ OnSave
  \/ OnRestore
  \/ Mount

Spec == Init /\ [][Next]_vars
-----------------------------------------------------------------------------
(* Types of the objects, the texts, the requests and the snapshot. *)
Outputs == Texts \cup {"failed"}
Objects == [ref : Nat, input : Texts \cup {None}, output : Outputs \cup {None},
            inputText : Texts]
Snapshots == [input : Texts \cup {None}, output : Outputs \cup {None}, inputText : Texts]
TypeOK ==
  /\ current \in Objects /\ data \in Objects
  /\ inputText \in Texts /\ queuedText \in Texts \cup {None}
  /\ input \in Texts /\ output \in Outputs
  /\ isLoading \in BOOLEAN /\ mounted \in BOOLEAN
  /\ requests \subseteq [ref : Nat, prompt : Texts] /\ IsFiniteSet(requests)
  /\ saved \in Snapshots \cup {None}

(* Once nothing is queued the text in the textarea is the text in the node,  *)
(* which is what Save writes, unless the node was replaced while the effects *)
(* of CustomNode.tsx:61-76 were passing a text on.                           *)
TextAgrees ==
  mounted /\ AtRest /\ ~ crossed => inputText = current.inputText

(* The prompt and the answer on the screen are those of the node, unless they *)
(* were written to a data object that a copy had already replaced             *)
(* (CustomNode.tsx:103,113), or the node was replaced by a snapshot.          *)
ShownIsStored ==
  mounted =>
    /\ "input" \notin lost => input = Or(current.input)
    /\ "output" \notin lost => output = Or(current.output)
=============================================================================
