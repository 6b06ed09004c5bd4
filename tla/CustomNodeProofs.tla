-------------------------- MODULE CustomNodeProofs --------------------------
(***************************************************************************)
(* What holds of a node of the canvas for any texts, any number of prompts *)
(* in flight and any number of events.                                     *)
(***************************************************************************)
EXTENDS CustomNode, FiniteSetTheorems, TLAPS

(* A data object is a record, and what was typed, answered or saved is there. *)
Object(o) ==
  /\ o = [ref |-> o.ref, input |-> o.input, output |-> o.output, inputText |-> o.inputText]
  /\ o.inputText # None

ObjInv ==
  /\ Object(current) /\ Object(data)
  /\ saved # None => saved.inputText # None
  /\ input # None /\ inputText # None
  /\ \A r \in requests : r.prompt # None

LEMMA FreshIs ==
  ASSUME NEW c, c.inputText # None
  PROVE  /\ Object(Fresh(c))
         /\ Fresh(c).input = c.input /\ Fresh(c).output = c.output
         /\ Fresh(c).inputText = c.inputText
BY DEF Fresh, Object

LEMMA ContentIs ==
  ASSUME NEW o
  PROVE  /\ Content(o).input = o.input /\ Content(o).output = o.output
         /\ Content(o).inputText = o.inputText
BY DEF Content

LEMMA WithTextIs ==
  ASSUME NEW text, text # None
  PROVE  /\ Object(WithText(text))
         /\ WithText(text).input = current.input /\ WithText(text).output = current.output
         /\ WithText(text).inputText = text
<1>. DEFINE c == [Content(current) EXCEPT !.inputText = text]
<1>1. c.inputText = text /\ c.input = current.input /\ c.output = current.output
  BY DEF Content
<1>. HIDE DEF c
<1>2. Object(Fresh(c)) /\ Fresh(c).input = c.input /\ Fresh(c).output = c.output
      /\ Fresh(c).inputText = c.inputText
  BY <1>1, FreshIs
<1>3. WithText(text) = Fresh(c) BY DEF WithText, c
<1>. QED BY <1>1, <1>2, <1>3

LEMMA OrIs ==
  ASSUME NEW value
  PROVE  Or(value) # None /\ (value # None => Or(value) = value)
BY NoneAssumption DEF Or

(* A field that is written is not the text, and the other field stays. *)
LEMMA FieldIs ==
  ASSUME NEW o, Object(o), NEW field \in {"input", "output"}, NEW value
  PROVE  LET w == [o EXCEPT ![field] = value]
         IN /\ Object(w) /\ w.ref = o.ref /\ w.inputText = o.inputText
            /\ w.input = IF field = "input" THEN value ELSE o.input
            /\ w.output = IF field = "output" THEN value ELSE o.output
<1>. DEFINE r == [ref |-> o.ref, input |-> o.input, output |-> o.output,
                  inputText |-> o.inputText]
            w == [r EXCEPT ![field] = value]
<1>1. o = r BY DEF Object
<1>2. CASE field = "input"
  <2>1. w = [ref |-> o.ref, input |-> value, output |-> o.output, inputText |-> o.inputText]
    BY <1>2
  <2>. QED BY <1>1, <1>2, <2>1 DEF Object
<1>3. CASE field = "output"
  <2>1. w = [ref |-> o.ref, input |-> o.input, output |-> value, inputText |-> o.inputText]
    BY <1>3
  <2>. QED BY <1>1, <1>3, <2>1 DEF Object
<1>. QED BY <1>2, <1>3
-----------------------------------------------------------------------------
(* Why the texts agree, as long as no snapshot has crossed a text: they do at    *)
(* once, or a snapshot is still to be rendered, or its text is still to be set.  *)
TextInv ==
  (mounted /\ ~ crossed) =>
    \/ queuedText = None /\ inputText = current.inputText
    \/ queuedText = None /\ inputText = data.inputText
       /\ inputText # current.inputText
    \/ queuedText # None /\ queuedText = current.inputText

(* What is shown is stored, but for what is lost. *)
NodeInv == ObjInv /\ TextInv /\ ShownIsStored

LEMMA WriteIs ==
  ASSUME ObjInv, NEW ref, NEW field \in {"input", "output"}, NEW value,
         Write(ref, field, value)
  PROVE  /\ Object(current') /\ Object(data')
         /\ current'.inputText = current.inputText /\ data'.inputText = data.inputText
         /\ field = "input" => /\ "input" \notin lost' => current'.input = value
                               /\ current'.output = current.output
                               /\ "output" \in lost => "output" \in lost'
         /\ field = "output" => /\ "output" \notin lost' => current'.output = value
                                /\ current'.input = current.input
                                /\ "input" \in lost => "input" \in lost'
<1>. DEFINE w(o) == [o EXCEPT ![field] = value]
<1>1. Object(current) /\ Object(data) BY DEF ObjInv
<1>2. /\ Object(w(current)) /\ w(current).inputText = current.inputText
      /\ w(current).input = IF field = "input" THEN value ELSE current.input
      /\ w(current).output = IF field = "output" THEN value ELSE current.output
  BY <1>1, FieldIs
<1>3. Object(w(data)) /\ w(data).inputText = data.inputText BY <1>1, FieldIs
<1>4. data' = data \/ data' = w(data) BY DEF Write
<1>5. \/ current' = w(current) /\ lost' = lost \ {field}
      \/ current' = current /\ lost' = lost \cup {field}
  BY DEF Write
<1>. HIDE DEF w
<1>6. Object(data') /\ data'.inputText = data.inputText BY <1>1, <1>3, <1>4
<1>7. CASE current' = w(current) /\ lost' = lost \ {field}
  BY <1>2, <1>6, <1>7
<1>8. CASE current' = current /\ lost' = lost \cup {field}
  BY <1>1, <1>6, <1>8
<1>. QED BY <1>5, <1>7, <1>8

(* The steps that replace the data by a copy of its content. *)
LEMMA SameNode ==
  ASSUME NodeInv, Object(current'), Object(data'),
         current'.input = current.input, current'.output = current.output,
         current'.inputText = current.inputText, data'.inputText = data.inputText,
         UNCHANGED <<mounted, inputText, queuedText, input, output, lost, crossed>>,
         saved' = saved \/ saved'.inputText # None,
         \A r \in requests' : r \in requests \/ r.prompt # None
  PROVE  NodeInv'
<1>1. ObjInv' BY DEF NodeInv, ObjInv
<1>2. TextInv' BY DEF NodeInv, TextInv
<1>3. ShownIsStored' BY DEF NodeInv, ShownIsStored, Or
<1>. QED BY <1>1, <1>2, <1>3 DEF NodeInv

LEMMA StepNode == NodeInv /\ [Next]_vars => NodeInv'
<1>. SUFFICES ASSUME NodeInv, [Next]_vars PROVE NodeInv'
  OBVIOUS
<1>a. ObjInv BY DEF NodeInv
<1>b. /\ Object(current) /\ Object(data) /\ current.inputText # None
      /\ input # None /\ inputText # None
  BY <1>a DEF ObjInv, Object
<1>1. ASSUME NEW t \in Texts, SetInputText(t) PROVE NodeInv'
  <2>1. t # None BY NoneAssumption
  <2>2. /\ current' = WithText(t) /\ inputText' = t /\ queuedText' = None
        /\ UNCHANGED <<mounted, data, input, output, requests, saved, lost, crossed>>
    BY <1>1 DEF SetInputText
  <2>3. /\ Object(current') /\ current'.inputText = t
        /\ current'.input = current.input /\ current'.output = current.output
    BY <2>1, <2>2, WithTextIs
  <2>4. ObjInv' BY <1>a, <2>1, <2>2, <2>3 DEF ObjInv
  <2>5. TextInv' BY <2>2, <2>3 DEF TextInv
  <2>6. ShownIsStored' BY <2>2, <2>3 DEF NodeInv, ShownIsStored, Or
  <2>. QED BY <2>4, <2>5, <2>6 DEF NodeInv
<1>2. CASE Render
  <2>. DEFINE text == IF queuedText = None THEN inputText ELSE queuedText
  <2>1. /\ mounted /\ data' = current /\ inputText' = text /\ queuedText' = DataEffect(text)
        /\ current' = IF text = inputText THEN current ELSE WithText(text)
        /\ UNCHANGED <<mounted, input, output, requests, saved, lost, crossed>>
    BY <1>2 DEF Render
  <2>2. text # None BY <1>b
  <2>. HIDE DEF text
  <2>3. /\ Object(current') /\ current'.input = current.input
        /\ current'.output = current.output
        /\ current'.inputText = IF text = inputText THEN current.inputText ELSE text
    BY <1>b, <2>1, <2>2, WithTextIs
  <2>4. ObjInv' BY <1>a, <2>1, <2>2, <2>3 DEF ObjInv
  <2>5. TextInv'
    <3>. SUFFICES ASSUME ~ crossed PROVE TextInv'
      BY <2>1 DEF TextInv
    <3>1. CASE queuedText = None /\ inputText = current.inputText
      BY <2>1, <2>3, <3>1 DEF text, DataEffect, TextInv
    <3>2. CASE queuedText = None /\ inputText = data.inputText /\ inputText # current.inputText
      BY <1>b, <2>1, <2>3, <3>2 DEF text, DataEffect, TextInv
    <3>3. CASE queuedText # None /\ queuedText = current.inputText
      BY <2>1, <2>3, <3>3 DEF text, DataEffect, TextInv
    <3>. QED BY <2>1, <3>1, <3>2, <3>3 DEF NodeInv, TextInv
  <2>6. ShownIsStored' BY <2>1, <2>3 DEF NodeInv, ShownIsStored, Or
  <2>. QED BY <2>4, <2>5, <2>6 DEF NodeInv
<1>3. CASE Copy
  <2>1. /\ current' = Fresh(Content(current))
        /\ UNCHANGED <<mounted, data, inputText, queuedText, input, output, requests, saved,
                       lost, crossed>>
    BY <1>3 DEF Copy, local
  <2>2. /\ Object(current') /\ current'.input = current.input
        /\ current'.output = current.output /\ current'.inputText = current.inputText
    BY <1>b, <2>1, FreshIs, ContentIs
  <2>. QED BY <1>b, <2>1, <2>2, SameNode
<1>4. ASSUME NEW t \in Texts, HandleInputChange(t) PROVE NodeInv'
  <2>1. t # None BY NoneAssumption
  <2>2. /\ input' = t /\ Write(data.ref, "input", t)
        /\ UNCHANGED <<mounted, inputText, queuedText, output, requests, saved, crossed>>
    BY <1>4 DEF HandleInputChange
  <2>3. ObjInv' BY <1>a, <2>1, <2>2, WriteIs DEF ObjInv
  <2>4. TextInv' BY <1>a, <2>2, WriteIs DEF NodeInv, TextInv
  <2>5. /\ "input" \notin lost' => current'.input = t
        /\ current'.output = current.output
        /\ "output" \in lost => "output" \in lost'
    BY <1>a, <2>2, WriteIs
  <2>6. ShownIsStored' BY <2>1, <2>2, <2>5 DEF NodeInv, ShownIsStored, Or
  <2>. QED BY <2>3, <2>4, <2>6 DEF NodeInv
<1>5. CASE HandleSubmit
  <2>1. /\ requests' = requests \cup {[ref |-> data.ref, prompt |-> input]}
        /\ UNCHANGED <<mounted, current, data, inputText, queuedText, input, output, saved,
                       lost, crossed>>
    BY <1>5 DEF HandleSubmit
  <2>2. \A r \in requests' : r \in requests \/ r.prompt # None BY <1>b, <2>1
  <2>. QED BY <1>b, <2>1, <2>2, SameNode
<1>6. ASSUME NEW r \in requests, Answer(r) PROVE NodeInv'
  <2>1. /\ output' \in {r.prompt, "failed"} /\ Write(r.ref, "output", output')
        /\ requests' = requests \ {r}
        /\ UNCHANGED <<mounted, inputText, queuedText, input, saved, crossed>>
    BY <1>6 DEF Answer, Responses
  <2>2. output' # None BY <1>a, <2>1, NoneAssumption DEF ObjInv
  <2>3. ObjInv' BY <1>a, <2>1, WriteIs DEF ObjInv
  <2>4. TextInv' BY <1>a, <2>1, WriteIs DEF NodeInv, TextInv
  <2>5. /\ "output" \notin lost' => current'.output = output'
        /\ current'.input = current.input
        /\ "input" \in lost => "input" \in lost'
    BY <1>a, <2>1, WriteIs
  <2>6. ShownIsStored' BY <2>1, <2>2, <2>5 DEF NodeInv, ShownIsStored, Or
  <2>. QED BY <2>3, <2>4, <2>6 DEF NodeInv
<1>7. CASE OnDelete
  <2>1. mounted' = FALSE /\ requests' = {}
        /\ UNCHANGED <<current, data, inputText, input, saved>>
    BY <1>7 DEF OnDelete
  <2>2. ObjInv' BY <1>a, <2>1 DEF ObjInv
  <2>. QED BY <2>1, <2>2 DEF NodeInv, TextInv, ShownIsStored
<1>8. CASE OnSave
  <2>1. /\ saved' = Content(data)
        /\ UNCHANGED <<mounted, current, data, inputText, queuedText, input, output, requests,
                       lost, crossed>>
    BY <1>8 DEF OnSave, local
  <2>2. saved'.inputText # None BY <1>b, <2>1, ContentIs DEF Object
  <2>. QED BY <1>b, <2>1, <2>2, SameNode
<1>9. CASE OnRestore
  <2>1. /\ mounted /\ saved # None /\ current' = Fresh(saved) /\ lost' = {"input", "output"}
        /\ crossed' = (crossed \/ ~ AtRest)
        /\ UNCHANGED <<mounted, data, inputText, queuedText, input, output, requests, saved>>
    BY <1>9 DEF OnRestore, local
  <2>2. Object(current') /\ current'.inputText = saved.inputText
    BY <1>a, <2>1, FreshIs DEF ObjInv
  <2>3. ObjInv' BY <1>a, <2>1, <2>2 DEF ObjInv
  <2>4. TextInv'
    <3>. SUFFICES ASSUME ~ crossed' PROVE TextInv'
      BY DEF TextInv
    <3>1. ~ crossed /\ queuedText = None /\ current = data BY <2>1 DEF AtRest
    <3>2. inputText = data.inputText BY <2>1, <3>1 DEF NodeInv, TextInv
    <3>. QED BY <2>1, <3>1, <3>2 DEF TextInv
  <2>5. ShownIsStored' BY <2>1 DEF ShownIsStored
  <2>. QED BY <2>3, <2>4, <2>5 DEF NodeInv
<1>10. CASE Mount
  <2>. DEFINE o == [ref |-> 0, input |-> saved.input, output |-> saved.output,
                    inputText |-> saved.inputText]
  <2>1. /\ saved # None /\ data' = o
        /\ current' = [o EXCEPT !.ref = 1, !.inputText = Or(@)]
        /\ inputText' = Or(saved.inputText) /\ queuedText' = None
        /\ input' = Or(saved.input) /\ output' = Or(saved.output)
        /\ lost' = {} /\ UNCHANGED <<requests, saved>>
    BY <1>10 DEF Mount
  <2>2. current' = [ref |-> 1, input |-> saved.input, output |-> saved.output,
                    inputText |-> Or(saved.inputText)]
    BY <2>1
  <2>3. Object(current') BY <2>2, OrIs DEF Object
  <2>4. Object(data') BY <1>a, <2>1 DEF Object, ObjInv
  <2>5. inputText' # None /\ input' # None BY <2>1, OrIs
  <2>6. ObjInv' BY <1>a, <2>1, <2>3, <2>4, <2>5 DEF ObjInv
  <2>7. TextInv' BY <2>1, <2>2 DEF TextInv
  <2>8. ShownIsStored' BY <2>1, <2>2 DEF ShownIsStored
  <2>. QED BY <2>6, <2>7, <2>8 DEF NodeInv
<1>11. CASE UNCHANGED vars
  <2>1. UNCHANGED <<mounted, current, data, inputText, queuedText, input, output, requests,
                    saved, lost, crossed>>
    BY <1>11 DEF vars, local
  <2>. QED BY <1>b, <2>1, SameNode
<1>. QED
  BY <1>1, <1>2, <1>3, <1>4, <1>5, <1>6, <1>7, <1>8, <1>9, <1>10, <1>11 DEF Next

LEMMA InitNode == Init => NodeInv
<1>. SUFFICES ASSUME Init PROVE NodeInv
  OBVIOUS
<1>1. current = [ref |-> 0, input |-> None, output |-> None, inputText |-> ""] /\ data = current
      /\ inputText = "" /\ input = "" /\ output = "" /\ queuedText = None
      /\ requests = {} /\ saved = None
  BY DEF Init
<1>2. Object(current) BY <1>1, NoneAssumption DEF Object
<1>3. ObjInv BY <1>1, <1>2, NoneAssumption DEF ObjInv
<1>4. TextInv BY <1>1 DEF TextInv
<1>5. ShownIsStored BY <1>1 DEF ShownIsStored, Or
<1>. QED BY <1>3, <1>4, <1>5 DEF NodeInv

LEMMA AlwaysNode == Spec => []NodeInv
BY InitNode, StepNode, PTL DEF Spec

(* The text on the screen is the text that is saved, once the two effects of      *)
(* CustomNode.tsx:61-76 have come to rest and no snapshot has crossed them.        *)
THEOREM TextsAgree == Spec => []TextAgrees
<1>1. NodeInv => TextAgrees BY DEF NodeInv, TextInv, TextAgrees, AtRest
<1>. QED BY <1>1, AlwaysNode, PTL

(* The prompt and the answer on the screen are the node's, unless they went to a  *)
(* data object that a copy had replaced (CustomNode.tsx:100-121).                  *)
THEOREM ShownStored == Spec => []ShownIsStored
<1>1. NodeInv => ShownIsStored BY DEF NodeInv
<1>. QED BY <1>1, AlwaysNode, PTL
-----------------------------------------------------------------------------
(* Of one more number than there are objects held, one is the next reference. *)
LEMMA FreshRef ==
  ASSUME TypeOK, NEW c
  PROVE  Fresh(c).ref \in Nat
<1>. DEFINE Ref == [r \in requests |-> r.ref]
            Refs == {r.ref : r \in requests}
            held == {current.ref, data.ref} \cup Refs
            n == Cardinality(held)
<1>1. IsFiniteSet(Refs)
  <2>1. Ref \in Surjection(requests, Refs) BY DEF Surjection
  <2>. QED BY <2>1, FS_Surjection DEF TypeOK
<1>2. IsFiniteSet(held)
  <2>1. IsFiniteSet(Refs \cup {current.ref}) BY <1>1, FS_AddElement
  <2>2. IsFiniteSet((Refs \cup {current.ref}) \cup {data.ref}) BY <2>1, FS_AddElement
  <2>3. held = (Refs \cup {current.ref}) \cup {data.ref} OBVIOUS
  <2>. QED BY <2>2, <2>3
<1>. HIDE DEF held
<1>3. n \in Nat BY <1>2, FS_CardinalityType
<1>4. \E k \in 0..n : k \notin held
  <2>. SUFFICES ASSUME 0..n \in SUBSET held PROVE FALSE
    OBVIOUS
  <2>1. Cardinality(0..n) <= n BY <1>2, FS_Subset
  <2>2. Cardinality(0..n) = n + 1 BY <1>3, FS_Interval
  <2>. QED BY <1>3, <2>1, <2>2
<1>5. (CHOOSE k \in 0..n : k \notin held) \in Nat BY <1>3, <1>4
<1>6. Fresh(c).ref = CHOOSE k \in 0..n : k \notin held BY DEF Fresh, held
<1>. QED BY <1>5, <1>6

LEMMA FreshType ==
  ASSUME TypeOK, NEW c \in Snapshots
  PROVE  Fresh(c) \in Objects
<1>1. Fresh(c) = [ref |-> Fresh(c).ref, input |-> c.input, output |-> c.output,
                  inputText |-> c.inputText]
  BY DEF Fresh
<1>. QED BY <1>1, FreshRef DEF Objects, Snapshots

LEMMA ContentType == ASSUME NEW o \in Objects PROVE Content(o) \in Snapshots
BY DEF Content, Objects, Snapshots

LEMMA WithTextType ==
  ASSUME TypeOK, NEW text \in Texts
  PROVE  WithText(text) \in Objects
<1>. DEFINE c == [Content(current) EXCEPT !.inputText = text]
<1>1. c \in Snapshots BY ContentType DEF TypeOK, Snapshots
<1>. HIDE DEF c
<1>2. Fresh(c) \in Objects BY <1>1, FreshType
<1>. QED BY <1>2 DEF WithText, c

LEMMA WriteType ==
  ASSUME TypeOK, NEW ref, NEW field \in {"input", "output"},
         NEW value \in IF field = "input" THEN Texts ELSE Outputs, Write(ref, field, value)
  PROVE  current' \in Objects /\ data' \in Objects
<1>1. ASSUME NEW o \in Objects PROVE [o EXCEPT ![field] = value] \in Objects
  <2>1. CASE field = "input" BY <1>1, <2>1 DEF Objects
  <2>2. CASE field = "output" BY <1>1, <2>2 DEF Objects
  <2>. QED BY <2>1, <2>2
<1>. QED BY <1>1 DEF Write, TypeOK

LEMMA InitType == Init => TypeOK
<1>. SUFFICES ASSUME Init PROVE TypeOK
  OBVIOUS
<1>1. current \in Objects BY TextsAssumption DEF Init, Objects
<1>. QED BY <1>1, TextsAssumption, FS_EmptySet DEF Init, TypeOK, Outputs

LEMMA StepType == TypeOK /\ [Next]_vars => TypeOK'
<1>. SUFFICES ASSUME TypeOK, [Next]_vars PROVE TypeOK'
  OBVIOUS
<1>1. ASSUME NEW t \in Texts, SetInputText(t) PROVE TypeOK'
  <2>1. current' \in Objects BY <1>1, WithTextType DEF SetInputText
  <2>. QED BY <1>1, <2>1 DEF SetInputText, TypeOK
<1>2. CASE Render
  <2>. DEFINE text == IF queuedText = None THEN inputText ELSE queuedText
  <2>1. text \in Texts BY DEF TypeOK
  <2>2. /\ data' = current /\ inputText' = text /\ queuedText' = DataEffect(text)
        /\ current' = IF text = inputText THEN current ELSE WithText(text)
    BY <1>2 DEF Render
  <2>. HIDE DEF text
  <2>3. current' \in Objects BY <2>1, <2>2, WithTextType DEF TypeOK
  <2>4. queuedText' \in Texts \cup {None} BY <2>2 DEF DataEffect, TypeOK, Objects
  <2>. QED BY <1>2, <2>1, <2>2, <2>3, <2>4 DEF Render, TypeOK
<1>3. CASE Copy
  <2>1. current' \in Objects BY <1>3, ContentType, FreshType DEF Copy, TypeOK
  <2>. QED BY <1>3, <2>1 DEF Copy, local, TypeOK
<1>4. ASSUME NEW t \in Texts, HandleInputChange(t) PROVE TypeOK'
  <2>1. Write(data.ref, "input", t) BY <1>4 DEF HandleInputChange
  <2>2. current' \in Objects /\ data' \in Objects BY <2>1, WriteType
  <2>. QED BY <1>4, <2>2 DEF HandleInputChange, TypeOK
<1>5. CASE HandleSubmit
  <2>. DEFINE r == [ref |-> data.ref, prompt |-> input]
  <2>1. requests' = requests \cup {r} BY <1>5 DEF HandleSubmit
  <2>2. r \in [ref : Nat, prompt : Texts] BY DEF TypeOK, Objects
  <2>. HIDE DEF r
  <2>3. IsFiniteSet(requests') BY <2>1, FS_AddElement DEF TypeOK
  <2>. QED BY <1>5, <2>1, <2>2, <2>3 DEF HandleSubmit, TypeOK
<1>6. ASSUME NEW r \in requests, Answer(r) PROVE TypeOK'
  <2>1. r.prompt \in Texts BY DEF TypeOK
  <2>2. output' \in Outputs BY <1>6, <2>1 DEF Answer, Responses, Outputs
  <2>3. Write(r.ref, "output", output') BY <1>6 DEF Answer
  <2>4. current' \in Objects /\ data' \in Objects BY <2>2, <2>3, WriteType
  <2>5. requests' = requests \ {r} BY <1>6 DEF Answer
  <2>6. IsFiniteSet(requests') BY <2>5, FS_RemoveElement DEF TypeOK
  <2>. QED BY <1>6, <2>2, <2>4, <2>5, <2>6 DEF Answer, Finally, TypeOK
<1>7. CASE OnDelete BY <1>7, FS_EmptySet DEF OnDelete, TypeOK
<1>8. CASE OnSave
  <2>1. saved' \in Snapshots BY <1>8, ContentType DEF OnSave, TypeOK
  <2>. QED BY <1>8, <2>1 DEF OnSave, local, TypeOK
<1>9. CASE OnRestore
  <2>1. saved \in Snapshots BY <1>9 DEF OnRestore, TypeOK
  <2>2. current' \in Objects BY <1>9, <2>1, FreshType DEF OnRestore
  <2>. QED BY <1>9, <2>2 DEF OnRestore, local, TypeOK
<1>10. CASE Mount
  <2>. DEFINE o == [ref |-> 0, input |-> saved.input, output |-> saved.output,
                    inputText |-> saved.inputText]
  <2>1. saved \in Snapshots BY <1>10 DEF Mount, TypeOK
  <2>2. /\ saved.input \in Texts \cup {None} /\ saved.output \in Outputs \cup {None}
        /\ saved.inputText \in Texts
    BY <2>1 DEF Snapshots
  <2>3. /\ data' = o
        /\ current' = [ref |-> 1, input |-> saved.input, output |-> saved.output,
                       inputText |-> Or(saved.inputText)]
    BY <1>10 DEF Mount
  <2>4. /\ Or(saved.inputText) \in Texts /\ Or(saved.input) \in Texts
        /\ Or(saved.output) \in Outputs
    BY <2>2, TextsAssumption DEF Or, Outputs
  <2>5. data' \in Objects /\ current' \in Objects BY <2>2, <2>3, <2>4 DEF Objects
  <2>. QED BY <1>10, <2>4, <2>5 DEF Mount, TypeOK
<1>11. CASE UNCHANGED vars BY <1>11 DEF vars, local, TypeOK
<1>. QED
  BY <1>1, <1>2, <1>3, <1>4, <1>5, <1>6, <1>7, <1>8, <1>9, <1>10, <1>11 DEF Next

(* For any texts and any number of prompts in flight the objects, texts and       *)
(* requests keep their types, and there is always a new reference for a copy.      *)
THEOREM TypeCorrect == Spec => []TypeOK
BY InitType, StepType, PTL DEF Spec
=============================================================================
