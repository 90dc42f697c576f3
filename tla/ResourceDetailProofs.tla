------------------------ MODULE ResourceDetailProofs ------------------------
(* Theorems about ResourceDetail, for any resources, links, presses, versions *)
(* and failures.                                                              *)
EXTENDS ResourceDetail, FiniteSetTheorems, SequenceTheorems, TLAPS

-----------------------------------------------------------------------------
(* What a render leaves.                                                     *)

\* What the editor is given is the text of the resource shown, if there is one.
LEMMA ValueIsOfTheTarget ==
  ASSUME target' \in Target \cup {None}, nonce' \in 0 .. MaxNonce,
         query' \in [Key -> AnEntry]
  PROVE  /\ Value' \in AText
         /\ target' # None /\ query'[<<target', nonce'>>].data # Nothing => Value'.of = target'
<1>1. CASE target' = None \/ query'[<<target', nonce'>>].data = Nothing
  BY <1>1 DEF Value, AText, Blank, Text
<1>2. CASE target' # None /\ query'[<<target', nonce'>>].data # Nothing
  <2>1. <<target', nonce'>> \in Key
    BY <1>2 DEF Key
  <2>2. query'[<<target', nonce'>>].data \in Int
    BY <2>1 DEF AnEntry
  <2>3. Value' = Text(target', query'[<<target', nonce'>>].data)
    BY <1>2 DEF Value
  <2>4. QED
    BY <1>2, <2>2, <2>3 DEF Text, AText
<1>3. QED
  BY <1>1, <1>2

LEMMA RenderedSettles ==
  ASSUME NEW ed \in AnEditor, Rendered(ed), Value' \in AText
  PROVE  /\ editor' \in AnEditor
         /\ editor'.editing = ed.editing /\ editor'.applying = ed.applying
         /\ ed.editing => editor'.draft = ed.draft
         /\ Settled' /\ DirtyIsKnown'
BY DEF Rendered, AnEditor, Settled, DirtyIsKnown

LEMMA MountedSettles ==
  ASSUME Mounted, Value' \in AText
  PROVE  /\ editor' \in AnEditor
         /\ editor'.editing = FALSE /\ editor'.applying = FALSE
         /\ Settled' /\ DirtyIsKnown'
<1>1. editor' = [draft |-> Value', editing |-> FALSE, applying |-> FALSE]
  BY DEF Mounted, NoEditor
<1>2. editor'.draft = Value' /\ editor'.editing = FALSE /\ editor'.applying = FALSE
  BY <1>1
<1>3. editor' \in AnEditor
  BY <1>1 DEF AnEditor
<1>4. Typed' = FALSE /\ isYamlDirty' = FALSE
  BY <1>2 DEF Mounted, Typed
<1>5. QED
  BY <1>2, <1>3, <1>4 DEF Settled, DirtyIsKnown

LEMMA NoEditorIsOne == NoEditor \in AnEditor /\ ~NoEditor.editing /\ ~NoEditor.applying
BY DEF NoEditor, AnEditor, AText, Blank, Text

\* A query that is observed keeps its shape.
LEMMA ObservedShape ==
  ASSUME NEW q \in [Key -> AnEntry], NEW k \in Key
  PROVE  /\ Fetched(q, k) \in [Key -> AnEntry]
         /\ Observed(q, k) \subseteq [Key -> AnEntry]
<1>1. Fetched(q, k) \in [Key -> AnEntry]
  <2>1. q[k] \in AnEntry
    OBVIOUS
  <2>2. q[k].data \in Int /\ (q[k].error /\ q[k].data # Nothing) \in BOOLEAN
    BY <2>1 DEF AnEntry
  <2> DEFINE entry == [data |-> q[k].data, error |-> q[k].error /\ q[k].data # Nothing,
                       invalid |-> FALSE, fetch |-> "sent", read |-> Nothing]
  <2>3. entry \in AnEntry
    BY <2>2 DEF AnEntry, Nothing
  <2> HIDE DEF entry
  <2>4. [q EXCEPT ![k] = entry] \in [Key -> AnEntry]
    BY <2>3
  <2>5. QED
    BY <2>4 DEF Fetched, entry
<1>2. QED
  BY <1>1 DEF Observed

-----------------------------------------------------------------------------
(* The calls.                                                                *)

LEMMA CallsAreFinite ==
  ASSUME applies \in Seq(ACall)
  PROVE  IsFiniteSet(UnderWay) /\ Cardinality(UnderWay) \in Nat
<1>1. UnderWay \subseteq 1 .. Len(applies) /\ Len(applies) \in Nat
  BY DEF UnderWay
<1>2. IsFiniteSet(1 .. Len(applies))
  BY <1>1, FS_Interval
<1>3. IsFiniteSet(UnderWay)
  BY <1>1, <1>2, FS_Subset
<1>4. QED
  BY <1>3, FS_CardinalityType

LEMMA NonceInRange == ASSUME IInv PROVE nonce \in 0 .. MaxNonce
<1>1. Cardinality(UnderWay) \in Nat /\ nonce \in Nat /\ MaxNonce \in Nat
  BY CallsAreFinite, ResourceAssumption DEF IInv, ShapeOK
<1>2. QED
  BY <1>1 DEF IInv, NoncesCounted

\* An editor that is gone waits for nothing; the calls go on.
LEMMA OrphanedCalls ==
  ASSUME applies \in Seq(ACall), applies' = Orphaned
  PROVE  /\ applies' \in Seq(ACall) /\ DOMAIN applies' = DOMAIN applies
         /\ \A i \in DOMAIN applies : /\ applies'[i].on = applies[i].on
                                      /\ applies'[i].text = applies[i].text
                                      /\ applies'[i].state = applies[i].state
                                      /\ ~applies'[i].mounted
         /\ UnderWay' = UnderWay
<1>1. /\ DOMAIN applies = 1 .. Len(applies) /\ Len(applies) \in Nat
      /\ \A i \in DOMAIN applies : applies[i] \in ACall
  OBVIOUS
<1>2. /\ DOMAIN applies' = DOMAIN applies
      /\ \A i \in DOMAIN applies : /\ applies'[i] \in ACall
                                   /\ applies'[i].on = applies[i].on
                                   /\ applies'[i].text = applies[i].text
                                   /\ applies'[i].state = applies[i].state
                                   /\ applies'[i].mounted = FALSE
  BY <1>1 DEF Orphaned, ACall
<1>3. applies' = [i \in 1 .. Len(applies) |-> applies'[i]]
  BY <1>1 DEF Orphaned
<1>4. applies' \in Seq(ACall)
  BY <1>1, <1>2, <1>3
<1>5. UnderWay' = UnderWay
  BY <1>2 DEF UnderWay
<1>6. QED
  BY <1>2, <1>4, <1>5

\* A call of which only the state changes.
LEMMA ChangedCall ==
  ASSUME applies \in Seq(ACall), NEW i \in DOMAIN applies, applies[i].state # "done",
         NEW s \in {"sent", "patched", "stored", "failed"},
         applies' = [applies EXCEPT ![i].state = s]
  PROVE  /\ applies' \in Seq(ACall) /\ DOMAIN applies' = DOMAIN applies
         /\ \A j \in DOMAIN applies : /\ applies'[j].on = applies[j].on
                                      /\ applies'[j].text = applies[j].text
                                      /\ applies'[j].mounted = applies[j].mounted
                                      /\ (applies'[j].state = "done") <=> (applies[j].state = "done")
         /\ UnderWay' = UnderWay
<1>1. \A j \in DOMAIN applies : applies[j] \in ACall
  OBVIOUS
<1>2. [applies[i] EXCEPT !.state = s] \in ACall
  BY <1>1 DEF ACall
<1>3. applies' = [applies EXCEPT ![i] = [applies[i] EXCEPT !.state = s]]
  OBVIOUS
<1>4. applies' \in Seq(ACall) /\ DOMAIN applies' = DOMAIN applies
  BY <1>2, <1>3
<1>5. \A j \in DOMAIN applies : /\ applies'[j].on = applies[j].on
                                /\ applies'[j].text = applies[j].text
                                /\ applies'[j].mounted = applies[j].mounted
                                /\ (applies'[j].state = "done") <=> (applies[j].state = "done")
  BY <1>1, <1>3 DEF ACall
<1>6. UnderWay' = UnderWay
  BY <1>4, <1>5 DEF UnderWay
<1>7. QED
  BY <1>4, <1>5, <1>6

\* A call that has returned is not under way, and not waited for.
LEMMA ReturnedCall ==
  ASSUME applies \in Seq(ACall), NEW i \in DOMAIN applies, applies[i].state # "done",
         applies' = [applies EXCEPT ![i] = Done]
  PROVE  /\ applies' \in Seq(ACall) /\ DOMAIN applies' = DOMAIN applies
         /\ applies'[i] = Done
         /\ \A j \in DOMAIN applies : j # i => applies'[j] = applies[j]
         /\ Cardinality(UnderWay') = Cardinality(UnderWay) - 1
<1>1. Done \in ACall
  BY DEF Done, ACall, AText, Blank, Text
<1>2. applies' \in Seq(ACall) /\ DOMAIN applies' = DOMAIN applies
  BY <1>1
<1>3. applies'[i] = Done /\ \A j \in DOMAIN applies : j # i => applies'[j] = applies[j]
  OBVIOUS
<1>4. UnderWay' = UnderWay \ {i} /\ i \in UnderWay
  BY <1>2, <1>3 DEF UnderWay, Done
<1>5. Cardinality(UnderWay \ {i}) = Cardinality(UnderWay) - 1
  BY <1>4, CallsAreFinite, FS_RemoveElement
<1>6. QED
  BY <1>2, <1>3, <1>4, <1>5

LEMMA AppendedCall ==
  ASSUME applies \in Seq(ACall), NEW c \in ACall, c.state # "done",
         applies' = Append(applies, c)
  PROVE  /\ applies' \in Seq(ACall) /\ DOMAIN applies' = 1 .. Len(applies) + 1
         /\ applies'[Len(applies) + 1] = c
         /\ \A j \in DOMAIN applies : applies'[j] = applies[j]
         /\ Cardinality(UnderWay') = Cardinality(UnderWay) + 1
<1>1. /\ applies' \in Seq(ACall) /\ DOMAIN applies' = 1 .. Len(applies) + 1
      /\ applies'[Len(applies) + 1] = c
      /\ \A j \in DOMAIN applies : applies'[j] = applies[j]
      /\ DOMAIN applies = 1 .. Len(applies) /\ Len(applies) \in Nat
  OBVIOUS
<1>2. UnderWay' = UnderWay \cup {Len(applies) + 1} /\ Len(applies) + 1 \notin UnderWay
  BY <1>1 DEF UnderWay
<1>3. Cardinality(UnderWay \cup {Len(applies) + 1}) = Cardinality(UnderWay) + 1
  BY <1>2, CallsAreFinite, FS_AddElement
<1>4. QED
  BY <1>1, <1>2, <1>3

-----------------------------------------------------------------------------
LEMMA InvInit == Init => IInv
<1> SUFFICES ASSUME Init PROVE IInv
  OBVIOUS
<1>1. Unasked \in AnEntry
  BY DEF Unasked, AnEntry, Nothing
<1>2. query \in [Key -> AnEntry] /\ doc \in [Target -> Int] /\ cached \in [Target -> Int]
  BY <1>1 DEF Init, Nothing
<1>3. applies \in Seq(ACall) /\ history \in Seq(Target) /\ DOMAIN applies = {}
  BY DEF Init
<1>4. ShapeOK
  BY <1>2, <1>3, NoEditorIsOne DEF Init, ShapeOK
<1>5. NoncesCounted
  <2>1. UnderWay = {}
    BY <1>3 DEF UnderWay
  <2>2. QED
    BY <2>1, FS_EmptySet, ResourceAssumption DEF Init, NoncesCounted
<1>6. OneCall
  BY <1>3, NoEditorIsOne DEF Init, OneCall
<1>7. QED
  BY <1>3, <1>4, <1>5, <1>6
     DEF Init, IInv, Settled, Hidden, DirtyIsKnown, DraftIsOfTheTarget, Shown

\* Steps that leave what is shown alone, and of the calls all but how far they
\* have come.
LEMMA InvBehindTheScreen ==
  ASSUME IInv,
         UNCHANGED <<target, tab, nonce, editor, isYamlDirty>>,
         history' \in Seq(Target), query' \in [Key -> AnEntry],
         Shown => \A k \in Key : query'[k].data = query[k].data,
         doc' \in [Target -> Int], cached' \in [Target -> Int],
         applies' \in Seq(ACall), DOMAIN applies' = DOMAIN applies,
         \A i \in DOMAIN applies :
            /\ applies'[i].on = applies[i].on /\ applies'[i].text = applies[i].text
            /\ applies'[i].mounted = applies[i].mounted
            /\ (applies'[i].state = "done") <=> (applies[i].state = "done"),
         UnderWay' = UnderWay
  PROVE  IInv'
<1>1. ShapeOK' /\ NoncesCounted'
  BY DEF IInv, ShapeOK, NoncesCounted
<1>2. Shown' = Shown
  BY DEF Shown
<1>3. Shown => Value' = Value
  <2>1. Shown => <<target, nonce>> \in Key
    BY NonceInRange DEF IInv, ShapeOK, Shown, Key
  <2>2. QED
    BY <2>1 DEF Value, Shown
<1>4. Settled' /\ Hidden' /\ DirtyIsKnown'
  BY <1>2, <1>3 DEF IInv, Settled, Hidden, DirtyIsKnown, Typed
<1>5. OneCall'
  BY DEF IInv, OneCall, Waits
<1>6. DraftIsOfTheTarget'
  BY <1>2 DEF IInv, DraftIsOfTheTarget
<1>7. QED
  BY <1>1, <1>4, <1>5, <1>6 DEF IInv

\* The editor goes: Close, Back, another tab, the end of the resource.
LEMMA InvLeft ==
  ASSUME IInv,
         target' \in Target \cup {None}, history' \in Seq(Target), tab' \in {"info", "yaml"},
         nonce' \in {0, nonce}, ~Shown',
         editor' = NoEditor, applies' = Orphaned,
         UNCHANGED <<query, doc, cached>>
  PROVE  IInv'
<1>0. applies \in Seq(ACall) /\ nonce \in Nat
  BY DEF IInv, ShapeOK
<1>1. /\ applies' \in Seq(ACall) /\ DOMAIN applies' = DOMAIN applies
      /\ \A i \in DOMAIN applies : /\ applies'[i].on = applies[i].on
                                   /\ applies'[i].text = applies[i].text
                                   /\ ~applies'[i].mounted
      /\ UnderWay' = UnderWay
  BY <1>0, OrphanedCalls
<1>2. ShapeOK'
  BY <1>0, <1>1, NoEditorIsOne DEF IInv, ShapeOK
<1>3. NoncesCounted'
  <2>1. Cardinality(UnderWay) \in Nat /\ MaxNonce \in Nat
    BY <1>0, CallsAreFinite, ResourceAssumption
  <2>2. QED
    BY <1>0, <1>1, <2>1 DEF IInv, NoncesCounted
<1>4. Settled' /\ Hidden' /\ DirtyIsKnown'
  BY DEF Settled, Hidden, DirtyIsKnown
<1>5. OneCall'
  BY <1>1, NoEditorIsOne DEF OneCall, Waits
<1>6. DraftIsOfTheTarget'
  BY <1>1 DEF IInv, DraftIsOfTheTarget
<1>7. QED
  BY <1>2, <1>3, <1>4, <1>5, <1>6 DEF IInv

LEMMA InvLeave ==
  ASSUME IInv, Close \/ Back \/ ShowInfo \/ Deleted
  PROVE  IInv'
<1>0. None \notin Target /\ target \in Target \cup {None} /\ history \in Seq(Target)
  BY ResourceAssumption DEF IInv, ShapeOK
<1>1. CASE Close
  <2>1. target' = None /\ history' = <<>> /\ tab' = "info" /\ nonce' = 0
    BY <1>1 DEF Close, Reset
  <2>2. QED
    BY <1>1, <2>1, InvLeft DEF Close, Shown, server
<1>2. CASE Back
  <2>1. tab' = "info" /\ nonce' = 0
    BY <1>2 DEF Back, Reset
  <2>2. target' \in Target /\ history' \in Seq(Target)
    BY <1>0, <1>2 DEF Back
  <2>3. QED
    BY <1>2, <2>1, <2>2, InvLeft DEF Back, Shown, server
<1>3. CASE ShowInfo
  BY <1>0, <1>3, InvLeft DEF ShowInfo, Shown, server
<1>4. CASE Deleted
  <2>1. tab \in {"info", "yaml"} /\ <<>> \in Seq(Target)
    BY DEF IInv, ShapeOK
  <2>2. QED
    BY <1>4, <2>1, InvLeft DEF Deleted, Shown, server
<1>5. QED
  BY <1>1, <1>2, <1>3, <1>4

-----------------------------------------------------------------------------
(* The editor comes, or is rendered again.                                   *)

LEMMA ObservesShape ==
  ASSUME IInv, Observes, target' \in Target \cup {None}, nonce' \in 0 .. MaxNonce
  PROVE  query' \in [Key -> AnEntry] /\ (~Shown' => query' = query)
<1>0. query \in [Key -> AnEntry]
  BY DEF IInv, ShapeOK
<1>1. CASE ~Shown'
  BY <1>0, <1>1 DEF Observes
<1>2. CASE Shown'
  <2>1. <<target', nonce'>> \in Key
    BY <1>2 DEF Shown, Key
  <2>2. query' \in Observed(query, <<target', nonce'>>)
    BY <1>2 DEF Observes
  <2>3. QED
    BY <1>0, <1>2, <2>1, <2>2, ObservedShape
<1>3. QED
  BY <1>1, <1>2

LEMMA InvMounted ==
  ASSUME IInv, Mounted,
         target' \in Target, Shown', nonce' = nonce,
         history' \in Seq(Target), query' \in [Key -> AnEntry], UNCHANGED <<doc, cached>>,
         applies' \in Seq(ACall), DOMAIN applies' = DOMAIN applies,
         \A i \in DOMAIN applies :
            /\ applies'[i].on = applies[i].on /\ applies'[i].text = applies[i].text
            /\ ~(applies'[i].mounted /\ applies'[i].state # "done"),
         UnderWay' = UnderWay
  PROVE  IInv'
<1>1. Value' \in AText
  BY NonceInRange, ValueIsOfTheTarget
<1>2. /\ editor' \in AnEditor /\ editor'.editing = FALSE /\ editor'.applying = FALSE
      /\ Settled' /\ DirtyIsKnown'
  BY <1>1, MountedSettles
<1>3. ShapeOK' /\ NoncesCounted'
  BY <1>2 DEF IInv, ShapeOK, NoncesCounted, Shown
<1>4. Hidden'
  BY DEF Hidden
<1>5. OneCall'
  BY <1>2 DEF OneCall, Waits
<1>6. DraftIsOfTheTarget'
  BY <1>2 DEF IInv, DraftIsOfTheTarget
<1>7. QED
  BY <1>2, <1>3, <1>4, <1>5, <1>6 DEF IInv

LEMMA InvRendered ==
  ASSUME IInv, NEW ed \in AnEditor, Rendered(ed),
         Shown, UNCHANGED <<target, history, tab>>,
         nonce' \in 0 .. MaxNonce, query' \in [Key -> AnEntry],
         doc' \in [Target -> Int], cached' \in [Target -> Int],
         applies' \in Seq(ACall), NoncesCounted',
         ed.editing => ed.draft.of = target,
         \A i \in DOMAIN applies' : applies'[i].text.of = applies'[i].on,
         \A i, j \in DOMAIN applies' : Waits(i)' /\ Waits(j)' => i = j,
         (\E i \in DOMAIN applies' : Waits(i)') <=> ed.applying
  PROVE  IInv'
<1>0. target \in Target \cup {None} /\ history \in Seq(Target) /\ tab \in {"info", "yaml"}
  BY DEF IInv, ShapeOK
<1>1. Value' \in AText
  BY <1>0, ValueIsOfTheTarget
<1>2. /\ editor' \in AnEditor
      /\ editor'.editing = ed.editing /\ editor'.applying = ed.applying
      /\ ed.editing => editor'.draft = ed.draft
      /\ Settled' /\ DirtyIsKnown'
  BY <1>1, RenderedSettles
<1>3. ShapeOK'
  BY <1>0, <1>2 DEF ShapeOK
<1>4. Shown'
  BY DEF Shown
<1>5. OneCall'
  BY <1>2 DEF OneCall
<1>6. DraftIsOfTheTarget'
  BY <1>2 DEF DraftIsOfTheTarget
<1>7. QED
  BY <1>2, <1>3, <1>4, <1>5, <1>6 DEF IInv, Hidden

LEMMA InvOpen ==
  ASSUME IInv, NEW t \in Target, Open(t)
  PROVE  IInv'
<1>0. /\ target \in Target \cup {None} /\ history \in Seq(Target) /\ applies \in Seq(ACall)
      /\ tab \in {"info", "yaml"} /\ None \notin Target
      /\ query \in [Key -> AnEntry] /\ doc \in [Target -> Int] /\ cached \in [Target -> Int]
  BY ResourceAssumption DEF IInv, ShapeOK
<1>1. target' = t /\ UNCHANGED <<tab, nonce, doc, cached>>
  BY DEF Open, server
<1>2. history' \in Seq(Target)
  BY <1>0 DEF Open
<1>3. CASE t = target
  <2>1. UNCHANGED <<target, isYamlDirty, editor, query, applies>>
    BY <1>1, <1>3 DEF Open
  <2>2. UnderWay' = UnderWay
    BY <2>1 DEF UnderWay
  <2>3. QED
    BY <1>0, <1>1, <1>2, <2>1, <2>2, InvBehindTheScreen
<1>4. CASE t # target
  <2>1. Observes /\ applies' = Orphaned
    BY <1>4 DEF Open
  <2>2. query' \in [Key -> AnEntry] /\ (~Shown' => query' = query)
    BY <1>1, <2>1, NonceInRange, ObservesShape
  <2>3. CASE Shown'
    <3>1. Mounted
      BY <1>4, <2>3 DEF Open
    <3>2. /\ applies' \in Seq(ACall) /\ DOMAIN applies' = DOMAIN applies
          /\ \A i \in DOMAIN applies :
                /\ applies'[i].on = applies[i].on /\ applies'[i].text = applies[i].text
                /\ ~(applies'[i].mounted /\ applies'[i].state # "done")
          /\ UnderWay' = UnderWay
      BY <1>0, <2>1, OrphanedCalls
    <3>3. QED
      BY <1>1, <1>2, <2>2, <2>3, <3>1, <3>2, InvMounted
  <2>4. CASE ~Shown'
    <3>1. editor' = editor
      BY <1>4, <2>4 DEF Open
    <3>2. ~Shown
      BY <1>0, <1>1, <2>4 DEF Shown
    <3>3. editor' = NoEditor
      BY <3>1, <3>2 DEF IInv, Hidden
    <3>4. QED
      BY <1>0, <1>1, <1>2, <2>1, <2>2, <2>4, <3>3, InvLeft
  <2>5. QED
    BY <2>3, <2>4
<1>5. QED
  BY <1>3, <1>4

LEMMA InvShowYaml ==
  ASSUME IInv, ShowYaml
  PROVE  IInv'
<1>0. /\ target \in Target /\ history \in Seq(Target) /\ applies \in Seq(ACall) /\ ~Shown
  BY DEF ShowYaml, IInv, ShapeOK, Shown
<1>1. /\ tab' = "yaml" /\ Observes /\ Mounted
      /\ UNCHANGED <<target, history, nonce, applies, doc, cached>>
  BY DEF ShowYaml, server
<1>2. None \notin Target /\ Shown'
  BY <1>0, <1>1, ResourceAssumption DEF Shown
<1>3. query' \in [Key -> AnEntry]
  BY <1>0, <1>1, NonceInRange, ObservesShape
<1>4. \A i \in DOMAIN applies : ~(applies[i].mounted /\ applies[i].state # "done")
  BY <1>0, NoEditorIsOne DEF IInv, Hidden, OneCall, Waits
<1>5. UnderWay' = UnderWay
  BY <1>1 DEF UnderWay
<1>6. QED
  BY <1>0, <1>1, <1>2, <1>3, <1>4, <1>5, InvMounted

-----------------------------------------------------------------------------
(* The editor while it stays.                                                *)

\* Nothing happens to the calls.
LEMMA InvRenderedAgain ==
  ASSUME IInv, NEW ed \in AnEditor, Rendered(ed), Shown,
         (ed.applying <=> editor.applying),
         ed.editing => ed.draft.of = target,
         UNCHANGED <<target, history, tab, applies, doc>>,
         nonce' \in 0 .. MaxNonce, nonce' = nonce \/ (NoncesLeft /\ nonce' = nonce + 1),
         query' \in [Key -> AnEntry], cached' \in [Target -> Int]
  PROVE  IInv'
<1>1. applies \in Seq(ACall) /\ doc \in [Target -> Int] /\ nonce \in Nat
  BY DEF IInv, ShapeOK
<1>2. UnderWay' = UnderWay /\ Cardinality(UnderWay) \in Nat
  BY <1>1, CallsAreFinite DEF UnderWay
<1>3. NoncesCounted'
  <2>1. CASE nonce' = nonce
    BY <1>2, <2>1 DEF IInv, NoncesCounted
  <2>2. CASE NoncesLeft /\ nonce' = nonce + 1
    <3>1. nonce + Cardinality(UnderWay) < MaxNonce
      BY <2>2 DEF NoncesLeft, UnderWay
    <3>2. QED
      BY <1>1, <1>2, <2>2, <3>1, ResourceAssumption DEF NoncesCounted
  <2>3. QED
    BY <2>1, <2>2
<1>4. /\ \A i \in DOMAIN applies' : applies'[i].text.of = applies'[i].on
      /\ \A i, j \in DOMAIN applies' : Waits(i)' /\ Waits(j)' => i = j
      /\ (\E i \in DOMAIN applies' : Waits(i)') <=> ed.applying
  BY DEF IInv, DraftIsOfTheTarget, OneCall, Waits
<1>5. QED
  BY <1>1, <1>3, <1>4, InvRendered

LEMMA EditorShape ==
  ASSUME IInv
  PROVE  /\ editor \in AnEditor /\ editor.draft \in AText
         /\ editor.editing \in BOOLEAN /\ editor.applying \in BOOLEAN
         /\ Shown /\ editor.editing => editor.draft.of = target
BY DEF IInv, ShapeOK, AnEditor, DraftIsOfTheTarget

LEMMA InvRefresh ==
  ASSUME IInv, Refresh
  PROVE  IInv'
<1>1. /\ Shown /\ NoncesLeft /\ nonce' = nonce + 1 /\ Observes /\ Rendered(editor)
      /\ UNCHANGED <<target, history, tab, applies, doc, cached>>
  BY DEF Refresh, Ready, server
<1>2. nonce' \in 0 .. MaxNonce
  <2>1. nonce \in Nat /\ applies \in Seq(ACall) /\ MaxNonce \in Nat
    BY ResourceAssumption DEF IInv, ShapeOK
  <2>2. Cardinality(UnderWay) \in Nat /\ nonce + Cardinality(UnderWay) < MaxNonce
    BY <1>1, <2>1, CallsAreFinite DEF NoncesLeft, UnderWay
  <2>3. QED
    BY <1>1, <2>1, <2>2
<1>3. target' \in Target \cup {None} /\ cached' \in [Target -> Int]
  BY <1>1 DEF IInv, ShapeOK
<1>4. query' \in [Key -> AnEntry]
  BY <1>1, <1>2, <1>3, ObservesShape
<1>5. QED
  BY <1>1, <1>2, <1>3, <1>4, EditorShape, InvRenderedAgain

\* The text an editor starts from is the one shown.
LEMMA ShownTextIsOfTheTarget ==
  ASSUME IInv, Ready, ~editor.editing
  PROVE  editor.draft.of = target
<1>1. /\ target # None /\ query[<<target, nonce>>].data # Nothing
      /\ editor.draft = Value
  BY DEF Ready, Shown, IInv, Settled
<1>2. QED
  BY <1>1 DEF Value, Text

LEMMA InvEdited ==
  ASSUME IInv, Edit \/ Write \/ Cancel
  PROVE  IInv'
<1>0. /\ editor \in AnEditor /\ editor.draft \in AText
      /\ editor.editing \in BOOLEAN /\ editor.applying \in BOOLEAN
      /\ Shown /\ editor.editing => editor.draft.of = target
  BY EditorShape
<1>1. /\ Ready /\ Shown
      /\ UNCHANGED <<target, history, tab, nonce, applies, doc, cached, query>>
  BY DEF Edit, Write, Cancel, Ready, drawer, server
<1>2. /\ Shown /\ nonce' \in 0 .. MaxNonce /\ nonce' = nonce
      /\ query' \in [Key -> AnEntry] /\ cached' \in [Target -> Int]
      /\ UNCHANGED <<target, history, tab, applies, doc>>
  BY <1>1, NonceInRange DEF IInv, ShapeOK
<1> DEFINE Fits(ed) == /\ Rendered(ed) /\ (ed.applying <=> editor.applying)
                       /\ ed.editing => ed.draft.of = target
<1>3. ASSUME Edit PROVE \E ed \in AnEditor : Fits(ed)
  <2> DEFINE ed == [editor EXCEPT !.editing = TRUE]
  <2>1. /\ ed \in AnEditor /\ (ed.applying <=> editor.applying) /\ ed.editing
        /\ ed.draft = editor.draft
    BY <1>0 DEF AnEditor
  <2>2. ed.draft.of = target
    BY <1>1, <1>3, <2>1, ShownTextIsOfTheTarget DEF Edit
  <2>3. Rendered(ed)
    BY <1>3 DEF Edit
  <2> HIDE DEF ed
  <2>4. QED
    BY <2>1, <2>2, <2>3
<1>4. ASSUME Write PROVE \E ed \in AnEditor : Fits(ed)
  <2> DEFINE ed == [editor EXCEPT !.draft.typed = TRUE]
  <2>1. [editor.draft EXCEPT !.typed = TRUE] \in AText
    BY <1>0 DEF AText
  <2>2. ed = [editor EXCEPT !.draft = [editor.draft EXCEPT !.typed = TRUE]]
    OBVIOUS
  <2>3. /\ ed \in AnEditor /\ (ed.applying <=> editor.applying)
        /\ ed.editing = editor.editing /\ ed.draft = [editor.draft EXCEPT !.typed = TRUE]
    BY <1>0, <2>1, <2>2 DEF AnEditor
  <2>4. ed.draft.of = editor.draft.of
    BY <1>0, <2>3 DEF AText
  <2>5. ed.editing => ed.draft.of = target
    BY <1>0, <1>1, <2>3, <2>4
  <2>6. Rendered(ed)
    BY <1>4 DEF Write
  <2> HIDE DEF ed
  <2>7. QED
    BY <2>3, <2>5, <2>6
<1>5. ASSUME Cancel PROVE \E ed \in AnEditor : Fits(ed)
  <2> DEFINE ed == [editor EXCEPT !.editing = FALSE]
  <2>1. ed \in AnEditor /\ (ed.applying <=> editor.applying) /\ ~ed.editing
    BY <1>0 DEF AnEditor
  <2>2. Rendered(ed)
    BY <1>5 DEF Cancel
  <2> HIDE DEF ed
  <2>3. QED
    BY <2>1, <2>2
<1>6. PICK ed \in AnEditor : Fits(ed)
  BY <1>3, <1>4, <1>5
<1>7. QED
  BY <1>2, <1>6, InvRenderedAgain

LEMMA InvApply ==
  ASSUME IInv, Apply
  PROVE  IInv'
<1>0. /\ editor \in AnEditor /\ editor.draft \in AText
      /\ editor.editing = TRUE /\ ~editor.applying /\ Shown
      /\ editor.draft.of = target
  BY EditorShape DEF Apply, Ready
<1>1. /\ NoncesLeft
      /\ UNCHANGED <<target, history, tab, nonce, doc, cached, query>>
  BY DEF Apply, drawer, server
<1>2. /\ target \in Target \cup {None} /\ applies \in Seq(ACall) /\ nonce \in Nat
      /\ nonce' \in 0 .. MaxNonce /\ query' \in [Key -> AnEntry]
      /\ doc' \in [Target -> Int] /\ cached' \in [Target -> Int]
  BY <1>1, NonceInRange DEF IInv, ShapeOK
<1> DEFINE c == [on |-> target, text |-> editor.draft, mounted |-> TRUE, state |-> "sent"]
           ed == [editor EXCEPT !.applying = TRUE]
<1>3. /\ c \in ACall /\ c.state = "sent" /\ c.mounted /\ c.text.of = c.on
  BY <1>0, <1>2 DEF ACall
<1>4. /\ ed \in AnEditor /\ ed.editing /\ ed.applying /\ ed.draft = editor.draft
  BY <1>0 DEF AnEditor
<1>5. applies' = Append(applies, c) /\ Rendered(ed)
  BY DEF Apply
<1> HIDE DEF c, ed
<1>6. /\ applies' \in Seq(ACall) /\ DOMAIN applies' = 1 .. Len(applies) + 1
      /\ applies'[Len(applies) + 1] = c
      /\ \A j \in DOMAIN applies : applies'[j] = applies[j]
      /\ Cardinality(UnderWay') = Cardinality(UnderWay) + 1
      /\ DOMAIN applies = 1 .. Len(applies) /\ Len(applies) \in Nat
  BY <1>2, <1>3, <1>5, AppendedCall
<1>61. PICK n \in Nat : n = Len(applies) + 1
  BY <1>6
<1>7. NoncesCounted'
  <2>1. nonce + Cardinality(UnderWay) < MaxNonce /\ Cardinality(UnderWay) \in Nat
    BY <1>1, <1>2, CallsAreFinite DEF NoncesLeft, UnderWay
  <2>2. QED
    BY <1>1, <1>2, <1>6, <2>1, ResourceAssumption DEF NoncesCounted
<1>8. \A i \in DOMAIN applies' : applies'[i].text.of = applies'[i].on
  BY <1>3, <1>6 DEF IInv, DraftIsOfTheTarget
<1>9. \A j \in DOMAIN applies : ~Waits(j)
  BY <1>0 DEF IInv, OneCall
<1>10. \A j \in DOMAIN applies : ~Waits(j)'
  BY <1>6, <1>9 DEF Waits
<1>11. \A j \in DOMAIN applies' : Waits(j)' <=> j = n
  <2>1. applies'[n] = c /\ n \in DOMAIN applies'
    BY <1>6, <1>61
  <2>2. Waits(n)'
    BY <1>3, <2>1 DEF Waits
  <2>3. \A j \in DOMAIN applies' : j # n => j \in DOMAIN applies
    BY <1>6, <1>61
  <2>4. QED
    BY <1>10, <2>1, <2>2, <2>3
<1>12. /\ \A i, j \in DOMAIN applies' : Waits(i)' /\ Waits(j)' => i = j
       /\ \E i \in DOMAIN applies' : Waits(i)'
  BY <1>6, <1>61, <1>11
<1>13. QED
  BY <1>0, <1>1, <1>2, <1>4, <1>5, <1>6, <1>7, <1>8, <1>12, InvRendered

-----------------------------------------------------------------------------
(* The calls return.                                                         *)

\* The call that returns is waited for no longer, and the others as before.
LEMMA OthersWait ==
  ASSUME IInv, NEW i \in DOMAIN applies, applies[i].state # "done",
         applies' = [applies EXCEPT ![i] = Done]
  PROVE  /\ applies' \in Seq(ACall) /\ DOMAIN applies' = DOMAIN applies
         /\ \A j \in DOMAIN applies : applies'[j].text.of = applies'[j].on
         /\ \A j \in DOMAIN applies : Waits(j)' <=> (Waits(j) /\ j # i)
         /\ Cardinality(UnderWay') = Cardinality(UnderWay) - 1
         /\ Cardinality(UnderWay) \in Nat /\ Cardinality(UnderWay) > 0
<1>0. applies \in Seq(ACall)
  BY DEF IInv, ShapeOK
<1>1. /\ applies' \in Seq(ACall) /\ DOMAIN applies' = DOMAIN applies
      /\ applies'[i] = Done
      /\ \A j \in DOMAIN applies : j # i => applies'[j] = applies[j]
      /\ Cardinality(UnderWay') = Cardinality(UnderWay) - 1
  BY <1>0, ReturnedCall
<1>2. \A j \in DOMAIN applies : applies'[j].text.of = applies'[j].on
  BY <1>1 DEF IInv, DraftIsOfTheTarget, Done, Blank, Text
<1>3. \A j \in DOMAIN applies : Waits(j)' <=> (Waits(j) /\ j # i)
  BY <1>1 DEF Waits, Done
<1>4. Cardinality(UnderWay) \in Nat /\ Cardinality(UnderWay) > 0
  <2>1. IsFiniteSet(UnderWay) /\ Cardinality(UnderWay) \in Nat
    BY <1>0, CallsAreFinite
  <2>2. i \in UnderWay
    BY DEF UnderWay
  <2>3. Cardinality(UnderWay) # 0
    BY <2>1, <2>2, FS_EmptySet
  <2>4. QED
    BY <2>1, <2>3
<1>5. QED
  BY <1>1, <1>2, <1>3, <1>4

LEMMA InvApplied ==
  ASSUME IInv, NEW i \in DOMAIN applies, Applied(i)
  PROVE  IInv'
<1>0. /\ applies[i].state # "done" /\ applies' = [applies EXCEPT ![i] = Done]
      /\ nonce' = nonce + 1 /\ UNCHANGED <<target, history, tab, doc, cached>>
  BY DEF Applied, server
<1>1. /\ query \in [Key -> AnEntry] /\ nonce \in Nat /\ MaxNonce \in Nat
      /\ target \in Target \cup {None} /\ history \in Seq(Target) /\ tab \in {"info", "yaml"}
      /\ doc' \in [Target -> Int] /\ cached' \in [Target -> Int]
  BY <1>0, ResourceAssumption DEF IInv, ShapeOK
<1>2. /\ applies' \in Seq(ACall) /\ DOMAIN applies' = DOMAIN applies
      /\ \A j \in DOMAIN applies : applies'[j].text.of = applies'[j].on
      /\ \A j \in DOMAIN applies : Waits(j)' <=> (Waits(j) /\ j # i)
      /\ Cardinality(UnderWay') = Cardinality(UnderWay) - 1
      /\ Cardinality(UnderWay) \in Nat /\ Cardinality(UnderWay) > 0
  BY <1>0, OthersWait
<1>3. NoncesCounted' /\ nonce' \in 0 .. MaxNonce /\ nonce \in 0 .. MaxNonce
  BY <1>0, <1>1, <1>2 DEF IInv, NoncesCounted
<1> DEFINE stale == [k \in Key |-> [query[k] EXCEPT !.invalid = query[k].data # Nothing]]
           again == IF Shown THEN Fetched(stale, <<target, nonce>>) ELSE stale
<1>4. stale \in [Key -> AnEntry]
  <2>1. ASSUME NEW k \in Key
        PROVE  [query[k] EXCEPT !.invalid = query[k].data # Nothing] \in AnEntry
    <3>1. query[k] \in AnEntry /\ (query[k].data # Nothing) \in BOOLEAN
      BY <1>1
    <3> DEFINE invalid == query[k].data # Nothing
    <3>2. invalid \in BOOLEAN
      BY <3>1
    <3> HIDE DEF invalid
    <3>3. [query[k] EXCEPT !.invalid = invalid] \in AnEntry
      BY <3>1, <3>2 DEF AnEntry
    <3>4. QED
      BY <3>3 DEF invalid
  <2>2. QED
    BY <2>1
<1>5. IF Shown THEN query' \in Observed(again, <<target, nonce'>>) ELSE query' = again
  BY DEF Applied
<1>6. ~Shown => UNCHANGED <<editor, isYamlDirty>>
  BY DEF Applied
<1>7. Shown => IF applies[i].mounted
                 THEN Rendered([editor EXCEPT !.editing = FALSE, !.applying = FALSE])
                 ELSE Rendered(editor)
  BY DEF Applied
<1> HIDE DEF stale
<1>8. CASE Shown
  <2>1. <<target, nonce>> \in Key /\ <<target, nonce'>> \in Key
    BY <1>1, <1>3, <1>8 DEF Shown, Key
  <2>2. again \in [Key -> AnEntry]
    BY <1>4, <1>8, <2>1, ObservedShape
  <2> HIDE DEF again
  <2>3. query' \in [Key -> AnEntry]
    BY <1>5, <1>8, <2>1, <2>2, ObservedShape
  <2>4. \A j, k \in DOMAIN applies' : Waits(j)' /\ Waits(k)' => j = k
    BY <1>2 DEF IInv, OneCall
  <2>5. /\ editor \in AnEditor /\ editor.draft \in AText
        /\ editor.editing => editor.draft.of = target
    BY <1>8, EditorShape
  <2>6. CASE applies[i].mounted
    <3> DEFINE ed == [editor EXCEPT !.editing = FALSE, !.applying = FALSE]
    <3>1. ed \in AnEditor /\ ~ed.editing /\ ~ed.applying
      BY <2>5 DEF AnEditor
    <3>2. Rendered(ed)
      BY <1>7, <1>8, <2>6
    <3> HIDE DEF ed
    <3>3. Waits(i)
      BY <1>0, <2>6 DEF Waits
    <3>4. \A j \in DOMAIN applies : ~Waits(j)'
      BY <1>2, <3>3 DEF IInv, OneCall
    <3>5. QED
      BY <1>0, <1>1, <1>2, <1>3, <1>8, <2>3, <2>4, <3>1, <3>2, <3>4, InvRendered
  <2>7. CASE ~applies[i].mounted
    <3>1. Rendered(editor)
      BY <1>7, <1>8, <2>7
    <3>2. \A j \in DOMAIN applies : Waits(j)' <=> Waits(j)
      BY <1>2, <2>7 DEF Waits
    <3>3. (\E j \in DOMAIN applies' : Waits(j)') <=> editor.applying
      BY <1>2, <3>2 DEF IInv, OneCall
    <3>4. QED
      BY <1>0, <1>1, <1>2, <1>3, <1>8, <2>3, <2>4, <2>5, <3>1, <3>3, InvRendered
  <2>8. QED
    BY <2>6, <2>7
<1>9. CASE ~Shown
  <2>1. query' \in [Key -> AnEntry]
    BY <1>4, <1>5, <1>9
  <2>2. editor' = NoEditor /\ ~Shown'
    BY <1>0, <1>6, <1>9 DEF IInv, Hidden, Shown
  <2>3. ShapeOK'
    BY <1>0, <1>1, <1>2, <2>1, <2>2, NoEditorIsOne DEF ShapeOK
  <2>4. Settled' /\ Hidden' /\ DirtyIsKnown'
    BY <2>2 DEF Settled, Hidden, DirtyIsKnown
  <2>5. \A j \in DOMAIN applies : ~Waits(j)
    BY <1>9, NoEditorIsOne DEF IInv, Hidden, OneCall
  <2>6. OneCall'
    BY <1>2, <2>2, <2>5, NoEditorIsOne DEF OneCall
  <2>7. DraftIsOfTheTarget'
    BY <1>2, <2>2 DEF DraftIsOfTheTarget
  <2>8. QED
    BY <1>3, <2>3, <2>4, <2>6, <2>7 DEF IInv
<1>10. QED
  BY <1>8, <1>9

LEMMA InvNotApplied ==
  ASSUME IInv, NEW i \in DOMAIN applies, NotApplied(i)
  PROVE  IInv'
<1>0. /\ applies[i].state # "done" /\ applies' = [applies EXCEPT ![i] = Done]
      /\ UNCHANGED <<target, history, tab, nonce, isYamlDirty, query, doc, cached>>
      /\ editor' = IF applies[i].mounted THEN [editor EXCEPT !.applying = FALSE] ELSE editor
  BY DEF NotApplied, drawer, server
<1>1. /\ applies' \in Seq(ACall) /\ DOMAIN applies' = DOMAIN applies
      /\ \A j \in DOMAIN applies : applies'[j].text.of = applies'[j].on
      /\ \A j \in DOMAIN applies : Waits(j)' <=> (Waits(j) /\ j # i)
      /\ Cardinality(UnderWay') = Cardinality(UnderWay) - 1
      /\ Cardinality(UnderWay) \in Nat /\ Cardinality(UnderWay) > 0
  BY <1>0, OthersWait
<1>2. /\ editor' \in AnEditor /\ editor'.draft = editor.draft
      /\ editor'.editing = editor.editing
  BY <1>0, EditorShape DEF AnEditor
<1>3. ShapeOK'
  BY <1>0, <1>1, <1>2 DEF IInv, ShapeOK
<1>4. NoncesCounted'
  BY <1>0, <1>1, ResourceAssumption DEF IInv, ShapeOK, NoncesCounted
<1>5. Shown' = Shown /\ Value' = Value
  BY <1>0 DEF Shown, Value
<1>6. Settled' /\ DirtyIsKnown' /\ DraftIsOfTheTarget'
  <2>1. Typed' = Typed
    BY <1>2, <1>5 DEF Typed
  <2>2. DraftIsOfTheTarget'
    BY <1>0, <1>1, <1>2, <1>5 DEF IInv, DraftIsOfTheTarget
  <2>3. QED
    BY <1>0, <1>2, <1>5, <2>1, <2>2 DEF IInv, Settled, DirtyIsKnown
<1>7. CASE applies[i].mounted
  <2>1. Waits(i)
    BY <1>0, <1>7 DEF Waits
  <2>2. \A j \in DOMAIN applies : ~Waits(j)'
    BY <1>1, <2>1 DEF IInv, OneCall
  <2>3. editor'.applying = FALSE /\ Shown
    <3>1. editor.applying
      BY <2>1 DEF IInv, OneCall
    <3>2. QED
      BY <1>0, <1>7, <3>1, EditorShape, NoEditorIsOne DEF AnEditor, IInv, Hidden
  <2>4. OneCall' /\ Hidden'
    BY <1>1, <1>5, <2>2, <2>3 DEF OneCall, Hidden
  <2>5. QED
    BY <1>3, <1>4, <1>6, <2>4 DEF IInv
<1>8. CASE ~applies[i].mounted
  <2>1. \A j \in DOMAIN applies : Waits(j)' <=> Waits(j)
    BY <1>1, <1>8 DEF Waits
  <2>2. OneCall' /\ Hidden'
    BY <1>0, <1>1, <1>5, <1>8, <2>1 DEF IInv, OneCall, Hidden
  <2>3. QED
    BY <1>3, <1>4, <1>6, <2>2 DEF IInv
<1>9. QED
  BY <1>7, <1>8

-----------------------------------------------------------------------------
(* Nothing is seen of the rest, but for an answer.                           *)

LEMMA SameCalls ==
  ASSUME IInv, applies' = applies
  PROVE  /\ applies' \in Seq(ACall) /\ DOMAIN applies' = DOMAIN applies
         /\ \A i \in DOMAIN applies :
               /\ applies'[i].on = applies[i].on /\ applies'[i].text = applies[i].text
               /\ applies'[i].mounted = applies[i].mounted
               /\ (applies'[i].state = "done") <=> (applies[i].state = "done")
         /\ UnderWay' = UnderWay
BY DEF IInv, ShapeOK, UnderWay

LEMMA InvDialog ==
  ASSUME IInv, AskDelete \/ KeepIt \/ Delete \/ DeleteFails
  PROVE  IInv'
<1>1. UNCHANGED <<target, history, tab, nonce, isYamlDirty, editor, query, applies, doc, cached>>
  BY DEF AskDelete, KeepIt, Delete, DeleteFails, drawer, server
<1>2. /\ history' \in Seq(Target) /\ query' \in [Key -> AnEntry]
      /\ doc' \in [Target -> Int] /\ cached' \in [Target -> Int]
  BY <1>1 DEF IInv, ShapeOK
<1>3. QED
  BY <1>1, <1>2, SameCalls, InvBehindTheScreen

LEMMA InvOthers ==
  ASSUME IInv, NEW t \in Busy, Change(t) \/ OtherStores(t) \/ Expire(t)
  PROVE  IInv'
<1>0. t \in Target /\ doc \in [Target -> Int] /\ cached \in [Target -> Int]
  BY ResourceAssumption DEF IInv, ShapeOK
<1>1. UNCHANGED <<target, history, tab, nonce, isYamlDirty, editor, query, applies>>
  BY DEF Change, OtherStores, Expire, drawer
<1>2. history' \in Seq(Target) /\ query' \in [Key -> AnEntry]
  BY <1>1 DEF IInv, ShapeOK
<1>3. doc' \in [Target -> Int]
  BY <1>0 DEF Change, OtherStores, Expire
<1>4. cached' \in [Target -> Int]
  BY <1>0 DEF Change, OtherStores, Expire, Nothing
<1>5. QED
  BY <1>1, <1>2, <1>3, <1>4, SameCalls, InvBehindTheScreen

LEMMA InvCalls ==
  ASSUME IInv, NEW i \in DOMAIN applies,
         Patch(i) \/ Conflict(i) \/ Uncache(i) \/ PatchFails(i)
  PROVE  IInv'
<1>0. /\ applies \in Seq(ACall) /\ doc \in [Target -> Int] /\ cached \in [Target -> Int]
  BY DEF IInv, ShapeOK
<1>1. UNCHANGED <<target, history, tab, nonce, isYamlDirty, editor, query>>
  BY DEF Patch, Conflict, Uncache, PatchFails, drawer
<1>2. history' \in Seq(Target) /\ query' \in [Key -> AnEntry]
  BY <1>1 DEF IInv, ShapeOK
<1>3. doc' \in [Target -> Int]
  <2>1. CASE Patch(i)
    <3> DEFINE d == IF applies[i].text.typed THEN doc[applies[i].on] + 1 ELSE doc[applies[i].on]
    <3>1. doc' = [doc EXCEPT ![applies[i].on] = d]
      BY <2>1 DEF Patch
    <3>2. applies[i].on \in Target => d \in Int
      BY <1>0
    <3> HIDE DEF d
    <3>3. QED
      BY <1>0, <3>1, <3>2
  <2>2. CASE Conflict(i) \/ Uncache(i) \/ PatchFails(i)
    BY <1>0, <2>2 DEF Conflict, Uncache, PatchFails, server
  <2>3. QED
    BY <2>1, <2>2
<1>4. cached' \in [Target -> Int]
  BY <1>0 DEF Patch, Conflict, Uncache, PatchFails, server, Nothing
<1>5. /\ applies[i].state # "done"
      /\ \E s \in {"sent", "patched", "stored", "failed"} :
            applies' = [applies EXCEPT ![i].state = s]
  BY DEF Patch, Conflict, Uncache, PatchFails
<1>6. PICK s \in {"sent", "patched", "stored", "failed"} :
         applies' = [applies EXCEPT ![i].state = s]
  BY <1>5
<1>7. /\ applies' \in Seq(ACall) /\ DOMAIN applies' = DOMAIN applies
      /\ \A j \in DOMAIN applies : /\ applies'[j].on = applies[j].on
                                   /\ applies'[j].text = applies[j].text
                                   /\ applies'[j].mounted = applies[j].mounted
                                   /\ (applies'[j].state = "done") <=> (applies[j].state = "done")
      /\ UnderWay' = UnderWay
  BY <1>0, <1>5, <1>6, ChangedCall
<1>8. QED
  BY <1>1, <1>2, <1>3, <1>4, <1>7, InvBehindTheScreen

\* An answer is rendered, if the tab is open.
LEMMA InvLands ==
  ASSUME IInv, NEW k \in Key, NEW v \in Int, Lands(k, v), cached' \in [Target -> Int]
  PROVE  IInv'
<1>0. UNCHANGED <<target, history, tab, nonce, applies, doc>>
  BY DEF Lands, drawer
<1>1. query \in [Key -> AnEntry] /\ query[k] \in AnEntry
  BY DEF IInv, ShapeOK
<1>2. query' \in [Key -> AnEntry]
  <2> DEFINE entry == [query[k] EXCEPT !.data = v, !.error = FALSE, !.fetch = "idle",
                                       !.read = Nothing]
  <2>1. entry \in AnEntry
    <3>1. Nothing \in Int
      BY DEF Nothing
    <3>2. QED
      BY <1>1, <3>1 DEF AnEntry
  <2>2. query' = [query EXCEPT ![k] = entry]
    BY DEF Lands
  <2> HIDE DEF entry
  <2>3. QED
    BY <1>1, <2>1, <2>2
<1>3. history' \in Seq(Target) /\ doc' \in [Target -> Int]
  BY <1>0 DEF IInv, ShapeOK
<1>4. CASE Shown
  <2>1. Rendered(editor)
    BY <1>4 DEF Lands
  <2>2. nonce' \in 0 .. MaxNonce
    BY <1>0, NonceInRange
  <2>3. QED
    BY <1>0, <1>2, <1>4, <2>1, <2>2, EditorShape, InvRenderedAgain
<1>5. CASE ~Shown
  <2>1. UNCHANGED <<editor, isYamlDirty>>
    BY <1>5 DEF Lands
  <2>2. QED
    BY <1>0, <1>2, <1>3, <1>5, <2>1, SameCalls, InvBehindTheScreen
<1>6. QED
  BY <1>4, <1>5

LEMMA InvFetch ==
  ASSUME IInv, NEW k \in Key, Fetch(k)
  PROVE  IInv'
<1>0. /\ query \in [Key -> AnEntry] /\ query[k] \in AnEntry /\ k[1] \in Target
      /\ doc \in [Target -> Int] /\ cached \in [Target -> Int] /\ history \in Seq(Target)
  BY DEF IInv, ShapeOK, Key
<1>1. CASE Hit(k)
  <2>1. cached[k[1]] \in Int /\ Lands(k, cached[k[1]]) /\ cached' = cached
    BY <1>0, <1>1 DEF Hit
  <2>2. QED
    BY <1>0, <2>1, InvLands
<1>2. CASE Answer(k)
  <2>1. query[k].read \in Int
    BY <1>0 DEF AnEntry
  <2>2. cached' \in [Target -> Int] /\ Lands(k, query[k].read)
    BY <1>0, <1>2, <2>1 DEF Answer
  <2>3. QED
    BY <2>1, <2>2, InvLands
<1>3. CASE Miss(k)
  <2>1. UNCHANGED <<target, history, tab, nonce, isYamlDirty, editor, applies, doc, cached>>
    BY <1>3 DEF Miss, drawer, server
  <2> DEFINE entry == [query[k] EXCEPT !.fetch = "read", !.read = doc[k[1]]]
  <2>2. query' = [query EXCEPT ![k] = entry]
    BY <1>0, <1>3 DEF Miss, AnEntry
  <2>3. entry \in AnEntry /\ entry.data = query[k].data
    BY <1>0 DEF AnEntry
  <2> HIDE DEF entry
  <2>4. query' \in [Key -> AnEntry] /\ \A j \in Key : query'[j].data = query[j].data
    BY <1>0, <2>2, <2>3
  <2>5. QED
    BY <1>0, <2>1, <2>4, SameCalls, InvBehindTheScreen
<1>4. CASE FetchFails(k)
  <2>1. UNCHANGED <<target, history, tab, nonce, isYamlDirty, editor, applies, doc, cached>>
    BY <1>4 DEF FetchFails, drawer
  <2> DEFINE entry == [query[k] EXCEPT !.error = TRUE, !.fetch = "idle", !.read = Nothing]
  <2>2. query' = [query EXCEPT ![k] = entry]
    BY <1>4 DEF FetchFails
  <2>3. entry \in AnEntry /\ entry.data = query[k].data
    <3>1. Nothing \in Int
      BY DEF Nothing
    <3>2. QED
      BY <1>0, <3>1, Zenon DEF AnEntry
  <2> HIDE DEF entry
  <2>4. query' \in [Key -> AnEntry] /\ \A j \in Key : query'[j].data = query[j].data
    BY <1>0, <2>2, <2>3
  <2>5. QED
    BY <1>0, <2>1, <2>4, SameCalls, InvBehindTheScreen
<1>5. QED
  BY <1>1, <1>2, <1>3, <1>4 DEF Fetch

-----------------------------------------------------------------------------
(* The theorems.                                                             *)

LEMMA InvStep == IInv /\ [Next]_vars => IInv'
<1> SUFFICES ASSUME IInv, [Next]_vars PROVE IInv'
  OBVIOUS
<1>1. CASE User
  <2>1. CASE \E t \in Target : Open(t)
    BY <2>1, InvOpen
  <2>2. CASE Close \/ Back \/ ShowInfo
    BY <2>2, InvLeave
  <2>3. CASE ShowYaml \/ Refresh \/ Apply
    BY <2>3, InvShowYaml, InvRefresh, InvApply
  <2>4. CASE Edit \/ Write \/ Cancel
    BY <2>4, InvEdited
  <2>5. CASE AskDelete \/ KeepIt \/ Delete
    BY <2>5, InvDialog
  <2>6. QED
    BY <1>1, <2>1, <2>2, <2>3, <2>4, <2>5 DEF User
<1>2. CASE DeleteFails \/ Deleted
  BY <1>2, InvDialog, InvLeave
<1>3. CASE Calls
  BY <1>3, InvCalls DEF Calls
<1>4. CASE \E i \in DOMAIN applies : Returns(i)
  BY <1>4, InvApplied, InvNotApplied DEF Returns
<1>5. CASE \E k \in Key : Fetch(k)
  BY <1>5, InvFetch
<1>6. CASE \E t \in Busy : Change(t) \/ OtherStores(t) \/ Expire(t)
  BY <1>6, InvOthers
<1>7. CASE UNCHANGED vars
  <2>1. /\ UNCHANGED <<target, history, tab, nonce, isYamlDirty, editor, query, applies>>
        /\ UNCHANGED <<doc, cached>>
    BY <1>7 DEF vars, drawer, server
  <2>2. /\ history' \in Seq(Target) /\ query' \in [Key -> AnEntry]
        /\ doc' \in [Target -> Int] /\ cached' \in [Target -> Int]
    BY <2>1 DEF IInv, ShapeOK
  <2>3. QED
    BY <2>1, <2>2, SameCalls, InvBehindTheScreen
<1>8. QED
  BY <1>1, <1>2, <1>3, <1>4, <1>5, <1>6, <1>7 DEF Next

\* The inductive invariant of the drawer, for any resources and bounds.
THEOREM Invariance == Spec => []IInv
<1>1. Init => IInv
  BY InvInit
<1>2. IInv /\ [Next]_vars => IInv'
  BY InvStep
<1>3. QED
  BY <1>1, <1>2, PTL DEF Spec

\* ResourceDetailContext and YamlEditor: what is edited, and what is sent to
\* an object, is the YAML of the resource shown.
THEOREM DraftCorrect == Spec => []DraftIsOfTheTarget
<1>1. IInv => DraftIsOfTheTarget
  BY DEF IInv
<1>2. QED
  BY <1>1, Invariance, PTL

\* onDirtyChange: the drawer knows of the unsaved text of a mounted editor.
THEOREM DirtyCorrect == Spec => []DirtyIsKnown
<1>1. IInv => DirtyIsKnown
  BY DEF IInv
<1>2. QED
  BY <1>1, Invariance, PTL

\* handleApply: one call at a time, exactly while isApplying.
THEOREM ApplyCorrect == Spec => []OneApplyAtATime
<1>1. IInv => OneApplyAtATime
  <2> SUFFICES ASSUME IInv PROVE OneApplyAtATime
    OBVIOUS
  <2> DEFINE pending == {i \in DOMAIN applies : applies[i].mounted /\ applies[i].state # "done"}
  <2>1. \A i \in DOMAIN applies : i \in pending <=> Waits(i)
    BY DEF Waits
  <2>2. /\ \A i, j \in pending : i = j
        /\ (pending # {}) <=> editor.applying
    BY <2>1 DEF IInv, OneCall
  <2>3. Cardinality(pending) <= 1
    <3>1. CASE pending = {}
      BY <3>1, FS_EmptySet
    <3>2. CASE pending # {}
      <4>1. PICK i \in pending : TRUE
        BY <3>2
      <4> HIDE DEF pending
      <4>2. pending = {i}
        BY <2>2, <4>1
      <4>3. Cardinality({i}) = 1
        BY FS_Singleton
      <4>4. QED
        BY <4>2, <4>3
    <3>3. QED
      BY <3>1, <3>2
  <2>4. editor.applying \in BOOLEAN
    BY EditorShape
  <2>5. QED
    BY <2>2, <2>3, <2>4 DEF OneApplyAtATime
<1>2. QED
  BY <1>1, Invariance, PTL

-----------------------------------------------------------------------------
(* The way back, the versions, and the key of an Apply.                      *)

LEMMA SomeCalls ==
  ASSUME NEW calls \in Seq(ACall), NEW D \in SUBSET (DOMAIN calls)
  PROVE  IsFiniteSet(D) /\ Cardinality(D) \in Nat /\ Cardinality(D) <= Len(calls)
<1> DEFINE n == Len(calls)
<1>1. DOMAIN calls = 1 .. n /\ n \in Nat
  OBVIOUS
<1> HIDE DEF n
<1>2. IsFiniteSet(1 .. n) /\ Cardinality(1 .. n) = n
  <2>1. /\ IsFiniteSet(1 .. n)
        /\ Cardinality(1 .. n) = IF 1 > n THEN 0 ELSE n - 1 + 1
    BY <1>1, FS_Interval
  <2>2. QED
    BY <1>1, <2>1
<1>3. IsFiniteSet(D) /\ Cardinality(D) <= n
  BY <1>1, <1>2, FS_Subset
<1>4. QED
  BY <1>3, FS_CardinalityType DEF n

\* How many calls were decided does not fall, and the calls stay within their
\* bound.
LEMMA CallsGoOn ==
  ASSUME IInv, Len(applies) <= MaxApply, [Next]_vars
  PROVE  Decided \subseteq Decided' /\ Len(applies') <= MaxApply
<1>0. applies \in Seq(ACall) /\ DOMAIN applies = 1 .. Len(applies) /\ Len(applies) \in Nat
  BY DEF IInv, ShapeOK
<1>1. ASSUME UNCHANGED applies PROVE Decided \subseteq Decided' /\ Len(applies') <= MaxApply
  BY <1>1 DEF Decided
<1>2. ASSUME applies' = Orphaned PROVE Decided \subseteq Decided' /\ Len(applies') <= MaxApply
  <2>1. /\ applies' \in Seq(ACall) /\ DOMAIN applies' = DOMAIN applies
        /\ \A i \in DOMAIN applies : applies'[i].state = applies[i].state
    BY <1>0, <1>2, OrphanedCalls
  <2>2. Len(applies') = Len(applies)
    BY <1>0, <2>1
  <2>3. QED
    BY <2>1, <2>2 DEF Decided
<1>3. ASSUME NEW i \in DOMAIN applies, NEW c, applies' = [applies EXCEPT ![i] = c], c.state # "sent"
      PROVE  Decided \subseteq Decided' /\ Len(applies') <= MaxApply
  BY <1>0, <1>3 DEF Decided
<1>4. CASE User
  <2>1. CASE \E t \in Target : Open(t)
    BY <1>1, <1>2, <2>1 DEF Open
  <2>2. CASE Close \/ Back \/ ShowInfo
    BY <1>2, <2>2 DEF Close, Back, ShowInfo
  <2>3. CASE Apply
    <3>1. PICK c : applies' = Append(applies, c) /\ Len(applies) < MaxApply
      BY <2>3 DEF Apply
    <3>2. /\ Len(applies') = Len(applies) + 1 /\ DOMAIN applies \subseteq DOMAIN applies'
          /\ \A i \in DOMAIN applies : applies'[i] = applies[i]
      BY <1>0, <3>1
    <3>3. QED
      BY <1>0, <3>1, <3>2, ResourceAssumption DEF Decided
  <2>4. CASE ShowYaml \/ Refresh \/ Edit \/ Write \/ Cancel \/ AskDelete \/ KeepIt \/ Delete
    BY <1>1, <2>4 DEF ShowYaml, Refresh, Edit, Write, Cancel, AskDelete, KeepIt, Delete
  <2>5. QED
    BY <1>4, <2>1, <2>2, <2>3, <2>4 DEF User
<1>5. CASE DeleteFails \/ Deleted
  BY <1>1, <1>2, <1>5 DEF DeleteFails, Deleted
<1>6. CASE Calls
  <2>1. PICK i \in DOMAIN applies : Patch(i) \/ Conflict(i) \/ Uncache(i) \/ PatchFails(i)
    BY <1>6 DEF Calls
  <2>2. PICK s \in {"patched", "stored", "failed"} : applies' = [applies EXCEPT ![i].state = s]
    BY <2>1 DEF Patch, Conflict, Uncache, PatchFails
  <2>3. [applies[i] EXCEPT !.state = s].state # "sent"
    BY <1>0, <2>2 DEF ACall
  <2>4. QED
    BY <1>3, <2>2, <2>3
<1>7. CASE \E i \in DOMAIN applies : Returns(i)
  BY <1>3, <1>7 DEF Returns, Applied, NotApplied, Done
<1>8. CASE \E k \in Key : Fetch(k)
  BY <1>1, <1>8 DEF Fetch, Hit, Miss, Answer, FetchFails, Lands
<1>9. CASE (\E t \in Busy : Change(t) \/ OtherStores(t) \/ Expire(t)) \/ UNCHANGED vars
  BY <1>1, <1>9 DEF Change, OtherStores, Expire, vars
<1>10. QED
  BY <1>4, <1>5, <1>6, <1>7, <1>8, <1>9 DEF Next

\* Whoever changes an object adds to its version, within the bounds.
LEMMA DocsGrow ==
  ASSUME IInv, Versions, [Next]_vars
  PROVE  \A t \in Target : /\ doc'[t] \in Nat /\ doc[t] <= doc'[t]
                           /\ doc'[t] <= MaxVersion + Cardinality(Decided')
<1> DEFINE n == Cardinality(Decided)
           m == Cardinality(Decided')
<1>0. /\ applies \in Seq(ACall) /\ doc \in [Target -> Int]
      /\ \A t \in Target : doc[t] \in Nat /\ doc[t] <= MaxVersion + n
  BY DEF IInv, ShapeOK, Versions
<1>1. applies' \in Seq(ACall)
  BY InvStep DEF IInv, ShapeOK
<1>2. Decided \subseteq Decided' /\ IsFiniteSet(Decided') /\ n \in Nat /\ m \in Nat
  <2>1. Decided \subseteq Decided'
    BY CallsGoOn DEF Versions
  <2>2. Decided \in SUBSET (DOMAIN applies) /\ Decided' \in SUBSET (DOMAIN applies')
    BY DEF Decided
  <2>3. QED
    BY <1>0, <1>1, <2>1, <2>2, SomeCalls
<1>3. n <= m
  BY <1>2, FS_Subset
<1>4. MaxVersion \in Nat
  BY ResourceAssumption
<1>5. ASSUME NEW i \in DOMAIN applies, Patch(i)
      PROVE  m = n + 1
  <2>1. /\ applies[i].state = "sent" /\ applies' = [applies EXCEPT ![i].state = "patched"]
        /\ applies[i] \in ACall
    BY <1>0, <1>5 DEF Patch
  <2>2. Decided' = Decided \cup {i} /\ i \notin Decided
    BY <1>0, <2>1 DEF Decided, ACall
  <2>3. IsFiniteSet(Decided)
    BY <1>2, FS_Subset
  <2>4. Cardinality(Decided \cup {i}) = n + 1
    BY <2>2, <2>3, FS_AddElement
  <2>5. QED
    BY <2>2, <2>4
<1> HIDE DEF n, m
<1>6. CASE \E i \in DOMAIN applies : Patch(i)
  <2>1. PICK i \in DOMAIN applies : Patch(i)
    BY <1>6
  <2>2. m = n + 1
    BY <1>5, <2>1
  <2>3. ASSUME NEW t \in Target
        PROVE  doc'[t] = doc[t] \/ doc'[t] = doc[t] + 1
    BY <1>0, <2>1 DEF Patch
  <2>4. ASSUME NEW t \in Target
        PROVE  doc'[t] \in Nat /\ doc[t] <= doc'[t] /\ doc'[t] <= MaxVersion + m
    BY <1>0, <1>2, <1>4, <2>2, <2>3
  <2>5. QED
    BY <2>4 DEF m
<1>7. CASE \E t \in Busy : Change(t)
  <2>1. PICK u \in Target : doc[u] < MaxVersion /\ doc' = [doc EXCEPT ![u] = @ + 1]
    BY <1>7, ResourceAssumption DEF Change
  <2>2. ASSUME NEW t \in Target
        PROVE  doc'[t] \in Nat /\ doc[t] <= doc'[t] /\ doc'[t] <= MaxVersion + m
    <3>1. CASE t = u
      BY <1>0, <1>2, <1>4, <2>1, <3>1
    <3>2. CASE t # u
      BY <1>0, <1>2, <1>3, <1>4, <2>1, <3>2
    <3>3. QED
      BY <3>1, <3>2
  <2>3. QED
    BY <2>2 DEF m
<1>8. CASE UNCHANGED doc
  <2>1. ASSUME NEW t \in Target
        PROVE  doc'[t] \in Nat /\ doc[t] <= doc'[t] /\ doc'[t] <= MaxVersion + m
    BY <1>0, <1>2, <1>3, <1>4, <1>8
  <2>2. QED
    BY <2>1 DEF m
<1>9. UNCHANGED doc \/ (\E i \in DOMAIN applies : Patch(i)) \/ (\E t \in Busy : Change(t))
  <2> USE DEF drawer, server
  <2>1. CASE User
    BY <2>1 DEF User, Open, Close, Back, ShowInfo, ShowYaml, Refresh, Edit, Write, Cancel, Apply,
                AskDelete, KeepIt, Delete
  <2>2. CASE DeleteFails \/ Deleted
    BY <2>2 DEF DeleteFails, Deleted
  <2>3. CASE Calls
    BY <2>3 DEF Calls, Conflict, Uncache, PatchFails
  <2>4. CASE \E i \in DOMAIN applies : Returns(i)
    BY <2>4 DEF Returns, Applied, NotApplied
  <2>5. CASE \E k \in Key : Fetch(k)
    BY <2>5 DEF Fetch, Hit, Miss, Answer, FetchFails, Lands
  <2>6. CASE (\E t \in Busy : Change(t) \/ OtherStores(t) \/ Expire(t)) \/ UNCHANGED vars
    BY <2>6 DEF OtherStores, Expire, vars
  <2>7. QED
    BY <2>1, <2>2, <2>3, <2>4, <2>5, <2>6 DEF Next
<1>10. QED
  BY <1>6, <1>7, <1>8, <1>9

\* An object has at most the versions of the others' changes and of the Applies.
LEMMA DocIsAVersion ==
  ASSUME IInv, Versions, NEW t \in Target
  PROVE  doc[t] \in Version /\ doc[t] # Nothing /\ 0 .. doc[t] \subseteq Version
<1>1. Cardinality(Decided) \in Nat /\ Cardinality(Decided) <= Len(applies) /\ Len(applies) \in Nat
  <2>1. applies \in Seq(ACall) /\ Decided \in SUBSET (DOMAIN applies)
    BY DEF IInv, ShapeOK, Decided
  <2>2. QED
    BY <2>1, SomeCalls
<1>2. /\ Len(applies) <= MaxApply /\ doc[t] \in Nat
      /\ doc[t] <= MaxVersion + Cardinality(Decided)
  BY DEF Versions
<1>3. MaxVersion \in Nat /\ MaxApply \in Nat
  BY ResourceAssumption
<1>4. QED
  BY <1>1, <1>2, <1>3 DEF Version, Nothing

\* A query that is observed keeps its readings.
LEMMA ObservedReadings ==
  ASSUME NEW q \in [Key -> AnEntry], \A j \in Key : EntryOK(q[j]), NEW k \in Key
  PROVE  /\ \A j \in Key : EntryOK(Fetched(q, k)[j])
         /\ \A p \in Observed(q, k) : \A j \in Key : EntryOK(p[j])
<1>1. Nothing \in Readings
  BY DEF Readings
<1>2. ASSUME NEW j \in Key PROVE EntryOK(Fetched(q, k)[j])
  <2>1. CASE j = k
    <3>1. /\ Fetched(q, k)[j].data = q[k].data /\ Fetched(q, k)[j].read = Nothing
          /\ Fetched(q, k)[j].fetch = "sent"
      BY <2>1 DEF Fetched
    <3>2. QED
      BY <1>1, <3>1 DEF EntryOK
  <2>2. CASE j # k
    BY <2>2 DEF Fetched
  <2>3. QED
    BY <2>1, <2>2
<1>3. QED
  BY <1>2 DEF Observed

\* A key that is read: nothing but its own entry changes.
LEMMA OneEntry ==
  ASSUME NEW k \in Key, query \in [Key -> AnEntry], NEW e, query' = [query EXCEPT ![k] = e],
         \A j \in Key : EntryOK(query[j]), EntryOK(e)
  PROVE  \A j \in Key : EntryOK(query'[j])
BY Zenon

\* No step counts further than the bound.
LEMMA NextNonce ==
  ASSUME IInv, [Next]_vars
  PROVE  nonce' \in 0 .. MaxNonce /\ target' \in Target \cup {None}
<1>1. IInv'
  BY InvStep
<1>2. Cardinality(UnderWay') \in Nat
  <2>1. applies' \in Seq(ACall) /\ UnderWay' \in SUBSET (DOMAIN applies')
    BY <1>1 DEF IInv, ShapeOK, UnderWay
  <2>2. QED
    BY <2>1, SomeCalls
<1>3. nonce' \in Nat /\ nonce' + Cardinality(UnderWay') <= MaxNonce /\ MaxNonce \in Nat
  BY <1>1, ResourceAssumption DEF IInv, ShapeOK, NoncesCounted
<1>4. QED
  BY <1>1, <1>2, <1>3 DEF IInv, ShapeOK

\* What reads and caches answer are versions of the object.
LEMMA ReadingsStay ==
  ASSUME IInv, Versions, [Next]_vars
  PROVE  \A k \in Key : EntryOK(query'[k])
<1>0. /\ query \in [Key -> AnEntry] /\ cached \in [Target -> Int]
      /\ \A k \in Key : EntryOK(query[k]) /\ query[k] \in AnEntry /\ k[1] \in Target
      /\ \A t \in Target : cached[t] \in Readings
      /\ Nothing \in Readings /\ Version \subseteq Readings
      /\ target \in Target \cup {None} /\ None \notin Target
  BY ResourceAssumption DEF IInv, ShapeOK, Versions, Readings, Key
<1>1. nonce' \in 0 .. MaxNonce /\ target' \in Target \cup {None}
  BY NextNonce
<1>2. ASSUME UNCHANGED query PROVE \A k \in Key : EntryOK(query'[k])
  BY <1>0, <1>2
<1>3. ASSUME Observes PROVE \A k \in Key : EntryOK(query'[k])
  <2>1. CASE Shown'
    <3>1. <<target', nonce'>> \in Key /\ query' \in Observed(query, <<target', nonce'>>)
      BY <1>1, <1>3, <2>1 DEF Shown, Key, Observes
    <3>2. QED
      BY <1>0, <3>1, ObservedReadings
  <2>2. CASE ~Shown'
    BY <1>2, <1>3, <2>2 DEF Observes
  <2>3. QED
    BY <2>1, <2>2
<1>4. CASE User
  <2>1. CASE (\E t \in Target : Open(t)) \/ ShowYaml \/ Refresh
    BY <1>2, <1>3, <2>1 DEF Open, ShowYaml, Refresh
  <2>2. CASE \/ Close \/ Back \/ ShowInfo \/ Edit \/ Write \/ Cancel \/ Apply
             \/ AskDelete \/ KeepIt \/ Delete
    BY <1>2, <2>2 DEF Close, Back, ShowInfo, Edit, Write, Cancel, Apply, AskDelete, KeepIt, Delete
  <2>3. QED
    BY <1>4, <2>1, <2>2 DEF User
<1>5. CASE DeleteFails \/ Deleted
  BY <1>2, <1>5 DEF DeleteFails, Deleted
<1>6. CASE Calls
  BY <1>2, <1>6 DEF Calls, Patch, Conflict, Uncache, PatchFails
<1>7. CASE \E i \in DOMAIN applies : Returns(i)
  <2>1. CASE \E i \in DOMAIN applies : NotApplied(i)
    BY <1>2, <2>1 DEF NotApplied
  <2>2. CASE \E i \in DOMAIN applies : Applied(i)
    <3> DEFINE stale == [k \in Key |-> [query[k] EXCEPT !.invalid = query[k].data # Nothing]]
               again == Fetched(stale, <<target, nonce>>)
    <3>1. \A k \in Key : stale[k] \in AnEntry /\ EntryOK(stale[k])
      BY <1>0 DEF AnEntry, EntryOK
    <3>2. stale \in [Key -> AnEntry]
      BY <3>1
    <3> HIDE DEF stale
    <3>3. CASE Shown
      <4>1. /\ query' \in Observed(again, <<target, nonce'>>)
            /\ <<target, nonce>> \in Key /\ <<target, nonce'>> \in Key
        BY <1>0, <1>1, <2>2, <3>3, NonceInRange DEF Applied, stale, Shown, Key
      <4>2. again \in [Key -> AnEntry] /\ \A j \in Key : EntryOK(again[j])
        BY <3>1, <3>2, <4>1, ObservedShape, ObservedReadings
      <4> HIDE DEF again
      <4>3. QED
        BY <4>1, <4>2, ObservedReadings
    <3>4. CASE ~Shown
      <4>1. query' = stale
        BY <2>2, <3>4 DEF Applied, stale
      <4>2. QED
        BY <3>1, <4>1
    <3>5. QED
      BY <3>3, <3>4
  <2>3. QED
    BY <1>7, <2>1, <2>2 DEF Returns
<1>8. CASE \E k \in Key : Fetch(k)
  <2>1. PICK k \in Key : Fetch(k)
    BY <1>8
  <2>2. ASSUME NEW v \in Readings, Lands(k, v) PROVE \A j \in Key : EntryOK(query'[j])
    <3> DEFINE e == [query[k] EXCEPT !.data = v, !.error = FALSE, !.fetch = "idle", !.read = Nothing]
    <3>1. EntryOK(e)
      BY <1>0 DEF EntryOK, AnEntry
    <3>2. query' = [query EXCEPT ![k] = e]
      BY <2>2 DEF Lands
    <3> HIDE DEF e
    <3>3. QED
      BY <1>0, <3>1, <3>2, OneEntry
  <2>3. CASE Hit(k)
    BY <1>0, <2>2, <2>3 DEF Hit
  <2>4. CASE Answer(k)
    BY <1>0, <2>2, <2>4 DEF Answer, EntryOK
  <2>5. CASE Miss(k)
    <3> DEFINE e == [query[k] EXCEPT !.fetch = "read", !.read = doc[k[1]]]
    <3>1. doc[k[1]] \in Version /\ doc[k[1]] # Nothing
      BY <1>0, DocIsAVersion
    <3>2. EntryOK(e)
      BY <1>0, <3>1 DEF EntryOK, AnEntry
    <3>3. query' = [query EXCEPT ![k] = e]
      BY <1>0, <2>5 DEF Miss, AnEntry
    <3> HIDE DEF e
    <3>4. QED
      BY <1>0, <3>2, <3>3, OneEntry
  <2>6. CASE FetchFails(k)
    <3> DEFINE e == [query[k] EXCEPT !.error = TRUE, !.fetch = "idle", !.read = Nothing]
    <3>1. EntryOK(e)
      BY <1>0 DEF EntryOK, AnEntry
    <3>2. query' = [query EXCEPT ![k] = e]
      BY <2>6 DEF FetchFails
    <3> HIDE DEF e
    <3>3. QED
      BY <1>0, <3>1, <3>2, OneEntry
  <2>7. QED
    BY <2>1, <2>3, <2>4, <2>5, <2>6 DEF Fetch
<1>9. CASE (\E t \in Busy : Change(t) \/ OtherStores(t) \/ Expire(t)) \/ UNCHANGED vars
  BY <1>2, <1>9 DEF Change, OtherStores, Expire, vars
<1>10. QED
  BY <1>4, <1>5, <1>6, <1>7, <1>8, <1>9 DEF Next

LEMMA CacheStays ==
  ASSUME IInv, Versions, [Next]_vars
  PROVE  \A t \in Target : cached'[t] \in Readings
<1>0. /\ cached \in [Target -> Int] /\ \A t \in Target : cached[t] \in Readings
      /\ \A k \in Key : query[k].read \in Readings /\ k[1] \in Target
      /\ Nothing \in Readings /\ Busy \subseteq Target
  BY ResourceAssumption DEF IInv, ShapeOK, Versions, Readings, EntryOK, Key
<1> DEFINE Sets(t, v) == cached' = [cached EXCEPT ![t] = v]
<1>1. \/ UNCHANGED cached
      \/ \E t, v : v \in Readings /\ Sets(t, v)
  <2> USE DEF drawer, server
  <2>1. CASE User
    BY <2>1 DEF User, Open, Close, Back, ShowInfo, ShowYaml, Refresh, Edit, Write, Cancel, Apply,
                AskDelete, KeepIt, Delete
  <2>2. CASE DeleteFails \/ Deleted
    BY <2>2 DEF DeleteFails, Deleted
  <2>3. CASE Calls
    BY <1>0, <2>3 DEF Calls, Patch, Conflict, Uncache, PatchFails
  <2>4. CASE \E i \in DOMAIN applies : Returns(i)
    BY <2>4 DEF Returns, Applied, NotApplied
  <2>5. CASE \E k \in Key : Fetch(k)
    BY <1>0, <2>5 DEF Fetch, Hit, Miss, Answer, FetchFails, Lands
  <2>6. CASE \E t \in Busy : Change(t) \/ OtherStores(t) \/ Expire(t)
    <3>1. PICK t \in Busy : Change(t) \/ OtherStores(t) \/ Expire(t)
      BY <2>6
    <3>2. CASE Change(t)
      BY <3>2 DEF Change
    <3>3. CASE OtherStores(t)
      <4>1. 0 .. doc[t] \subseteq Readings
        BY <1>0, DocIsAVersion DEF Readings
      <4>2. QED
        BY <3>3, <4>1 DEF OtherStores
    <3>4. CASE Expire(t)
      BY <1>0, <3>4 DEF Expire
    <3>5. QED
      BY <3>1, <3>2, <3>3, <3>4
  <2>7. CASE UNCHANGED vars
    BY <2>7 DEF vars
  <2>8. QED
    BY <2>1, <2>2, <2>3, <2>4, <2>5, <2>6, <2>7 DEF Next
<1>2. QED
  BY <1>0, <1>1

LEMMA VersionsInit == Init => Versions
<1> SUFFICES ASSUME Init PROVE Versions
  OBVIOUS
<1>1. {MaxVersion, MaxApply} \subseteq Nat
  BY ResourceAssumption
<1>2. Len(applies) <= MaxApply /\ Decided = {}
  BY <1>1 DEF Init, Decided
<1>3. Cardinality(Decided) = 0
  BY <1>2, FS_EmptySet
<1>4. Nothing \in Readings
  BY DEF Readings
<1>5. EntryOK(Unasked)
  BY <1>4 DEF EntryOK, Unasked
<1>6. QED
  BY <1>1, <1>2, <1>3, <1>4, <1>5 DEF Init, Versions

LEMMA VersionsStep == IInv /\ Versions /\ [Next]_vars => Versions'
<1> SUFFICES ASSUME IInv, Versions, [Next]_vars PROVE Versions'
  OBVIOUS
<1>1. Len(applies') <= MaxApply
  BY CallsGoOn DEF Versions
<1>2. \A t \in Target : doc'[t] \in Nat /\ doc'[t] <= MaxVersion + Cardinality(Decided')
  BY DocsGrow
<1>3. QED
  BY <1>1, <1>2, CacheStays, ReadingsStay DEF Versions

\* The way back grows by a link that is followed, and only then.
LEMMA WayBackInit == Init => WayBack /\ Flags
<1>1. MaxOpen \in Nat
  BY ResourceAssumption
<1>2. Len(<<>>) = 0
  OBVIOUS
<1>3. Init => WayBack
  BY <1>1, <1>2 DEF Init, WayBack
<1>4. Init => Flags
  BY DEF Init, Flags
<1>5. QED
  BY <1>3, <1>4

LEMMA OneShorter ==
  ASSUME NEW h \in Seq(Target), Len(h) # 0
  PROVE  Len(SubSeq(h, 1, Len(h) - 1)) = Len(h) - 1
<1>1. Len(h) \in Nat /\ \A i \in 1 .. Len(h) : h[i] \in Target
  OBVIOUS
<1> DEFINE n == Len(h) - 1
<1>2. n \in Nat /\ \A i \in 1 .. n : h[i] \in Target
  BY <1>1
<1> HIDE DEF n
<1>3. Len(SubSeq(h, 1, n)) = IF 1 <= n THEN n - 1 + 1 ELSE 0
  BY <1>2, SubSeqProperties
<1>4. Len(SubSeq(h, 1, n)) = n
  BY <1>2, <1>3
<1>5. QED
  BY <1>4 DEF n

LEMMA WayBackStep == IInv /\ WayBack /\ [Next]_vars => WayBack'
<1> SUFFICES ASSUME IInv, WayBack, [Next]_vars PROVE WayBack'
  OBVIOUS
<1>0. /\ history \in Seq(Target) /\ Len(history) \in Nat /\ target \in Target \cup {None}
      /\ None \notin Target /\ opened \in Nat /\ MaxOpen \in Nat
      /\ opened <= MaxOpen /\ Len(history) <= opened /\ (target = None => history = <<>>)
  BY ResourceAssumption DEF IInv, ShapeOK, WayBack
<1>1. CASE \E t \in Target : Open(t)
  <2>1. PICK t \in Target : Open(t)
    BY <1>1
  <2>2. /\ opened < MaxOpen /\ opened' = opened + 1 /\ target' = t
        /\ history' = IF target = None THEN history ELSE Append(history, target)
    BY <2>1 DEF Open
  <2>3. Len(history') <= Len(history) + 1 /\ Len(history') \in Nat
    BY <1>0, <2>2
  <2>4. QED
    BY <1>0, <2>2, <2>3 DEF WayBack
<1>2. CASE Close \/ Deleted
  <2>1. opened' = opened /\ history' = <<>>
    BY <1>2 DEF Close, Deleted
  <2>2. QED
    BY <1>0, <2>1 DEF WayBack
<1>3. CASE Back
  <2>1. /\ opened' = opened /\ history # <<>> /\ target' = history[Len(history)]
        /\ history' = SubSeq(history, 1, Len(history) - 1)
    BY <1>3 DEF Back
  <2>2. Len(history) # 0
    BY <1>0, <2>1
  <2>3. target' \in Target
    BY <1>0, <2>1, <2>2
  <2>4. Len(history') = Len(history) - 1
    BY <1>0, <2>1, <2>2, OneShorter
  <2>5. QED
    BY <1>0, <2>1, <2>3, <2>4 DEF WayBack
<1>4. ASSUME UNCHANGED <<target, history, opened>> PROVE WayBack'
  BY <1>4 DEF WayBack
<1> USE DEF drawer
<1>5. CASE \/ ShowInfo \/ ShowYaml \/ Refresh \/ Edit \/ Write \/ Cancel \/ Apply
           \/ AskDelete \/ KeepIt \/ Delete \/ DeleteFails
  BY <1>4, <1>5 DEF ShowInfo, ShowYaml, Refresh, Edit, Write, Cancel, Apply, AskDelete, KeepIt,
                    Delete, DeleteFails
<1>6. CASE Calls
  BY <1>4, <1>6 DEF Calls, Patch, Conflict, Uncache, PatchFails
<1>7. CASE \E i \in DOMAIN applies : Returns(i)
  BY <1>4, <1>7 DEF Returns, Applied, NotApplied
<1>8. CASE \E k \in Key : Fetch(k)
  BY <1>4, <1>8 DEF Fetch, Hit, Miss, Answer, FetchFails, Lands
<1>9. CASE (\E t \in Busy : Change(t) \/ OtherStores(t) \/ Expire(t)) \/ UNCHANGED vars
  BY <1>4, <1>9 DEF Change, OtherStores, Expire, vars
<1>10. QED
  BY <1>1, <1>2, <1>3, <1>5, <1>6, <1>7, <1>8, <1>9 DEF Next, User

LEMMA FlagsStep == IInv /\ Flags /\ [Next]_vars => Flags'
<1> SUFFICES ASSUME IInv, Flags, [Next]_vars PROVE Flags'
  OBVIOUS
<1>0. isYamlDirty \in BOOLEAN /\ dialog \in {"closed", "open", "pending"}
  BY DEF Flags
<1>1. ASSUME NEW ed, Rendered(ed) PROVE isYamlDirty' \in BOOLEAN
  <2>1. isYamlDirty' = Typed'
    BY <1>1 DEF Rendered
  <2>2. IInv'
    BY InvStep
  <2>3. editor'.editing \in BOOLEAN
    BY <2>2 DEF IInv, ShapeOK, AnEditor
  <2>4. Typed' \in BOOLEAN
    BY <2>3 DEF Typed
  <2>5. QED
    BY <2>1, <2>4
<1>2. isYamlDirty' \in BOOLEAN
  <2> USE DEF drawer
  <2>1. CASE User
    <3>1. CASE \E t \in Target : Open(t)
      BY <1>0, <3>1 DEF Open, Mounted
    <3>2. CASE Close \/ Back \/ ShowInfo \/ ShowYaml
      BY <1>0, <3>2 DEF Close, Back, Reset, ShowInfo, ShowYaml, Mounted
    <3>3. CASE Refresh \/ Edit \/ Write \/ Cancel \/ Apply
      BY <1>1, <3>3 DEF Refresh, Edit, Write, Cancel, Apply
    <3>4. CASE AskDelete \/ KeepIt \/ Delete
      BY <1>0, <3>4 DEF AskDelete, KeepIt, Delete
    <3>5. QED
      BY <2>1, <3>1, <3>2, <3>3, <3>4 DEF User
  <2>2. CASE DeleteFails \/ Deleted
    BY <1>0, <2>2 DEF DeleteFails, Deleted
  <2>3. CASE Calls
    BY <1>0, <2>3 DEF Calls, Patch, Conflict, Uncache, PatchFails
  <2>4. CASE \E i \in DOMAIN applies : Returns(i)
    BY <1>0, <1>1, <2>4 DEF Returns, Applied, NotApplied
  <2>5. CASE \E k \in Key : Fetch(k)
    BY <1>0, <1>1, <2>5 DEF Fetch, Hit, Miss, Answer, FetchFails, Lands
  <2>6. CASE (\E t \in Busy : Change(t) \/ OtherStores(t) \/ Expire(t)) \/ UNCHANGED vars
    BY <1>0, <2>6 DEF Change, OtherStores, Expire, vars
  <2>7. QED
    BY <2>1, <2>2, <2>3, <2>4, <2>5, <2>6 DEF Next
<1>3. dialog' \in {"closed", "open", "pending"}
  BY <1>0 DEF Next, User, Open, Close, Back, ShowInfo, ShowYaml, Refresh, Edit, Write, Cancel,
              Apply, AskDelete, KeepIt, Delete, DeleteFails, Deleted, Calls, Patch, Conflict,
              Uncache, PatchFails, Returns, Applied, NotApplied, Fetch, Hit, Miss, Answer,
              FetchFails, Lands, Change, OtherStores, Expire, vars
<1>4. QED
  BY <1>2, <1>3 DEF Flags

\* While the same key is shown, its object's version only grows.
LEMMA AskedStays ==
  ASSUME IInv, AskedIsRead, Versions, [Next]_vars,
         UNCHANGED <<asked, target, tab, nonce>>,
         asked.how = "apply" /\ target \in Forced =>
            LET e == query'[<<target, nonce>>]
            IN  /\ e.fetch = "read" => e.read >= asked.version
                /\ e.fetch = "idle" => e.error \/ e.data >= asked.version
  PROVE  AskedIsRead'
<1> SUFFICES ASSUME asked.how = "apply"
             PROVE  /\ Shown /\ nonce > 0 /\ asked.version \in Int /\ asked.version <= doc'[target]
    BY DEF AskedIsRead, Shown
<1>1. Shown /\ nonce > 0 /\ asked.version \in Int /\ asked.version <= doc[target]
  BY DEF AskedIsRead
<1>2. target \in Target
  BY <1>1 DEF Shown, IInv, ShapeOK
<1>3. doc[target] \in Nat /\ doc'[target] \in Nat /\ doc[target] <= doc'[target]
  BY <1>2, DocsGrow DEF Versions
<1>4. QED
  BY <1>1, <1>3

LEMMA AskedUnread ==
  ASSUME IInv, AskedIsRead, Versions, [Next]_vars,
         UNCHANGED <<asked, target, tab, nonce, query>>
  PROVE  AskedIsRead'
BY AskedStays DEF AskedIsRead

\* A read of the key: past the cache, after the Apply.
LEMMA AskedFetch ==
  ASSUME IInv, AskedIsRead, Versions, [Next]_vars, NEW k \in Key, Fetch(k)
  PROVE  AskedIsRead'
<1>0. /\ query \in [Key -> AnEntry] /\ query[k] \in AnEntry
  BY DEF IInv, ShapeOK
<1>1. UNCHANGED <<asked, target, tab, nonce>>
  BY DEF Fetch, Hit, Miss, Answer, FetchFails, Lands, drawer
<1> SUFFICES ASSUME asked.how = "apply", target \in Forced
             PROVE  LET e == query'[<<target, nonce>>]
                    IN  /\ e.fetch = "read" => e.read >= asked.version
                        /\ e.fetch = "idle" => e.error \/ e.data >= asked.version
  BY <1>1, AskedStays
<1> DEFINE key == <<target, nonce>>
<1>2. /\ nonce > 0 /\ asked.version <= doc[target]
      /\ query[key].fetch = "read" => query[key].read >= asked.version
      /\ query[key].fetch = "idle" => query[key].error \/ query[key].data >= asked.version
  BY DEF AskedIsRead
<1>3. asked.version \in Int /\ doc[target] \in Int
  BY ResourceAssumption DEF AskedIsRead, IInv, ShapeOK
<1>4. CASE k # key
  <2>1. key \in Key
    BY NonceInRange DEF AskedIsRead, Shown, IInv, ShapeOK, Key
  <2>2. \E e : query' = [query EXCEPT ![k] = e]
    BY DEF Fetch, Hit, Miss, Answer, FetchFails, Lands
  <2> HIDE DEF key
  <2>3. query'[key] = query[key]
    BY <1>0, <1>4, <2>1, <2>2
  <2>4. QED
    BY <1>2, <2>3 DEF key
<1>5. CASE k = key
  <2>1. k[1] = target /\ PastCache(k)
    BY <1>2, <1>5 DEF PastCache
  <2>2. CASE Miss(k)
    <3>1. query'[k].fetch = "read" /\ query'[k].read = doc[target]
      BY <1>0, <2>1, <2>2 DEF Miss, AnEntry
    <3>2. QED
      BY <1>2, <1>3, <1>5, <3>1
  <2>3. CASE Answer(k)
    <3>1. query[k].fetch = "read" /\ Lands(k, query[k].read)
      BY <2>3 DEF Answer
    <3>2. query'[k].fetch = "idle" /\ query'[k].data = query[k].read
      BY <1>0, <3>1 DEF Lands, AnEntry
    <3>3. QED
      BY <1>2, <1>5, <3>1, <3>2
  <2>4. CASE FetchFails(k)
    <3>1. query'[k].fetch = "idle" /\ query'[k].error
      BY <1>0, <2>4 DEF FetchFails, AnEntry
    <3>2. QED
      BY <1>5, <3>1
  <2>5. ~Hit(k)
    BY <2>1 DEF Hit
  <2>6. QED
    BY <2>2, <2>3, <2>4, <2>5 DEF Fetch
<1>6. QED
  BY <1>4, <1>5

\* The end of an Apply: the key is new to the query, or was read before and is
\* invalid now; either way it is asked for.
LEMMA AskedApplied ==
  ASSUME IInv, Versions, [Next]_vars, NEW i \in DOMAIN applies, Applied(i)
  PROVE  AskedIsRead'
<1> DEFINE stale == [k \in Key |-> [query[k] EXCEPT !.invalid = query[k].data # Nothing]]
           old == <<target, nonce>>
           new == <<target, nonce'>>
           again == Fetched(stale, old)
<1>0. /\ query \in [Key -> AnEntry] /\ nonce \in Nat /\ doc \in [Target -> Int]
      /\ target \in Target \cup {None}
      /\ nonce' = nonce + 1 /\ UNCHANGED <<target, tab, doc>>
      /\ asked' = IF /\ Shown /\ applies[i].on = target /\ query[new].fetch = "idle"
                  THEN [how |-> "apply", version |-> doc[target]] ELSE NotAsked
  BY DEF IInv, ShapeOK, Applied, server
<1>1. CASE asked' = NotAsked
  BY <1>1 DEF AskedIsRead, NotAsked
<1>2. CASE Shown /\ query[new].fetch = "idle" /\ asked' = [how |-> "apply", version |-> doc[target]]
  <2>1. query' \in Observed(again, new)
    BY <1>2 DEF Applied
  <2>2. target \in Target /\ old \in Key /\ new \in Key /\ old # new
    <3>1. nonce' \in 0 .. MaxNonce
      BY NextNonce
    <3>2. QED
      BY <1>0, <1>2, <3>1, NonceInRange DEF Shown, Key
  <2>3. stale \in [Key -> AnEntry] /\ stale[new].fetch = "idle" /\ stale[new].data = query[new].data
        /\ stale[new].invalid = (query[new].data # Nothing)
    <3>1. \A k \in Key : stale[k] \in AnEntry
      BY <1>0 DEF AnEntry
    <3>2. query[new] \in AnEntry
      BY <1>0, <2>2
    <3>3. QED
      BY <1>2, <2>2, <3>1, <3>2 DEF AnEntry
  <2> HIDE DEF stale
  <2>4. again \in [Key -> AnEntry] /\ again[new] = stale[new]
    <3>1. again \in [Key -> AnEntry]
      BY <2>2, <2>3, ObservedShape
    <3>2. QED
      BY <2>2, <2>3, <3>1 DEF Fetched
  <2> HIDE DEF again, old, new
  <2>5. query' = Fetched(again, new)
    BY <2>1, <2>3, <2>4 DEF Observed
  <2>6. query'[new].fetch = "sent"
    BY <2>2, <2>4, <2>5 DEF Fetched
  <2>7. /\ Shown' /\ nonce' > 0 /\ asked'.version \in Int /\ asked'.version <= doc'[target']
        /\ new = <<target', nonce'>>
    BY <1>0, <1>2, <2>2 DEF Shown, new
  <2>8. QED
    BY <2>6, <2>7 DEF AskedIsRead
<1>3. QED
  BY <1>0, <1>1, <1>2

LEMMA AskedInit == Init => AskedIsRead
BY DEF Init, AskedIsRead, NotAsked

LEMMA AskedStep == IInv /\ Versions /\ AskedIsRead /\ [Next]_vars => AskedIsRead'
<1> SUFFICES ASSUME IInv, Versions, AskedIsRead, [Next]_vars PROVE AskedIsRead'
  OBVIOUS
<1>1. ASSUME asked' = NotAsked PROVE AskedIsRead'
  BY <1>1 DEF AskedIsRead, NotAsked
<1> USE DEF drawer
<1>2. CASE User
  <2>1. CASE (\E t \in Target : Open(t)) \/ Close \/ Back \/ ShowInfo \/ ShowYaml \/ Refresh
    BY <1>1, <2>1 DEF Open, Close, Back, ShowInfo, ShowYaml, Refresh
  <2>2. CASE Edit \/ Write \/ Cancel \/ Apply \/ AskDelete \/ KeepIt \/ Delete
    BY <2>2, AskedUnread DEF Edit, Write, Cancel, Apply, AskDelete, KeepIt, Delete
  <2>3. QED
    BY <1>2, <2>1, <2>2 DEF User
<1>3. CASE DeleteFails \/ Deleted
  BY <1>1, <1>3, AskedUnread DEF DeleteFails, Deleted
<1>4. CASE Calls
  BY <1>4, AskedUnread DEF Calls, Patch, Conflict, Uncache, PatchFails
<1>5. CASE \E i \in DOMAIN applies : Returns(i)
  BY <1>5, AskedUnread, AskedApplied DEF Returns, NotApplied
<1>6. CASE \E k \in Key : Fetch(k)
  BY <1>6, AskedFetch
<1>7. CASE (\E t \in Busy : Change(t) \/ OtherStores(t) \/ Expire(t)) \/ UNCHANGED vars
  BY <1>7, AskedUnread DEF Change, OtherStores, Expire, vars
<1>8. QED
  BY <1>2, <1>3, <1>4, <1>5, <1>6, <1>7 DEF Next

\* Every variable holds what the code puts in it; the versions of an object
\* are at most those of the others' changes and of the Applies.
THEOREM TypeCorrect == Spec => []TypeOK
<1>1. IInv /\ WayBack /\ Flags /\ Versions => TypeOK
  <2> SUFFICES ASSUME IInv, WayBack, Flags, Versions PROVE TypeOK
    OBVIOUS
  <2>1. /\ target \in Target \cup {None} /\ history \in Seq(Target)
        /\ tab \in {"info", "yaml"} /\ nonce \in 0 .. MaxNonce
    BY NonceInRange DEF IInv, ShapeOK
  <2>2. Len(history) <= MaxOpen
    BY <2>1, ResourceAssumption DEF WayBack
  <2>3. target = None => history = <<>> /\ editor = NoEditor
    BY DEF WayBack, IInv, Hidden, Shown
  <2>4. \A k \in Key : /\ query[k].data \in Version \cup {Nothing}
                       /\ query[k].fetch \in {"idle", "sent", "read"}
                       /\ query[k].read # Nothing <=> query[k].fetch = "read"
    BY DEF IInv, ShapeOK, AnEntry, Versions, EntryOK, Readings
  <2>5. \A i \in DOMAIN applies : applies[i].on \in Target \cup {None}
    <3>1. applies \in Seq(ACall)
      BY DEF IInv, ShapeOK
    <3>2. \A i \in DOMAIN applies : applies[i] \in ACall
      BY <3>1
    <3>3. QED
      BY <3>2 DEF ACall
  <2>6. doc \in [Target -> Version]
    BY DocIsAVersion DEF IInv, ShapeOK
  <2>7. QED
    BY <2>1, <2>2, <2>3, <2>4, <2>5, <2>6, EditorShape DEF TypeOK, Flags
<1>2. QED
  BY <1>1, Invariance, InvStep, WayBackInit, WayBackStep, FlagsStep, VersionsInit, VersionsStep,
     PTL DEF Spec

\* invalidateAfterApply and the refresh nonce: after the Apply of a Namespace
\* or a Node the editor never shows an older text of it again, whatever the
\* caches hold and other readers store in them.
THEOREM AppliedCorrect == Spec => []AppliedIsShown
<1>1. IInv /\ Versions /\ AskedIsRead => AppliedIsShown
  BY DEF AskedIsRead, AppliedIsShown, Ready
<1>2. QED
  BY <1>1, Invariance, InvStep, VersionsInit, VersionsStep, AskedInit, AskedStep, PTL DEF Spec

=============================================================================
