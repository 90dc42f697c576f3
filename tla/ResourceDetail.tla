---------------------------- MODULE ResourceDetail ----------------------------
(***************************************************************************)
(* The detail drawer of the frontend: which resource it shows and the way  *)
(* back (ResourceDetailContext), its tabs and what they keep              *)
(* (ResourceDetailDrawer), the YAML it reads, edits and applies            *)
(* (useResourceYaml, YamlEditor) with the ten-second cache k8s-service     *)
(* puts in front of the API server, and the deletion (useResourceDelete).  *)
(*                                                                         *)
(* A YAML text is the version of the object it was read from and whether   *)
(* somebody has typed in it.  An action of the user stands for the event   *)
(* handler, the render it causes and the effects of that render.           *)
(***************************************************************************)
EXTENDS Integers, Sequences, FiniteSets

CONSTANTS
  Target,       \* resources
  Forced,       \* the Namespaces (and Nodes) among them: read past the cache
  None,         \* no target
  Busy,         \* those others read and change (bounds of the model)
  MaxVersion,   \* the version up to which others change an object
  MaxNonce,     \* presses of Refresh and successful Applies
  MaxApply,     \* presses of Apply
  MaxOpen,      \* links followed
  MaxFlight,    \* reads under way when the user starts another one
  MaxFail       \* requests that fail

ASSUME ResourceAssumption ==
  /\ Forced \subseteq Target /\ Busy \subseteq Target /\ None \notin Target
  /\ {MaxVersion, MaxNonce, MaxApply, MaxOpen, MaxFlight, MaxFail} \subseteq Nat

VARIABLES
  target,       \* what the drawer shows, or None
  history,      \* historyRef
  tab,
  nonce,        \* yamlRefreshNonce
  isYamlDirty,  \* what the drawer believes about the editor
  editor,       \* the state of the mounted YamlEditor
  query,        \* TanStack's entry of each key, a target and a nonce
  applies,      \* the calls of onApply so far, oldest first
  dialog,       \* the confirmation of a deletion
  doc,          \* the version of each object in the cluster
  cached,       \* the YAML cache of k8s-service: a version or Nothing
  opened,       \* links followed so far
  failed,       \* requests that have failed so far
  asked         \* for AppliedIsShown: whether the key shown is that of an
                \* Apply, and the version of the object at that time

drawer == <<target, history, tab, nonce, opened>>
server == <<doc, cached, failed>>
vars   == <<drawer, isYamlDirty, editor, query, applies, dialog, server, asked>>

Nothing == -1
Version == 0 .. MaxVersion + MaxApply
Key     == Target \X (0 .. MaxNonce)

Text(t, v) == [of |-> t, version |-> v, typed |-> FALSE]
Blank      == Text(None, 0)

NoEditor == [draft |-> Blank, editing |-> FALSE, applying |-> FALSE]

Done == [on |-> None, text |-> Blank, mounted |-> FALSE, state |-> "done"]

\* Never asked for: no data, no error, no fetch.
Unasked == [data |-> Nothing, error |-> FALSE, invalid |-> FALSE,
            fetch |-> "idle", read |-> Nothing]

NotAsked == [how |-> "not", version |-> 0]

Init ==
  /\ target = None /\ history = <<>> /\ tab = "info" /\ nonce = 0
  /\ isYamlDirty = FALSE /\ editor = NoEditor
  /\ query = [k \in Key |-> Unasked]
  /\ applies = <<>> /\ dialog = "closed"
  /\ doc = [t \in Target |-> 0]
  /\ cached = [t \in Target |-> Nothing]
  /\ asked = NotAsked /\ opened = 0 /\ failed = 0

-----------------------------------------------------------------------------
(* What a render shows.                                                    *)

Shown == target # None /\ tab = "yaml"

\* value={yamlData?.yaml || ''}
Value ==
  IF target = None \/ query[<<target, nonce>>].data = Nothing THEN Blank
  ELSE Text(target, query[<<target, nonce>>].data)

\* isReady: not loading (a first fetch) and no error
Ready ==
  /\ Shown
  /\ query[<<target, nonce>>].data # Nothing
  /\ ~query[<<target, nonce>>].error

\* Bound: every Apply under way may still take one.
NoncesLeft ==
  nonce + Cardinality({i \in DOMAIN applies : applies[i].state # "done"}) < MaxNonce

Typed == editor.editing /\ editor.draft # Value

\* Mutant: the drawer is told of the first key only.
RenderedOnce(ed) ==
  /\ editor' = IF ed.editing THEN ed ELSE [ed EXCEPT !.draft = Value']
  /\ isYamlDirty' = (isYamlDirty \/ Typed')

\* The effects of the editor after a render that kept it mounted: the draft
\* follows the value unless it is being edited, and the drawer is told.
Rendered(ed) ==
  /\ editor' = IF ed.editing THEN ed ELSE [ed EXCEPT !.draft = Value']
  /\ isYamlDirty' = Typed'

\* A render that mounted a new editor.
Mounted ==
  /\ editor' = [NoEditor EXCEPT !.draft = Value']
  /\ isYamlDirty' = FALSE

\* The promise of an editor that was unmounted resolves to nobody.
Orphaned == [i \in DOMAIN applies |-> [applies[i] EXCEPT !.mounted = FALSE]]

\* The query observes a key: it fetches what it has never read or what was
\* invalidated; what it has may be older than staleTime, or not.
Fetched(q, k) ==
  [q EXCEPT ![k] = [data |-> q[k].data, error |-> q[k].error /\ q[k].data # Nothing,
                    invalid |-> FALSE, fetch |-> "sent", read |-> Nothing]]

Observed(q, k) ==
  IF q[k].fetch # "idle" THEN {q}
  ELSE IF q[k].data = Nothing \/ q[k].invalid \/ q[k].error THEN {Fetched(q, k)}
  ELSE {q, Fetched(q, k)}

\* The YAML tab shows another key or another target than before.
Observes ==
  IF ~Shown' THEN query' = query
  ELSE /\ query' \in Observed(query, <<target', nonce'>>)
       /\ Cardinality({k \in Key : query'[k].fetch # "idle"}) <= MaxFlight

-----------------------------------------------------------------------------
(* The drawer.                                                             *)

\* Mutant: the editor has no key, the one of the last resource stays mounted.
OpenUnkeyed(t) ==
  /\ dialog = "closed"
  /\ opened < MaxOpen /\ opened' = opened + 1
  /\ target' = t
  /\ history' = IF target = None THEN history ELSE Append(history, target)
  /\ UNCHANGED <<tab, nonce, dialog, server, applies>>
  /\ Observes
  /\ IF Shown /\ Shown' THEN Rendered(editor)
     ELSE IF Shown' THEN Mounted ELSE UNCHANGED <<isYamlDirty, editor>>
  /\ asked' = NotAsked

\* A link: in a list, in the drawer, or in the chat that floats above it.
\* The key of the editor is its resource: another one mounts another editor.
Open(t) ==
  /\ dialog = "closed"
  /\ opened < MaxOpen /\ opened' = opened + 1
  /\ target' = t
  /\ history' = IF target = None THEN history ELSE Append(history, target)
  /\ UNCHANGED <<tab, nonce, dialog, server>>
  /\ IF t = target THEN UNCHANGED <<isYamlDirty, editor, query, applies>>
     ELSE /\ Observes
          /\ applies' = Orphaned
          /\ IF Shown' THEN Mounted ELSE UNCHANGED <<isYamlDirty, editor>>
  /\ asked' = NotAsked

\* resetDrawerState
Reset == tab' = "info" /\ nonce' = 0 /\ isYamlDirty' = FALSE

\* Mutant: the way back survives the closing.
CloseOnly ==
  /\ target # None /\ dialog = "closed"
  /\ target' = None /\ history' = history /\ Reset
  /\ editor' = NoEditor /\ applies' = Orphaned
  /\ UNCHANGED <<opened, query, dialog, server>>
  /\ asked' = NotAsked

\* The user was asked whether to discard what was typed, and agreed.
Close ==
  /\ target # None /\ dialog = "closed"
  /\ target' = None /\ history' = <<>> /\ Reset
  /\ editor' = NoEditor /\ applies' = Orphaned
  /\ UNCHANGED <<opened, query, dialog, server>>
  /\ asked' = NotAsked

Back ==
  /\ target # None /\ history # <<>> /\ dialog = "closed"
  /\ target' = history[Len(history)]
  /\ history' = SubSeq(history, 1, Len(history) - 1)
  /\ Reset
  /\ editor' = NoEditor /\ applies' = Orphaned
  /\ UNCHANGED <<opened, query, dialog, server>>
  /\ asked' = NotAsked

\* Leaving the tab unmounts the editor; nobody tells the drawer.
ShowInfo ==
  /\ Shown /\ dialog = "closed"
  /\ tab' = "info"
  /\ editor' = NoEditor /\ applies' = Orphaned
  /\ UNCHANGED <<target, history, nonce, opened, isYamlDirty, query, dialog, server>>
  /\ asked' = NotAsked

ShowYaml ==
  /\ target # None /\ tab = "info" /\ dialog = "closed"
  /\ tab' = "yaml"
  /\ UNCHANGED <<target, history, nonce, opened, applies, dialog, server>>
  /\ Observes
  /\ Mounted
  /\ asked' = NotAsked

-----------------------------------------------------------------------------
(* The editor.                                                             *)

Refresh ==
  /\ Ready /\ query[<<target, nonce>>].fetch = "idle" /\ dialog = "closed"
  /\ NoncesLeft
  /\ nonce' = nonce + 1
  /\ UNCHANGED <<target, history, tab, opened, applies, dialog, server>>
  /\ Observes
  /\ Rendered(editor)
  /\ asked' = NotAsked

Edit ==
  /\ Ready /\ ~editor.editing /\ dialog = "closed"
  /\ UNCHANGED <<drawer, query, applies, dialog, server, asked>>
  /\ Rendered([editor EXCEPT !.editing = TRUE])

\* handleEditorChange: also while an Apply is under way.
Write ==
  /\ Ready /\ editor.editing /\ dialog = "closed"
  /\ UNCHANGED <<drawer, query, applies, dialog, server, asked>>
  /\ Rendered([editor EXCEPT !.draft.typed = TRUE])

\* Mutant: the button Apply is free again.
CancelAll ==
  /\ Ready /\ editor.editing /\ dialog = "closed"
  /\ UNCHANGED <<drawer, query, applies, dialog, server, asked>>
  /\ Rendered([editor EXCEPT !.editing = FALSE, !.applying = FALSE])

Cancel ==
  /\ Ready /\ editor.editing /\ dialog = "closed"
  /\ UNCHANGED <<drawer, query, applies, dialog, server, asked>>
  /\ Rendered([editor EXCEPT !.editing = FALSE])

\* handleApply, up to its await
Apply ==
  /\ Ready /\ editor.editing /\ ~editor.applying /\ dialog = "closed"
  /\ Len(applies) < MaxApply /\ NoncesLeft
  /\ applies' = Append(applies, [on |-> target, text |-> editor.draft, mounted |-> TRUE,
                                 state |-> "sent"])
  /\ UNCHANGED <<drawer, query, dialog, server, asked>>
  /\ Rendered([editor EXCEPT !.applying = TRUE])

\* The rest of handleApply, and invalidateAfterApply of the drawer: every key
\* is invalidated, the one shown is read again under a new nonce.
Applied(i) ==
  /\ applies[i].state = "stored"
  /\ nonce' = nonce + 1
  /\ applies' = [applies EXCEPT ![i] = Done]
  /\ LET stale == [k \in Key |-> [query[k] EXCEPT !.invalid = query[k].data # Nothing]]
         again == IF Shown THEN Fetched(stale, <<target, nonce>>) ELSE stale
     IN IF Shown THEN query' \in Observed(again, <<target, nonce'>>) ELSE query' = again
  /\ UNCHANGED <<target, history, tab, opened, dialog, server>>
  /\ IF ~Shown THEN UNCHANGED <<editor, isYamlDirty>>
     ELSE IF applies[i].mounted
       THEN Rendered([editor EXCEPT !.editing = FALSE, !.applying = FALSE])
       ELSE Rendered(editor)
  /\ asked' = IF /\ Shown /\ applies[i].on = target
                 /\ query[<<target, nonce'>>].fetch = "idle"
              THEN [how |-> "apply", version |-> doc[target]] ELSE NotAsked

\* The catch and finally of handleApply: the draft stays.
NotApplied(i) ==
  /\ applies[i].state = "failed"
  /\ applies' = [applies EXCEPT ![i] = Done]
  /\ UNCHANGED <<drawer, isYamlDirty, query, dialog, server, asked>>
  /\ editor' = IF applies[i].mounted THEN [editor EXCEPT !.applying = FALSE] ELSE editor

-----------------------------------------------------------------------------
(* The deletion.                                                           *)

AskDelete ==
  /\ target # None /\ dialog = "closed"
  /\ dialog' = "open"
  /\ UNCHANGED <<drawer, isYamlDirty, editor, query, applies, server, asked>>

\* The dialog, its backdrop and Escape are dead while the call is pending.
KeepIt ==
  /\ dialog = "open"
  /\ dialog' = "closed"
  /\ UNCHANGED <<drawer, isYamlDirty, editor, query, applies, server, asked>>

Delete ==
  /\ dialog = "open"
  /\ dialog' = "pending"
  /\ UNCHANGED <<drawer, isYamlDirty, editor, query, applies, server, asked>>

DeleteFails ==
  /\ dialog = "pending"
  /\ dialog' = "open"
  /\ failed < MaxFail /\ failed' = failed + 1
  /\ UNCHANGED <<drawer, isYamlDirty, editor, query, applies, doc, cached, asked>>

\* onSuccess closes the drawer by close() alone: the tab, the nonce and the
\* flag stay for the next resource.
Deleted ==
  /\ dialog = "pending"
  /\ dialog' = "closed"
  /\ target' = None /\ history' = <<>>
  /\ editor' = NoEditor /\ applies' = Orphaned
  /\ UNCHANGED <<tab, nonce, opened, isYamlDirty, query, server>>
  /\ asked' = NotAsked

-----------------------------------------------------------------------------
(* k8s-service.                                                            *)

\* A draft reaches the cluster unless its version was overtaken (the patch
\* carries it); a Namespace is merged whatever the version.
Patch(i) ==
  LET t == applies[i].on  text == applies[i].text IN
  /\ applies[i].state = "sent"
  /\ text.version = doc[t] \/ t \in Forced
  /\ doc' = [doc EXCEPT ![t] = IF text.typed THEN @ + 1 ELSE @]
  /\ applies' = [applies EXCEPT ![i].state = "patched"]
  /\ UNCHANGED <<drawer, isYamlDirty, editor, query, dialog, cached, failed, asked>>

\* s.cache.Delete(ctx, cacheKey)
Uncache(i) ==
  /\ applies[i].state = "patched"
  /\ cached' = [cached EXCEPT ![applies[i].on] = Nothing]
  /\ applies' = [applies EXCEPT ![i].state = "stored"]
  /\ UNCHANGED <<drawer, isYamlDirty, editor, query, dialog, doc, failed, asked>>

Conflict(i) ==
  /\ applies[i].state = "sent" /\ applies[i].text.version # doc[applies[i].on]
  /\ applies' = [applies EXCEPT ![i].state = "failed"]
  /\ UNCHANGED <<drawer, isYamlDirty, editor, query, dialog, server, asked>>

\* The call failed, or its answer was lost after the patch.
PatchFails(i) ==
  /\ applies[i].state \in {"sent", "stored"}
  /\ applies' = [applies EXCEPT ![i].state = "failed"]
  /\ failed < MaxFail /\ failed' = failed + 1
  /\ UNCHANGED <<drawer, isYamlDirty, editor, query, dialog, doc, cached, asked>>

\* The result of a fetch reaches the browser.
Lands(k, v) ==
  /\ query' = [query EXCEPT ![k] = [@ EXCEPT !.data = v, !.error = FALSE, !.fetch = "idle",
                                             !.read = Nothing]]
  /\ UNCHANGED <<drawer, applies, dialog, doc, failed, asked>>
  /\ IF Shown THEN Rendered(editor) ELSE UNCHANGED <<editor, isYamlDirty>>

\* Mutant: every kind is read through the cache.
PastCacheNever(k) == FALSE

\* getNodeYaml(name, yamlRefreshNonce > 0), and getNamespaceYaml
PastCache(k) == k[1] \in Forced /\ k[2] > 0

Hit(k) ==
  /\ query[k].fetch = "sent" /\ ~PastCache(k) /\ cached[k[1]] # Nothing
  /\ Lands(k, cached[k[1]])
  /\ UNCHANGED cached

Miss(k) ==
  /\ query[k].fetch = "sent" /\ (PastCache(k) \/ cached[k[1]] = Nothing)
  /\ query' = [query EXCEPT ![k].fetch = "read", ![k].read = doc[k[1]]]
  /\ UNCHANGED <<drawer, isYamlDirty, editor, applies, dialog, server, asked>>

\* s.cache.Set(...): what was read may be old by now.
Answer(k) ==
  /\ query[k].fetch = "read"
  /\ cached' = [cached EXCEPT ![k[1]] = query[k].read]
  /\ Lands(k, query[k].read)

FetchFails(k) ==
  /\ query[k].fetch # "idle"
  /\ query' = [query EXCEPT ![k] = [@ EXCEPT !.error = TRUE, !.fetch = "idle", !.read = Nothing]]
  /\ failed < MaxFail /\ failed' = failed + 1
  /\ UNCHANGED <<drawer, isYamlDirty, editor, applies, dialog, doc, cached, asked>>

-----------------------------------------------------------------------------
(* Everybody else: the object changes, its YAML is read through the same   *)
(* cache, and ten seconds pass.  Busy names the objects it happens to.     *)

Change(t) ==
  /\ doc[t] < MaxVersion
  /\ doc' = [doc EXCEPT ![t] = @ + 1]
  /\ UNCHANGED <<drawer, isYamlDirty, editor, query, applies, dialog, cached, failed, asked>>

\* One of the other readers stores what it read at an earlier moment.
OtherStores(t) ==
  /\ \E v \in 0 .. doc[t] : cached' = [cached EXCEPT ![t] = v]
  /\ UNCHANGED <<drawer, isYamlDirty, editor, query, applies, dialog, doc, failed, asked>>

Expire(t) ==
  /\ cached[t] # Nothing
  /\ cached' = [cached EXCEPT ![t] = Nothing]
  /\ UNCHANGED <<drawer, isYamlDirty, editor, query, applies, dialog, doc, failed, asked>>

-----------------------------------------------------------------------------
User ==
  \/ \E t \in Target : Open(t)
  \/ Close \/ Back \/ ShowInfo \/ ShowYaml
  \/ Refresh \/ Edit \/ Write \/ Cancel \/ Apply
  \/ AskDelete \/ KeepIt \/ Delete

Returns(i) == Applied(i) \/ NotApplied(i)

Calls == \E i \in DOMAIN applies : Patch(i) \/ Conflict(i) \/ Uncache(i) \/ PatchFails(i)

Fetch(k) == Hit(k) \/ Miss(k) \/ Answer(k) \/ FetchFails(k)

Next ==
  \/ User \/ DeleteFails \/ Deleted \/ Calls
  \/ \E i \in DOMAIN applies : Returns(i)
  \/ \E k \in Key : Fetch(k)
  \/ \E t \in Busy : Change(t) \/ OtherStores(t) \/ Expire(t)

Spec == Init /\ [][Next]_vars

-----------------------------------------------------------------------------
\* The variables hold what the code puts in them.
TypeOK ==
  /\ target \in Target \cup {None}
  /\ history \in Seq(Target) /\ Len(history) <= MaxOpen
  /\ target = None => history = <<>> /\ editor = NoEditor
  /\ tab \in {"info", "yaml"} /\ nonce \in 0 .. MaxNonce
  /\ isYamlDirty \in BOOLEAN
  /\ editor.editing \in BOOLEAN /\ editor.applying \in BOOLEAN
  /\ \A k \in Key :
       /\ query[k].data \in Version \cup {Nothing}
       /\ query[k].fetch \in {"idle", "sent", "read"}
       /\ query[k].read # Nothing <=> query[k].fetch = "read"
  /\ \A i \in DOMAIN applies : applies[i].on \in Target \cup {None}
  /\ dialog \in {"closed", "open", "pending"}
  /\ doc \in [Target -> Version]

\* What is being edited is the YAML of the resource the header names, through
\* links, the way back and answers that arrive late: Apply never sends the
\* text of one object to the address of another.
DraftIsOfTheTarget ==
  /\ Shown /\ editor.editing => editor.draft.of = target
  /\ \A i \in DOMAIN applies : applies[i].text.of = applies[i].on

\* While an editor is mounted the drawer knows whether it holds unsaved text,
\* though the text, the value below it and the mode change at different
\* times; Close, Back and the tabs ask because of it.
DirtyIsKnown == Shown => (isYamlDirty = Typed)

\* An editor has one Apply under way exactly while its button is disabled,
\* whatever the user does with Cancel and Edit in between.
OneApplyAtATime ==
  LET pending == {i \in DOMAIN applies : applies[i].mounted /\ applies[i].state # "done"}
  IN /\ Cardinality(pending) <= 1
     /\ (pending # {}) = editor.applying

\* After an Apply of a Namespace or a Node the editor never again shows what
\* was there before it: not from the browser's cache, nor from that of
\* k8s-service, in which another reader may have left the old text.  (Unless
\* a read of an earlier visit is still on its way: the nonces of each visit
\* are counted from zero, and TanStack lets that read answer for the key.)
AppliedIsShown ==
  asked.how = "apply" /\ target \in Forced /\ Ready /\ query[<<target, nonce>>].fetch = "idle"
    => query[<<target, nonce>>].data >= asked.version

-----------------------------------------------------------------------------
(* Why they hold: the inductive invariant of ResourceDetailProofs.         *)

AText   == [of : Target \cup {None}, version : Int, typed : BOOLEAN]
AnEditor == [draft : AText, editing : BOOLEAN, applying : BOOLEAN]
AnEntry == [data : Int, error : BOOLEAN, invalid : BOOLEAN,
            fetch : {"idle", "sent", "read"}, read : Int]
ACall   == [on : Target \cup {None}, text : AText, mounted : BOOLEAN,
            state : {"sent", "patched", "stored", "failed", "done"}]

ShapeOK ==
  /\ target \in Target \cup {None} /\ history \in Seq(Target)
  /\ tab \in {"info", "yaml"} /\ nonce \in Nat
  /\ editor \in AnEditor
  /\ query \in [Key -> AnEntry]
  /\ applies \in Seq(ACall)
  /\ doc \in [Target -> Int] /\ cached \in [Target -> Int]

UnderWay == {i \in DOMAIN applies : applies[i].state # "done"}

NoncesCounted == nonce + Cardinality(UnderWay) <= MaxNonce

\* A text that nobody edits is the one the query holds.
Settled == Shown /\ ~editor.editing => editor.draft = Value

\* The state of an editor that was unmounted is gone.
Hidden == ~Shown => editor = NoEditor

\* An editor waits for one call at most, and knows of it.
Waits(i) == applies[i].mounted /\ applies[i].state # "done"

OneCall ==
  /\ \A i, j \in DOMAIN applies : Waits(i) /\ Waits(j) => i = j
  /\ (\E i \in DOMAIN applies : Waits(i)) <=> editor.applying

IInv ==
  /\ ShapeOK /\ NoncesCounted
  /\ Settled /\ Hidden /\ OneCall
  /\ DirtyIsKnown /\ DraftIsOfTheTarget

\* Every link followed is a way back at most once, and a closed drawer has none.
WayBack ==
  /\ opened \in 0 .. MaxOpen /\ Len(history) <= opened
  /\ target = None => history = <<>>

Flags == isYamlDirty \in BOOLEAN /\ dialog \in {"closed", "open", "pending"}

\* A version comes from somebody else's change or from an Apply that has been
\* decided, and what is read or cached is a version.
Decided == {i \in DOMAIN applies : applies[i].state # "sent"}

Readings == Version \cup {Nothing}

EntryOK(e) == /\ e.data \in Readings /\ e.read \in Readings
              /\ e.read # Nothing <=> e.fetch = "read"

Versions ==
  /\ Len(applies) <= MaxApply
  /\ \A t \in Target : /\ doc[t] \in Nat /\ doc[t] <= MaxVersion + Cardinality(Decided)
                       /\ cached[t] \in Readings
  /\ \A k \in Key : EntryOK(query[k])

\* The key of an Apply has been read after it, or is still to be read, past the
\* cache because its nonce is not zero.
AskedIsRead ==
  asked.how = "apply" =>
    /\ Shown /\ nonce > 0 /\ asked.version \in Int /\ asked.version <= doc[target]
    /\ target \in Forced =>
         LET e == query[<<target, nonce>>]
         IN  /\ e.fetch = "read" => e.read >= asked.version
             /\ e.fetch = "idle" => e.error \/ e.data >= asked.version
=============================================================================
