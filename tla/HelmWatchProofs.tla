-------------------------- MODULE HelmWatchProofs --------------------------
(* Theorems about HelmWatch, for any releases, histories and changes. *)
EXTENDS HelmWatch, FiniteSetTheorems, SequenceTheorems, WellFoundedInduction, TLAPS

-----------------------------------------------------------------------------
\* The effect opens the link when the list begins to be shown and removes timer
\* and socket when it ends; otherwise it leaves them alone.
LEMMA EffectKeepsTheLink ==
  ASSUME LinkInv, NEW m \in BOOLEAN, NEW l \in BOOLEAN, NEW f, Effect(m, l, f)
  PROVE  /\ timer' \in BOOLEAN
         /\ socket' \in {"none", "connecting", "open"}
         /\ IF Enabled(m, l, f) THEN timer' = (socket' = "none")
                                ELSE socket' = "none" /\ ~timer'
<1>1. CASE Enabled(m, l, f) = Enabled(mounted, loaded, fetch)
  BY <1>1 DEF Effect, LinkInv, OneLinkWhileShown
<1>2. CASE Enabled(m, l, f) /\ ~Enabled(mounted, loaded, fetch)
  BY <1>2 DEF Effect, Connect, LinkInv, OneLinkWhileShown
<1>3. CASE ~Enabled(m, l, f) /\ Enabled(mounted, loaded, fetch)
  BY <1>3 DEF Effect, Cleanup, LinkInv, OneLinkWhileShown
<1>4. Enabled(m, l, f) \in BOOLEAN /\ Enabled(mounted, loaded, fetch) \in BOOLEAN
  BY DEF Enabled, LinkInv
<1>5. QED
  BY <1>1, <1>2, <1>3, <1>4

LEMMA LinkInit == Init => LinkInv
BY DEF Init, LinkInv, OneLinkWhileShown, Enabled

\* The cluster, the server and the cache do not touch the link, nor what
\* decides whether it is wanted.
LEMMA LinkOthers ==
  ASSUME LinkInv,
         UNCHANGED <<mounted, loaded, socket, timer>>,
         (fetch' = "none") = (fetch = "none")
  PROVE  LinkInv'
BY DEF LinkInv, OneLinkWhileShown, Enabled

\* Every event handler of the connection; an event that arrives gives the
\* query data, but it arrives only while the link is wanted already.
LEMMA LinkConnection ==
  ASSUME LinkInv, SocketOpens \/ SocketDrops \/ TimerFires \/ Deliver
  PROVE  LinkInv'
<1> USE DEF LinkInv, OneLinkWhileShown, Enabled, pageVars, listVars
<1>1. CASE SocketOpens
  BY <1>1 DEF SocketOpens
<1>2. CASE SocketDrops
  BY <1>2 DEF SocketDrops
<1>3. CASE TimerFires
  BY <1>3 DEF TimerFires
<1>4. CASE Deliver
  <2>1. mounted /\ ~timer /\ socket = "open"
    BY <1>4 DEF Deliver
  <2>2. UNCHANGED <<mounted, socket, timer>> /\ loaded' = TRUE
    BY <1>4 DEF Deliver, linkVars
  <2>3. QED
    BY <2>1, <2>2
<1>5. QED
  BY <1>1, <1>2, <1>3, <1>4

\* The query's steps run the effect with what they leave.
LEMMA LinkQuery ==
  ASSUME LinkInv, Mount \/ Unmount \/ Collect \/ Refresh \/ Land \/ FetchFails
  PROVE  LinkInv'
<1>0. mounted \in BOOLEAN /\ loaded \in BOOLEAN
  BY DEF LinkInv
<1>1. CASE Mount
  <2>1. Effect(TRUE, loaded, fetch') /\ mounted' = TRUE /\ loaded' = loaded
    BY <1>1 DEF Mount
  <2>2. QED
    BY <1>0, <2>1, EffectKeepsTheLink DEF LinkInv, OneLinkWhileShown
<1>2. CASE Unmount
  <2>1. Effect(FALSE, loaded, fetch) /\ mounted' = FALSE /\ loaded' = loaded /\ fetch' = fetch
    BY <1>2 DEF Unmount, listVars
  <2>2. QED
    BY <1>0, <2>1, EffectKeepsTheLink DEF LinkInv, OneLinkWhileShown
<1>3. CASE Collect
  BY <1>3 DEF Collect, linkVars, listVars, LinkInv, OneLinkWhileShown, Enabled
<1>4. CASE Refresh
  <2>1. /\ Effect(TRUE, loaded, "asked")
        /\ mounted' = TRUE /\ loaded' = loaded /\ fetch' = "asked"
    BY <1>0, <1>4 DEF Refresh, pageVars
  <2>2. QED
    BY <1>0, <2>1, EffectKeepsTheLink DEF LinkInv, OneLinkWhileShown
<1>5. CASE Land
  <2>1. Effect(mounted, TRUE, "none") /\ mounted' = mounted /\ loaded' = TRUE /\ fetch' = "none"
    BY <1>5 DEF Land
  <2>2. QED
    BY <1>0, <2>1, EffectKeepsTheLink DEF LinkInv, OneLinkWhileShown
<1>6. CASE FetchFails
  <2>1. Effect(mounted, loaded, "none") /\ UNCHANGED <<mounted, loaded>> /\ fetch' = "none"
    BY <1>6 DEF FetchFails, pageVars
  <2>2. QED
    BY <1>0, <2>1, EffectKeepsTheLink DEF LinkInv, OneLinkWhileShown
<1>7. QED
  BY <1>1, <1>2, <1>3, <1>4, <1>5, <1>6

LEMMA LinkStep == LinkInv /\ [Next]_vars => LinkInv'
<1> SUFFICES ASSUME LinkInv, [Next]_vars PROVE LinkInv'
  OBVIOUS
<1>1. CASE \E r \in Release : Upgrade(r) \/ Uninstall(r)
  <2>1. ASSUME NEW S, NEW events, Change(S, events)
        PROVE  UNCHANGED <<mounted, loaded, socket, timer, fetch>>
    BY <2>1 DEF Change, linkVars
  <2>2. UNCHANGED <<mounted, loaded, socket, timer, fetch>>
    BY <1>1, <2>1 DEF Upgrade, Uninstall
  <2>3. QED
    BY <2>2, LinkOthers
<1>2. CASE StartWatch \/ StartFails \/ StartAgain \/ WatchEnds
  <2>1. UNCHANGED <<mounted, loaded, socket, timer, fetch>>
    BY <1>2 DEF StartWatch, StartFails, StartAgain, WatchEnds, pageVars, listVars, linkVars
  <2>2. QED
    BY <2>1, LinkOthers
<1>3. CASE SocketOpens \/ SocketDrops \/ TimerFires \/ Deliver
  BY <1>3, LinkConnection
<1>4. CASE Mount \/ Unmount \/ Collect \/ Refresh \/ Land \/ FetchFails
  BY <1>4, LinkQuery
<1>5. CASE Lookup \/ Store \/ Expire
  <2>1. UNCHANGED <<mounted, loaded, socket, timer>>
    BY <1>5 DEF Lookup, Store, Expire, pageVars, linkVars
  <2>2. (fetch' = "none") = (fetch = "none")
    BY <1>5 DEF Lookup, Store, Expire
  <2>3. QED
    BY <2>1, <2>2, LinkOthers
<1>6. CASE UNCHANGED vars
  BY <1>6, LinkOthers DEF vars, pageVars, listVars, linkVars
<1>7. QED
  BY <1>1, <1>2, <1>3, <1>4, <1>5, <1>6 DEF Next

\* A loop is started by the connection that opens, and ended with it; the effect
\* connects only where no connection is left.
LEMMA WatchInit == Init => WatchIsConnected
BY DEF Init, WatchIsConnected

LEMMA WatchStep == LinkInv /\ WatchIsConnected /\ [Next]_vars => WatchIsConnected'
<1> SUFFICES ASSUME LinkInv, WatchIsConnected, [Next]_vars PROVE WatchIsConnected'
  OBVIOUS
<1> USE DEF WatchIsConnected, serverVars, linkVars
<1>0. mounted \in BOOLEAN /\ loaded \in BOOLEAN /\ timer \in BOOLEAN
  BY DEF LinkInv
<1>1. ASSUME NEW m \in BOOLEAN, NEW l \in BOOLEAN, NEW f, Effect(m, l, f)
      PROVE  WatchIsConnected'
  <2>1. Enabled(m, l, f) \in BOOLEAN /\ Enabled(mounted, loaded, fetch) \in BOOLEAN
    BY <1>0, <1>1 DEF Enabled
  <2>2. CASE Enabled(m, l, f) = Enabled(mounted, loaded, fetch)
    BY <1>1, <2>2 DEF Effect
  <2>3. CASE Enabled(m, l, f) /\ ~Enabled(mounted, loaded, fetch)
    BY <1>1, <2>3 DEF Effect, Connect, LinkInv, OneLinkWhileShown
  <2>4. CASE ~Enabled(m, l, f) /\ Enabled(mounted, loaded, fetch)
    BY <1>1, <2>4 DEF Effect, Cleanup
  <2>5. QED
    BY <2>1, <2>2, <2>3, <2>4
<1>2. CASE \E r \in Release : Upgrade(r) \/ Uninstall(r)
  <2>1. ASSUME NEW S, NEW new, Change(S, new) PROVE UNCHANGED <<watch, socket>>
    BY <2>1 DEF Change
  <2>2. UNCHANGED <<watch, socket>>
    BY <1>2, <2>1 DEF Upgrade, Uninstall
  <2>3. QED
    BY <2>2
<1>3. CASE StartWatch \/ StartFails \/ StartAgain \/ WatchEnds
  BY <1>3 DEF StartWatch, StartFails, StartAgain, WatchEnds
<1>4. CASE SocketOpens \/ SocketDrops \/ TimerFires \/ Deliver
  BY <1>4 DEF SocketOpens, SocketDrops, TimerFires, Deliver, LinkInv, OneLinkWhileShown
<1>5. CASE Mount \/ Unmount \/ Refresh \/ Land \/ FetchFails
  BY <1>0, <1>1, <1>5 DEF Mount, Unmount, Refresh, Land, FetchFails
<1>6. CASE Collect \/ Lookup \/ Store \/ Expire \/ UNCHANGED vars
  BY <1>6 DEF Collect, Lookup, Store, Expire, vars
<1>7. QED
  BY <1>2, <1>3, <1>4, <1>5, <1>6 DEF Next

-----------------------------------------------------------------------------
\* However the page comes and goes, lists fail and connections are lost, there
\* is one socket or one timer while the list is shown, and nothing otherwise.
THEOREM LinkCorrect == Spec => []OneLinkWhileShown
<1>1. LinkInv => OneLinkWhileShown
  BY DEF LinkInv
<1>2. QED
  BY <1>1, LinkInit, LinkStep, PTL DEF Spec

-----------------------------------------------------------------------------
(* The newest revision of a release. *)

LEMMA LeastNat ==
  ASSUME NEW T \in SUBSET Nat, T # {}
  PROVE  \E x \in T : \A y \in T : x <= y
<1>1. PICK x \in T : \A y \in T : ~(<<y, x>> \in OpToRel(<, Nat))
  BY NatLessThanWellFounded, WFMin
<1>2. \A y \in T : ~(y < x)
  BY <1>1 DEF OpToRel
<1>3. QED
  BY <1>2

LEMMA HasNewest ==
  ASSUME NEW V \in SUBSET Rev, V # {}
  PROVE  \E x \in V : \A y \in V : x >= y
<1> DEFINE B == {n \in Nat : \A v \in V : v <= n}
<1>0. MaxChange \in Nat
  BY HelmAssumption
<1>1. \A v \in V : v \in Nat /\ 1 <= v /\ v <= MaxChange
  BY <1>0 DEF Rev
<1>2. MaxChange \in B
  BY <1>0, <1>1
<1>3. PICK x \in B : \A y \in B : x <= y
  BY <1>2, LeastNat
<1>4. CASE x \in V
  BY <1>1, <1>3, <1>4
<1>5. CASE x \notin V
  <2>1. x # 0
    BY <1>1, <1>3
  <2>2. x - 1 \in Nat /\ \A v \in V : v <= x - 1
    BY <1>1, <1>3, <1>5, <2>1
  <2>3. x - 1 \in B /\ ~(x <= x - 1)
    BY <1>3, <2>2
  <2>4. QED
    BY <1>3, <2>3
<1>6. QED
  BY <1>4, <1>5

LEMMA RevisionsAre ==
  ASSUME NEW S, S \subseteq Release \X Rev, NEW r
  PROVE  /\ Revisions(r, S) \in SUBSET Rev
         /\ \A v : v \in Revisions(r, S) <=> <<r, v>> \in S
BY DEF Revisions

\* Latest is the newest of the revisions there are, 0 when there are none.
LEMMA LatestIs ==
  ASSUME NEW S, S \subseteq Release \X Rev, NEW r
  PROVE  /\ Latest(r, S) \in 0..MaxChange
         /\ Latest(r, S) # 0 => <<r, Latest(r, S)>> \in S
         /\ \A v : <<r, v>> \in S => v \in Rev /\ v <= Latest(r, S)
<1> DEFINE V == Revisions(r, S)
<1>1. V \in SUBSET Rev /\ \A v : v \in V <=> <<r, v>> \in S
  BY RevisionsAre
<1>2. CASE V = {}
  BY <1>1, <1>2, HelmAssumption DEF Latest
<1>3. CASE V # {}
  <2>1. Latest(r, S) \in V /\ \A y \in V : Latest(r, S) >= y
    BY <1>1, <1>3, HasNewest DEF Latest, Max
  <2>2. QED
    BY <1>1, <2>1, HelmAssumption DEF Rev
<1>4. QED
  BY <1>2, <1>3

LEMMA LatestNat ==
  ASSUME NEW S, S \subseteq Release \X Rev
  PROVE  \A q \in Release : Latest(q, S) \in Nat
<1>1. ASSUME NEW q \in Release PROVE Latest(q, S) \in Nat
  <2>1. Latest(q, S) \in 0..MaxChange
    BY LatestIs
  <2>2. QED
    BY <2>1, HelmAssumption
<1>2. QED
  BY <1>1

LEMMA LatestOf ==
  ASSUME NEW S, S \subseteq Release \X Rev, NEW r, NEW v,
         <<r, v>> \in S, \A u : <<r, u>> \in S => u <= v
  PROVE  Latest(r, S) = v
<1>1. /\ Latest(r, S) \in 0..MaxChange
      /\ Latest(r, S) # 0 => <<r, Latest(r, S)>> \in S
      /\ v \in Rev /\ v <= Latest(r, S)
  BY LatestIs
<1>2. QED
  BY <1>1, HelmAssumption DEF Rev

LEMMA LatestSame ==
  ASSUME NEW S, NEW T, S \subseteq Release \X Rev, T \subseteq Release \X Rev, NEW r,
         \A v : <<r, v>> \in S <=> <<r, v>> \in T
  PROVE  Latest(r, S) = Latest(r, T)
<1>1. \A v : v \in Revisions(r, S) <=> v \in Revisions(r, T)
  BY RevisionsAre
<1>2. Revisions(r, S) = Revisions(r, T)
  BY <1>1
<1>3. QED
  BY <1>2 DEF Latest

-----------------------------------------------------------------------------
(* Events behind one another. *)

Events == [type : {"ADDED", "MODIFIED", "DELETED"}, rel : Release, rev : Rev]

\* What is appended stays behind what is on its way, in its own order.
LEMMA Appended ==
  ASSUME NEW w \in Seq(Events), NEW new \in Seq(Events)
  PROVE  /\ w \o new \in Seq(Events)
         /\ \A i \in DOMAIN w : i \in DOMAIN (w \o new) /\ (w \o new)[i] = w[i]
         /\ \A j \in DOMAIN new :
               /\ Len(w) + j \in DOMAIN (w \o new) /\ (w \o new)[Len(w) + j] = new[j]
               /\ \A i \in DOMAIN w : i < Len(w) + j
         /\ \A k \in DOMAIN (w \o new) :
               k \in DOMAIN w \/ \E j \in DOMAIN new : k = Len(w) + j
<1> DEFINE all == w \o new
<1>1. /\ all \in Seq(Events) /\ Len(all) = Len(w) + Len(new)
      /\ \A i \in 1..Len(w) + Len(new) :
            all[i] = IF i <= Len(w) THEN w[i] ELSE new[i - Len(w)]
  BY ConcatProperties, Zenon
<1>2. /\ Len(w) \in Nat /\ Len(new) \in Nat
      /\ DOMAIN w = 1..Len(w) /\ DOMAIN new = 1..Len(new) /\ DOMAIN all = 1..Len(all)
  BY <1>1, LenProperties
<1> HIDE DEF all
<1>3. \A i \in DOMAIN w : i \in DOMAIN all /\ all[i] = w[i]
  BY <1>1, <1>2
<1>4. ASSUME NEW j \in DOMAIN new
      PROVE  /\ Len(w) + j \in DOMAIN all /\ all[Len(w) + j] = new[j]
             /\ \A i \in DOMAIN w : i < Len(w) + j
  <2>1. j \in Nat /\ 1 <= j /\ j <= Len(new)
    BY <1>2
  <2>2. Len(w) + j \in 1..Len(w) + Len(new) /\ ~(Len(w) + j <= Len(w))
        /\ (Len(w) + j) - Len(w) = j
    BY <1>2, <2>1
  <2>3. all[Len(w) + j] = new[j]
    BY <1>1, <2>2
  <2>4. QED
    BY <1>1, <1>2, <2>1, <2>2, <2>3
<1>5. ASSUME NEW k \in DOMAIN all, k \notin DOMAIN w
      PROVE  \E j \in DOMAIN new : k = Len(w) + j
  <2>1. k - Len(w) \in DOMAIN new /\ k = Len(w) + (k - Len(w))
    BY <1>1, <1>2, <1>5
  <2>2. QED
    BY <2>1
<1>6. QED
  BY <1>1, <1>3, <1>4, <1>5 DEF all

\* What is not at the head is still there after it.
LEMMA Delivered ==
  ASSUME NEW w \in Seq(Events), w # <<>>
  PROVE  /\ Tail(w) \in Seq(Events) /\ Head(w) = w[1] /\ w[1] \in Events /\ 1 \in DOMAIN w
         /\ \A i \in DOMAIN Tail(w) : i + 1 \in DOMAIN w /\ Tail(w)[i] = w[i + 1] /\ i \in Nat
         /\ \A k \in DOMAIN w : k > 1 =>
               k - 1 \in DOMAIN Tail(w) /\ Tail(w)[k - 1] = w[k] /\ k \in Nat
         /\ \A k \in DOMAIN w : k = 1 \/ k > 1
<1> DEFINE rest == Tail(w)
<1>1. /\ rest \in Seq(Events) /\ Len(rest) = Len(w) - 1
      /\ \A i \in 1..Len(rest) : rest[i] = w[i + 1]
  BY HeadTailProperties, Zenon
<1>2. Len(w) \in Nat /\ Len(w) # 0 /\ DOMAIN w = 1..Len(w) /\ DOMAIN rest = 1..Len(rest)
  BY <1>1, LenProperties, EmptySeq
<1>3. Head(w) = w[1] /\ w[1] \in Events
  BY <1>2
<1> HIDE DEF rest
<1>4. \A i \in DOMAIN rest : i + 1 \in DOMAIN w /\ rest[i] = w[i + 1] /\ i \in Nat
  BY <1>1, <1>2
<1>5. ASSUME NEW k \in DOMAIN w, k > 1
      PROVE  k - 1 \in DOMAIN rest /\ rest[k - 1] = w[k] /\ k \in Nat
  <2>1. k - 1 \in 1..Len(rest) /\ (k - 1) + 1 = k /\ k \in Nat
    BY <1>1, <1>2, <1>5
  <2>2. QED
    BY <1>1, <1>2, <2>1
<1>6. 1 \in DOMAIN w /\ \A k \in DOMAIN w : k = 1 \/ k > 1
  BY <1>2
<1>7. QED
  BY <1>1, <1>3, <1>4, <1>5, <1>6 DEF rest

-----------------------------------------------------------------------------
(* HelmInv, action by action. *)

LEMMA WireType == TypeOK => wire \in Seq(Events) /\ \A i \in DOMAIN wire : wire[i] \in Events
<1> SUFFICES ASSUME TypeOK PROVE wire \in Seq(Events) /\ \A i \in DOMAIN wire : wire[i] \in Events
  OBVIOUS
<1>1. wire \in Seq(Events)
  BY DEF TypeOK, Events
<1>2. QED
  BY <1>1, LenProperties

LEMMA EventType ==
  ASSUME NEW e \in Events
  PROVE  e.type \in {"ADDED", "MODIFIED", "DELETED"} /\ e.rel \in Release /\ e.rev \in Rev
BY DEF Events

\* With nothing on its way, and a change the page may miss, nothing is asked of
\* the wire.
LEMMA NothingOnItsWay ==
  ASSUME wire' = <<>>
  PROVE  WireIsWatched' /\ OldIsEnded' /\ EndedIsBrought'
BY DEF WireIsWatched, OldIsEnded, EndedIsBrought

\* Steps that leave the cluster and the wire alone.
LEMMA WireStays ==
  ASSUME HelmInv, UNCHANGED <<secrets, wire>>, wire = <<>> \/ watch' = watch
  PROVE  WireIsWatched' /\ OldIsEnded' /\ EndedIsBrought'
BY DEF HelmInv, WireIsWatched, OldIsEnded, EndedIsBrought, Latest, Revisions

LEMMA RowsStay ==
  ASSUME HelmInv, UNCHANGED <<secrets, wire, rows>>, missed' \/ missed' = missed
  PROVE  RowsSettle'
<1>1. ASSUME NEW r \in Release PROVE Latest(r, secrets)' = Latest(r, secrets)
  BY DEF Latest, Revisions
<1>2. QED
  BY <1>1 DEF HelmInv, RowsSettle, Ends, Brings

\* Every change of the cluster.
LEMMA ChangeIsTyped ==
  ASSUME HelmInv, NEW S, NEW new \in Seq(Events), Change(S, new),
         S \subseteq Release \X Rev, IsFiniteSet(S),
         \A s \in S : s[2] <= changes + 1
  PROVE  TypeOK' /\ RevisionsAreFew' /\ ListsAreDated' /\ WireIsWatched'
<1> USE DEF HelmInv
<1>1. /\ secrets' = S /\ changes' = changes + 1 /\ changes < MaxChange
      /\ wire' = (IF watch = "open" THEN wire \o new ELSE wire)
      /\ cache' \in {cache, <<>>} /\ invalid' \in {invalid, TRUE}
      /\ missed' = (missed \/ watch # "open")
      /\ UNCHANGED <<watch, fetch, answer, mounted, rows, loaded, socket, timer, drops>>
  BY Zenon DEF Change, linkVars
<1>2. changes \in Nat /\ MaxChange \in Nat
  BY HelmAssumption DEF TypeOK
<1>3. wire' \in Seq(Events)
  BY <1>1, WireType, Appended
<1>4. changes' \in 0..MaxChange
  BY <1>1, <1>2
<1>5. TypeOK'
  BY <1>1, <1>3, <1>4 DEF TypeOK, Events
<1>6. RevisionsAreFew'
  BY <1>1 DEF RevisionsAreFew
<1>7. ListsAreDated'
  <2>1. ASSUME NEW l \in {cache', answer'} \ {<<>>} PROVE l[2] <= changes
    BY <1>1, <2>1 DEF ListsAreDated
  <2>2. ASSUME NEW l \in {cache, answer} \ {<<>>} PROVE l[2] \in Nat
    BY DEF TypeOK
  <2>3. ASSUME NEW l \in {cache', answer'} \ {<<>>}
        PROVE  l[2] <= changes' /\ l[2] # changes'
    <3>1. l \in {cache, answer} \ {<<>>}
      BY <1>1
    <3>2. l[2] \in Nat /\ l[2] <= changes
      BY <2>1, <2>2, <3>1
    <3>3. QED
      BY <1>1, <1>2, <3>2
  <2>4. QED
    BY <1>1, <2>3 DEF ListsAreDated
<1>8. WireIsWatched'
  BY <1>1 DEF WireIsWatched
<1>9. QED
  BY <1>5, <1>6, <1>7, <1>8

\* A change while no watch is open.
LEMMA ChangeUnseen ==
  ASSUME HelmInv, NEW S, NEW new, Change(S, new), watch # "open"
  PROVE  OldIsEnded' /\ EndedIsBrought' /\ RowsSettle'
<1>1. wire' = <<>> /\ missed' = TRUE
  BY DEF Change, HelmInv, WireIsWatched
<1>2. QED
  BY <1>1, NothingOnItsWay DEF RowsSettle

\* A change that gives r a new revision and tells the page of it behind whatever
\* it says of the older ones.
LEMMA RevisionSeen ==
  ASSUME HelmInv, NEW S, NEW new \in Seq(Events), Change(S, new), watch = "open",
         S \subseteq Release \X Rev, NEW r \in Release,
         \A q \in Release : q # r => Latest(q, S) = Latest(q, secrets),
         Latest(r, S) > Latest(r, secrets),
         NEW a \in DOMAIN new, Brings(new[a], r, Latest(r, S)),
         \A i \in DOMAIN new :
            /\ new[i].rel = r
            /\ IF new[i].type = "DELETED" THEN i < a ELSE new[i].rev <= Latest(r, S)
  PROVE  OldIsEnded' /\ EndedIsBrought' /\ RowsSettle'
<1> DEFINE at == Len(wire) + a
<1>0. /\ secrets' = S /\ wire' = wire \o new /\ missed' = missed /\ rows' = rows
  BY DEF Change, HelmInv, TypeOK
<1>1. /\ wire' \in Seq(Events)
      /\ \A i \in DOMAIN wire : i \in DOMAIN wire' /\ wire'[i] = wire[i]
      /\ \A j \in DOMAIN new :
            /\ Len(wire) + j \in DOMAIN wire' /\ wire'[Len(wire) + j] = new[j]
            /\ \A i \in DOMAIN wire : i < Len(wire) + j
      /\ \A k \in DOMAIN wire' : k \in DOMAIN wire \/ \E j \in DOMAIN new : k = Len(wire) + j
  BY <1>0, WireType, Appended DEF HelmInv
<1>2. /\ \A i \in DOMAIN wire : wire[i] \in Events
      /\ Len(wire) \in Nat /\ DOMAIN wire \subseteq Nat
      /\ DOMAIN new \subseteq Nat /\ \A j \in DOMAIN new : new[j] \in Events
  BY WireType, LenProperties DEF HelmInv
<1>3. \A q \in Release : Latest(q, S) \in Nat /\ Latest(q, secrets) \in Nat
  <2>1. secrets \subseteq Release \X Rev
    BY DEF HelmInv, TypeOK
  <2>2. QED
    BY <2>1, LatestNat
<1>4. at \in DOMAIN wire' /\ Brings(wire'[at], r, Latest(r, S)) /\ \A i \in DOMAIN wire : at > i
  BY <1>1, <1>2
<1> HIDE DEF at
<1>5. OldIsEnded'
  <2>1. ASSUME NEW i \in DOMAIN wire', wire'[i].type # "DELETED",
               wire'[i].rev > Latest(wire'[i].rel, S)
        PROVE  \E k \in DOMAIN wire' : k > i /\ Ends(wire'[k], wire'[i].rel)
    <3>1. CASE i \in DOMAIN wire
      <4>1. wire[i] = wire'[i] /\ wire[i] \in Events
        BY <1>1, <1>2, <3>1
      <4>2. wire[i].rel \in Release /\ wire[i].rev \in Nat
        BY <4>1, EventType DEF Rev
      <4>3. wire[i].rev > Latest(wire[i].rel, secrets)
        BY <1>3, <2>1, <4>1, <4>2
      <4>4. PICK k \in DOMAIN wire : k > i /\ Ends(wire[k], wire[i].rel)
        BY <2>1, <3>1, <4>1, <4>3 DEF HelmInv, OldIsEnded
      <4>5. QED
        BY <1>1, <4>1, <4>4
    <3>2. ASSUME NEW j \in DOMAIN new, i = Len(wire) + j PROVE FALSE
      <4>1. wire'[i] = new[j] /\ new[j].rel = r /\ new[j].rev <= Latest(r, S)
        BY <1>1, <2>1, <3>2
      <4>2. new[j].rev \in Nat
        BY <1>2, EventType DEF Rev
      <4>3. QED
        BY <1>3, <2>1, <4>1, <4>2
    <3>3. QED
      BY <1>1, <3>1, <3>2
  <2>2. QED
    BY <1>0, <2>1 DEF OldIsEnded
<1>6. EndedIsBrought'
  <2>1. ASSUME NEW i \in DOMAIN wire', wire'[i].type = "DELETED",
               Latest(wire'[i].rel, S) # 0
        PROVE  \E k \in DOMAIN wire' :
                  k > i /\ Brings(wire'[k], wire'[i].rel, Latest(wire'[i].rel, S))
    <3>1. CASE i \in DOMAIN wire /\ wire'[i].rel = r
      BY <1>4, <3>1
    <3>2. CASE i \in DOMAIN wire /\ wire'[i].rel # r
      <4>1. wire[i] = wire'[i] /\ wire[i].rel \in Release
        BY <1>1, <1>2, <3>2, EventType
      <4>2. Latest(wire[i].rel, secrets) = Latest(wire[i].rel, S)
        BY <3>2, <4>1
      <4>3. PICK k \in DOMAIN wire : k > i /\ Brings(wire[k], wire[i].rel, Latest(wire[i].rel, secrets))
        BY <2>1, <3>2, <4>1, <4>2 DEF HelmInv, EndedIsBrought
      <4>4. QED
        BY <1>1, <4>1, <4>2, <4>3
    <3>3. CASE \E j \in DOMAIN new : i = Len(wire) + j
      <4>1. PICK j \in DOMAIN new : i = Len(wire) + j
        BY <3>3
      <4>2. wire'[i] = new[j] /\ new[j].rel = r /\ j < a
        BY <1>1, <2>1, <4>1
      <4>3. at > i
        BY <1>2, <4>1, <4>2 DEF at
      <4>4. QED
        BY <1>4, <4>2, <4>3
    <3>4. QED
      BY <1>1, <3>1, <3>2, <3>3
  <2>2. QED
    BY <1>0, <2>1 DEF EndedIsBrought
<1>7. RowsSettle'
  <2>1. ASSUME ~missed, NEW q \in Release
        PROVE  /\ rows[q] > Latest(q, S) => \E k \in DOMAIN wire' : Ends(wire'[k], q)
               /\ rows[q] < Latest(q, S) => \E k \in DOMAIN wire' : Brings(wire'[k], q, Latest(q, S))
    <3>0. rows[q] \in Nat
      BY DEF HelmInv, TypeOK, List
    <3>1. CASE q = r
      <4>1. ASSUME rows[q] > Latest(q, S) PROVE \E k \in DOMAIN wire' : Ends(wire'[k], q)
        <5>1. rows[q] > Latest(q, secrets)
          BY <1>3, <3>0, <3>1, <4>1
        <5>2. PICK k \in DOMAIN wire : Ends(wire[k], q)
          BY <2>1, <5>1 DEF HelmInv, RowsSettle
        <5>3. QED
          BY <1>1, <5>2
      <4>2. QED
        BY <1>4, <3>1, <4>1
    <3>2. CASE q # r
      <4>1. Latest(q, S) = Latest(q, secrets)
        BY <3>2
      <4>2. QED
        BY <1>1, <2>1, <4>1 DEF HelmInv, RowsSettle
    <3>3. QED
      BY <3>1, <3>2
  <2>2. QED
    BY <1>0, <2>1 DEF RowsSettle
<1>8. QED
  BY <1>5, <1>6, <1>7

\* An uninstallation tells the page that every revision of r has gone.
LEMMA EndSeen ==
  ASSUME HelmInv, NEW S, NEW new \in Seq(Events), Change(S, new), watch = "open",
         S \subseteq Release \X Rev, NEW r \in Release,
         \A q \in Release : q # r => Latest(q, S) = Latest(q, secrets),
         Latest(r, S) = 0,
         NEW a \in DOMAIN new, \A i \in DOMAIN new : Ends(new[i], r)
  PROVE  OldIsEnded' /\ EndedIsBrought' /\ RowsSettle'
<1> DEFINE at == Len(wire) + a
<1>0. /\ secrets' = S /\ wire' = wire \o new /\ missed' = missed /\ rows' = rows
  BY DEF Change, HelmInv, TypeOK
<1>1. /\ wire' \in Seq(Events)
      /\ \A i \in DOMAIN wire : i \in DOMAIN wire' /\ wire'[i] = wire[i]
      /\ \A j \in DOMAIN new :
            /\ Len(wire) + j \in DOMAIN wire' /\ wire'[Len(wire) + j] = new[j]
            /\ \A i \in DOMAIN wire : i < Len(wire) + j
      /\ \A k \in DOMAIN wire' : k \in DOMAIN wire \/ \E j \in DOMAIN new : k = Len(wire) + j
  BY <1>0, WireType, Appended DEF HelmInv
<1>2. \A i \in DOMAIN wire : wire[i] \in Events
  BY WireType DEF HelmInv
<1>3. at \in DOMAIN wire' /\ Ends(wire'[at], r) /\ \A i \in DOMAIN wire : at > i
  <2>1. at \in DOMAIN wire' /\ wire'[at] = new[a] /\ \A i \in DOMAIN wire : i < at
    BY <1>1
  <2>2. QED
    BY <2>1
<1>4. \A j \in DOMAIN new : Ends(wire'[Len(wire) + j], r)
  BY <1>1
<1> HIDE DEF at
<1>5. OldIsEnded'
  <2>1. ASSUME NEW i \in DOMAIN wire', wire'[i].type # "DELETED",
               wire'[i].rev > Latest(wire'[i].rel, S)
        PROVE  \E k \in DOMAIN wire' : k > i /\ Ends(wire'[k], wire'[i].rel)
    <3>1. i \in DOMAIN wire /\ wire[i] = wire'[i] /\ wire[i].rel \in Release
      BY <1>1, <1>2, <1>4, <2>1, EventType DEF Ends
    <3>2. CASE wire[i].rel = r
      BY <1>3, <3>1, <3>2
    <3>3. CASE wire[i].rel # r
      <4>1. Latest(wire[i].rel, secrets) = Latest(wire[i].rel, S)
        BY <3>1, <3>3
      <4>2. PICK k \in DOMAIN wire : k > i /\ Ends(wire[k], wire[i].rel)
        BY <2>1, <3>1, <4>1 DEF HelmInv, OldIsEnded
      <4>3. QED
        BY <1>1, <3>1, <4>2
    <3>4. QED
      BY <3>2, <3>3
  <2>2. QED
    BY <1>0, <2>1 DEF OldIsEnded
<1>6. EndedIsBrought'
  <2>1. ASSUME NEW i \in DOMAIN wire', wire'[i].type = "DELETED",
               Latest(wire'[i].rel, S) # 0
        PROVE  \E k \in DOMAIN wire' :
                  k > i /\ Brings(wire'[k], wire'[i].rel, Latest(wire'[i].rel, S))
    <3>1. wire'[i].rel # r
      BY <2>1
    <3>2. i \in DOMAIN wire /\ wire[i] = wire'[i] /\ wire[i].rel \in Release
      BY <1>1, <1>2, <1>4, <3>1, EventType DEF Ends
    <3>3. Latest(wire[i].rel, secrets) = Latest(wire[i].rel, S)
      BY <3>1, <3>2
    <3>4. PICK k \in DOMAIN wire : k > i /\ Brings(wire[k], wire[i].rel, Latest(wire[i].rel, secrets))
      BY <2>1, <3>2, <3>3 DEF HelmInv, EndedIsBrought
    <3>5. QED
      BY <1>1, <3>2, <3>3, <3>4
  <2>2. QED
    BY <1>0, <2>1 DEF EndedIsBrought
<1>7. RowsSettle'
  <2>1. ASSUME ~missed, NEW q \in Release
        PROVE  /\ rows[q] > Latest(q, S) => \E k \in DOMAIN wire' : Ends(wire'[k], q)
               /\ rows[q] < Latest(q, S) => \E k \in DOMAIN wire' : Brings(wire'[k], q, Latest(q, S))
    <3>1. CASE q = r
      <4>1. rows[q] \in Nat
        BY DEF HelmInv, TypeOK, List
      <4>2. QED
        BY <1>3, <3>1, <4>1
    <3>2. CASE q # r
      <4>1. Latest(q, S) = Latest(q, secrets)
        BY <3>2
      <4>2. QED
        BY <1>1, <2>1, <4>1 DEF HelmInv, RowsSettle
    <3>3. QED
      BY <3>1, <3>2
  <2>2. QED
    BY <1>0, <2>1 DEF RowsSettle
<1>8. QED
  BY <1>5, <1>6, <1>7

\* The events of an order of Secrets.
LEMMA EventsOf ==
  ASSUME NEW S, S \subseteq Release \X Rev, IsFiniteSet(S),
         NEW order \in SetToSeqs(S), NEW t \in {"ADDED", "DELETED"},
         NEW new, new = [i \in DOMAIN order |-> Event(t, order[i])]
  PROVE  /\ new \in Seq(Events)
         /\ DOMAIN new = 1..Cardinality(S)
         /\ \A i \in DOMAIN new : new[i].type = t /\ <<new[i].rel, new[i].rev>> \in S
<1>1. Cardinality(S) \in Nat
  BY FS_CardinalityType
<1>2. DOMAIN order = 1..Cardinality(S) /\ \A i \in DOMAIN order : order[i] \in S
  BY DEF SetToSeqs
<1>3. \A s \in S : /\ Event(t, s) \in Events /\ Event(t, s).type = t
                   /\ <<Event(t, s).rel, Event(t, s).rev>> = s
  BY DEF Event, Events
<1>4. new \in [1..Cardinality(S) -> Events]
  BY <1>2, <1>3
<1>5. new \in Seq(Events)
  BY <1>1, <1>4
<1>6. QED
  BY <1>2, <1>3, <1>5

LEMMA UninstallKeeps ==
  ASSUME HelmInv, NEW r \in Release, Uninstall(r)
  PROVE  HelmInv'
<1> DEFINE gone == {s \in secrets : s[1] = r}
           S == secrets \ gone
<1>0. secrets \subseteq Release \X Rev /\ IsFiniteSet(secrets) /\ changes \in Nat
      /\ \A s \in secrets : s[2] \in Nat /\ s[2] <= changes
  BY HelmAssumption DEF HelmInv, TypeOK, RevisionsAreFew, Rev
<1>1. PICK order \in SetToSeqs(gone) :
         Change(S, [i \in DOMAIN order |-> Event("DELETED", order[i])])
  BY DEF Uninstall
<1>2. gone # {}
  BY DEF Uninstall
<1> DEFINE new == [i \in DOMAIN order |-> Event("DELETED", order[i])]
<1>3. gone \subseteq Release \X Rev /\ S \subseteq Release \X Rev
  BY <1>0
<1>4. IsFiniteSet(gone) /\ IsFiniteSet(S)
  BY <1>0, FS_Subset
<1>5. /\ new \in Seq(Events) /\ DOMAIN new = 1..Cardinality(gone)
      /\ \A i \in DOMAIN new : new[i].type = "DELETED" /\ <<new[i].rel, new[i].rev>> \in gone
  <2>1. new = [i \in DOMAIN order |-> Event("DELETED", order[i])]
    OBVIOUS
  <2> HIDE DEF new, gone
  <2>2. QED
    BY <1>3, <1>4, <2>1, EventsOf
<1>6. \A i \in DOMAIN new : Ends(new[i], r)
  <2>1. \A s \in gone : s[1] = r
    OBVIOUS
  <2>2. ASSUME NEW i \in DOMAIN new PROVE new[i].rel = r
    <3>1. <<new[i].rel, new[i].rev>> \in gone
      BY <1>5
    <3>2. <<new[i].rel, new[i].rev>>[1] = r
      BY <2>1, <3>1, Zenon
    <3>3. QED
      BY <3>2
  <2>3. QED
    BY <1>5, <2>2 DEF Ends
<1>7. 1 \in DOMAIN new
  <2>1. Cardinality(gone) \in Nat /\ Cardinality(gone) # 0
    BY <1>2, <1>4, FS_CardinalityType, FS_EmptySet
  <2>2. QED
    BY <1>5, <2>1
<1>8. \A q \in Release : q # r => Latest(q, S) = Latest(q, secrets)
  <2>1. ASSUME NEW q \in Release, q # r
        PROVE  \A v : <<q, v>> \in S <=> <<q, v>> \in secrets
    BY <2>1
  <2>2. QED
    BY <1>0, <1>3, <2>1, LatestSame
<1>9. Latest(r, S) = 0
  <2>1. Latest(r, S) # 0 => <<r, Latest(r, S)>> \in S
    BY <1>3, LatestIs
  <2>2. \A v : <<r, v>> \notin S
    OBVIOUS
  <2>3. QED
    BY <2>1, <2>2
<1>10. \A s \in S : s[2] <= changes + 1
  <2>1. \A s \in secrets : s[2] <= changes + 1
    BY <1>0
  <2>2. QED
    BY <2>1
<1>11. Change(S, new)
  BY <1>1
<1> HIDE DEF new, S, gone
<1>12. TypeOK' /\ RevisionsAreFew' /\ ListsAreDated' /\ WireIsWatched'
  BY <1>3, <1>4, <1>5, <1>10, <1>11, ChangeIsTyped
<1>13. CASE watch = "open"
  <2>1. OldIsEnded' /\ EndedIsBrought' /\ RowsSettle'
    BY <1>3, <1>5, <1>6, <1>7, <1>8, <1>9, <1>11, <1>13, EndSeen
  <2>2. QED
    BY <1>12, <2>1 DEF HelmInv
<1>14. CASE watch # "open"
  <2>1. OldIsEnded' /\ EndedIsBrought' /\ RowsSettle'
    BY <1>11, <1>14, ChangeUnseen
  <2>2. QED
    BY <1>12, <2>1 DEF HelmInv
<1>15. QED
  BY <1>13, <1>14

\* Revision n of r is brought behind whatever is said of the older ones.
BroughtLast(new, r, n) ==
    \E a \in DOMAIN new :
        /\ Brings(new[a], r, n)
        /\ \A i \in DOMAIN new :
              /\ new[i].rel = r
              /\ IF new[i].type = "DELETED" THEN i < a ELSE new[i].rev <= n

\* At most one event of an older revision, the new one, at most one more of an
\* older one.
LEMMA ThreeEvents ==
  ASSUME NEW first \in Seq(Events), NEW e \in Events, NEW last \in Seq(Events),
         NEW r, NEW n \in Nat, Brings(e, r, n),
         \A i \in DOMAIN first : Ends(first[i], r),
         \A i \in DOMAIN last :
            last[i].rel = r /\ last[i].type # "DELETED" /\ last[i].rev <= n,
         NEW new, new = first \o <<e>> \o last
  PROVE  /\ new \in Seq(Events)
         /\ BroughtLast(new, r, n)
<1> DEFINE head == first \o <<e>>
           a == Len(first) + 1
<1>0. new = head \o last
  OBVIOUS
<1>1. <<e>> \in Seq(Events) /\ DOMAIN <<e>> = {1} /\ <<e>>[1] = e
  OBVIOUS
<1>2. Len(first) \in Nat /\ DOMAIN first = 1..Len(first)
  BY LenProperties
<1>3. /\ head \in Seq(Events)
      /\ \A i \in DOMAIN first : i \in DOMAIN head /\ head[i] = first[i]
      /\ a \in DOMAIN head /\ head[a] = e /\ \A i \in DOMAIN first : i < a
      /\ \A k \in DOMAIN head : k \in DOMAIN first \/ k = a
  BY <1>1, Appended
<1> HIDE DEF head
<1>4. /\ new \in Seq(Events)
      /\ \A i \in DOMAIN head : i \in DOMAIN new /\ new[i] = head[i]
      /\ \A j \in DOMAIN last : new[Len(head) + j] = last[j]
      /\ \A k \in DOMAIN new : k \in DOMAIN head \/ \E j \in DOMAIN last : k = Len(head) + j
  <2>1. /\ head \o last \in Seq(Events)
        /\ \A i \in DOMAIN head : i \in DOMAIN (head \o last) /\ (head \o last)[i] = head[i]
        /\ \A j \in DOMAIN last : (head \o last)[Len(head) + j] = last[j]
        /\ \A k \in DOMAIN (head \o last) :
              k \in DOMAIN head \/ \E j \in DOMAIN last : k = Len(head) + j
    BY <1>3, Appended
  <2>2. QED
    BY <1>0, <2>1
<1> HIDE DEF a
<1>5. a \in DOMAIN new /\ new[a] = e
  BY <1>3, <1>4
<1>6. ASSUME NEW i \in DOMAIN new
      PROVE  /\ new[i].rel = r
             /\ IF new[i].type = "DELETED" THEN i < a ELSE new[i].rev <= n
  <2>1. CASE i \in DOMAIN first
    BY <1>3, <1>4, <2>1 DEF Ends
  <2>2. CASE i = a
    BY <1>5, <2>2 DEF Brings
  <2>3. CASE \E j \in DOMAIN last : i = Len(head) + j
    BY <1>4, <2>3
  <2>4. QED
    BY <1>3, <1>4, <2>1, <2>2, <2>3
<1>7. QED
  BY <1>4, <1>5, <1>6 DEF BroughtLast

LEMMA UpgradeKeeps ==
  ASSUME HelmInv, NEW r \in Release, Upgrade(r)
  PROVE  HelmInv'
<1> DEFINE old == Latest(r, secrets)
           n == old + 1
           out == IF n > History /\ (n - History) \in Revisions(r, secrets)
                  THEN {<<r, n - History>>} ELSE {}
           S == (secrets \ out) \cup {<<r, n>>}
           first == IF out = {} THEN <<>> ELSE <<Event("DELETED", <<r, n - History>>)>>
           e == Event("ADDED", <<r, n>>)
           last == IF old = 0 \/ History = 1 THEN <<>> ELSE <<Event("MODIFIED", <<r, old>>)>>
           new == first \o <<e>> \o last
<1>0. secrets \subseteq Release \X Rev /\ IsFiniteSet(secrets) /\ changes \in Nat
      /\ \A s \in secrets : s[2] \in Nat /\ s[2] <= changes
  BY HelmAssumption DEF HelmInv, TypeOK, RevisionsAreFew, Rev
<1>1. Change(S, new)
  BY DEF Upgrade
<1>2. changes < MaxChange /\ MaxChange \in Nat
  BY <1>1, HelmAssumption DEF Change
<1>3. /\ old \in Nat /\ old <= changes
      /\ old # 0 => <<r, old>> \in secrets
      /\ \A v : <<r, v>> \in secrets => v \in Nat /\ v <= old
  <2>1. /\ old \in 0..MaxChange
        /\ old # 0 => <<r, old>> \in secrets
        /\ \A v : <<r, v>> \in secrets => v \in Rev /\ v <= old
    BY <1>0, LatestIs
  <2>2. <<r, old>> \in secrets => old <= changes
    <3>1. <<r, old>>[2] = old
      OBVIOUS
    <3>2. QED
      BY <1>0, <3>1
  <2>3. QED
    BY <1>0, <1>2, <2>1, <2>2 DEF Rev
<1>4. n \in Nat /\ n \in Rev /\ n <= changes + 1 /\ n > old /\ (old # 0 => old \in Rev)
  BY <1>0, <1>2, <1>3 DEF Rev
<1>5. out # {} => (n - History) \in Rev
  <2>1. Revisions(r, secrets) \in SUBSET Rev
    BY <1>0, RevisionsAre
  <2>2. QED
    BY <2>1
<1>6. /\ e \in Events /\ Brings(e, r, n)
      /\ out # {} => /\ Event("DELETED", <<r, n - History>>) \in Events
                     /\ Ends(Event("DELETED", <<r, n - History>>), r)
      /\ old # 0 => /\ Event("MODIFIED", <<r, old>>) \in Events
                    /\ Event("MODIFIED", <<r, old>>).rel = r
                    /\ Event("MODIFIED", <<r, old>>).type # "DELETED"
                    /\ Event("MODIFIED", <<r, old>>).rev = old
  BY <1>4, <1>5 DEF Event, Events, Brings, Ends
<1>7. out \subseteq {<<r, n - History>>} /\ \A x \in out : x[1] = r
  OBVIOUS
<1>8. S \subseteq Release \X Rev
  BY <1>0, <1>4
<1>9. IsFiniteSet(S)
  <2>1. IsFiniteSet(secrets \ out)
    BY <1>0, FS_Subset
  <2>2. QED
    BY <2>1, FS_AddElement
<1>10. \A s \in S : s[2] <= changes + 1
  <2>1. \A s \in secrets : s[2] <= changes + 1
    BY <1>0
  <2>2. <<r, n>>[2] <= changes + 1
    BY <1>4
  <2>3. QED
    BY <2>1, <2>2
<1>11. Latest(r, S) = n
  <2>1. <<r, n>> \in S
    OBVIOUS
  <2>2. ASSUME NEW u, <<r, u>> \in S PROVE u <= n
    <3>1. u = n \/ <<r, u>> \in secrets
      BY <2>2
    <3>2. QED
      BY <1>3, <1>4, <3>1
  <2> HIDE DEF S, n
  <2>3. QED
    BY <1>8, <2>1, <2>2, LatestOf
<1>12. \A q \in Release : q # r => Latest(q, S) = Latest(q, secrets)
  <2>1. ASSUME NEW q \in Release, q # r
        PROVE  \A v : <<q, v>> \in S <=> <<q, v>> \in secrets
    BY <1>7, <2>1
  <2> HIDE DEF S
  <2>2. QED
    BY <1>0, <1>8, <2>1, LatestSame
<1>13. first \in Seq(Events) /\ \A i \in DOMAIN first : Ends(first[i], r)
  <2>1. CASE out = {}
    <3>1. first = <<>>
      BY <2>1
    <3>2. QED
      BY <3>1
  <2>2. CASE out # {}
    <3>1. first = <<Event("DELETED", <<r, n - History>>)>>
      BY <2>2
    <3> HIDE DEF first, n, out
    <3>2. QED
      BY <1>6, <2>2, <3>1
  <2>3. QED
    BY <2>1, <2>2
<1>14. /\ last \in Seq(Events)
       /\ \A i \in DOMAIN last : last[i].rel = r /\ last[i].type # "DELETED" /\ last[i].rev <= n
  <2>1. CASE old = 0 \/ History = 1
    <3>1. last = <<>>
      BY <2>1
    <3>2. QED
      BY <3>1
  <2>2. CASE ~(old = 0 \/ History = 1)
    <3>1. last = <<Event("MODIFIED", <<r, old>>)>>
      BY <2>2
    <3>2. old <= n
      BY <1>3
    <3> HIDE DEF last, n
    <3>3. QED
      BY <1>6, <2>2, <3>1, <3>2
  <2>3. QED
    BY <2>1, <2>2
<1> HIDE DEF first, last, e, S, out, n, old
<1>15. new \in Seq(Events) /\ BroughtLast(new, r, n)
  <2>1. new = first \o <<e>> \o last
    OBVIOUS
  <2> HIDE DEF new
  <2>2. QED
    <3>1. n \in Nat
      BY <1>4
    <3>2. e \in Events /\ Brings(e, r, n)
      BY <1>6
    <3>3. first \in Seq(Events) /\ \A i \in DOMAIN first : Ends(first[i], r)
      BY <1>13
    <3>4. /\ last \in Seq(Events)
          /\ \A i \in DOMAIN last :
                last[i].rel = r /\ last[i].type # "DELETED" /\ last[i].rev <= n
      BY <1>14
    <3>5. QED
      BY <2>1, <3>1, <3>2, <3>3, <3>4, ThreeEvents
<1> HIDE DEF new
<1>16. TypeOK' /\ RevisionsAreFew' /\ ListsAreDated' /\ WireIsWatched'
  BY <1>1, <1>8, <1>9, <1>10, <1>15, ChangeIsTyped
<1>17. CASE watch = "open"
  <2>1. PICK a \in DOMAIN new :
             /\ Brings(new[a], r, n)
             /\ \A i \in DOMAIN new :
                   /\ new[i].rel = r
                   /\ IF new[i].type = "DELETED" THEN i < a ELSE new[i].rev <= n
    BY <1>15 DEF BroughtLast
  <2>2. Latest(r, S) > Latest(r, secrets)
    BY <1>4, <1>11 DEF old
  <2>3. OldIsEnded' /\ EndedIsBrought' /\ RowsSettle'
    BY <1>1, <1>8, <1>11, <1>12, <1>15, <1>17, <2>1, <2>2, RevisionSeen
  <2>4. QED
    BY <1>16, <2>3 DEF HelmInv
<1>18. CASE watch # "open"
  <2>1. OldIsEnded' /\ EndedIsBrought' /\ RowsSettle'
    BY <1>1, <1>18, ChangeUnseen
  <2>2. QED
    BY <1>16, <2>1 DEF HelmInv
<1>19. QED
  BY <1>17, <1>18

\* A watch begins only with an empty wire: what it tells of the Secrets there
\* are cannot overtake anything.
LEMMA StartWatchKeeps ==
  ASSUME HelmInv, StartWatch
  PROVE  HelmInv'
<1>1. /\ wire = <<>> /\ watch' = "open"
      /\ UNCHANGED <<secrets, changes, cache, fetch, answer, mounted, rows, loaded, invalid,
                     socket, timer, drops, missed>>
  BY DEF StartWatch, HelmInv, WireIsWatched, clusterVars, listVars, pageVars, linkVars
<1>2. secrets \subseteq Release \X Rev /\ IsFiniteSet(secrets)
  BY DEF HelmInv, TypeOK, RevisionsAreFew
<1>3. PICK order \in SetToSeqs(secrets) :
         wire' = wire \o [i \in DOMAIN order |-> Event("ADDED", order[i])]
  BY DEF StartWatch
<1> DEFINE new == [i \in DOMAIN order |-> Event("ADDED", order[i])]
<1>4. /\ new \in Seq(Events)
      /\ \A i \in DOMAIN new : new[i].type = "ADDED" /\ <<new[i].rel, new[i].rev>> \in secrets
  <2>1. new = [i \in DOMAIN order |-> Event("ADDED", order[i])]
    OBVIOUS
  <2> HIDE DEF new
  <2>2. QED
    BY <1>2, <2>1, EventsOf
<1>5. wire' = <<>> \o new
  BY <1>1, <1>3
<1> HIDE DEF new
<1>6. wire' = new
  BY <1>4, <1>5
<1>7. TypeOK'
  BY <1>1, <1>4, <1>6 DEF HelmInv, TypeOK, Events
<1>8. RevisionsAreFew' /\ WireIsWatched'
  BY <1>1 DEF HelmInv, RevisionsAreFew, WireIsWatched
<1>9. ListsAreDated'
  BY <1>1 DEF HelmInv, ListsAreDated, Listed, Latest, Revisions
<1>10. ASSUME NEW i \in DOMAIN new
       PROVE  new[i].type # "DELETED" /\ ~(new[i].rev > Latest(new[i].rel, secrets))
  <2>1. <<new[i].rel, new[i].rev>> \in secrets
    BY <1>4
  <2>2. new[i].rel \in Release /\ new[i].rev \in Rev /\ new[i].rev <= Latest(new[i].rel, secrets)
    BY <1>2, <2>1, LatestIs
  <2>3. Latest(new[i].rel, secrets) \in Nat
    BY <1>2, <2>2, LatestNat
  <2>4. new[i].type = "ADDED"
    BY <1>4
  <2>5. new[i].rev \in Nat
    BY <2>2, HelmAssumption DEF Rev
  <2>6. QED
    BY <2>2, <2>3, <2>4, <2>5
<1>11. OldIsEnded' /\ EndedIsBrought'
  BY <1>1, <1>6, <1>10 DEF OldIsEnded, EndedIsBrought
<1>12. RowsSettle'
  <2>1. ASSUME ~missed, NEW r \in Release
        PROVE  ~(rows[r] > Latest(r, secrets)) /\ ~(rows[r] < Latest(r, secrets))
    BY <1>1, <2>1 DEF HelmInv, RowsSettle
  <2>2. QED
    BY <1>1, <2>1 DEF RowsSettle
<1>13. QED
  BY <1>7, <1>8, <1>9, <1>11, <1>12 DEF HelmInv

\* An event that arrives.
LEMMA DeliverKeeps ==
  ASSUME HelmInv, Deliver
  PROVE  HelmInv'
<1> DEFINE e == wire[1]
<1>1. /\ wire # <<>> /\ wire' = Tail(wire) /\ rows' = Applied(e) /\ loaded' = TRUE
      /\ UNCHANGED <<secrets, changes, watch, cache, fetch, answer, mounted, invalid,
                     socket, timer, drops, missed>>
  <2>1. wire # <<>> /\ rows' = Applied(Head(wire))
    BY DEF Deliver
  <2>2. Head(wire) = wire[1]
    BY <2>1, WireType, Delivered DEF HelmInv
  <2>3. QED
    BY <2>1, <2>2 DEF Deliver, clusterVars, listVars, linkVars
<1>2. /\ wire' \in Seq(Events) /\ e \in Events /\ 1 \in DOMAIN wire
      /\ \A i \in DOMAIN wire' : i + 1 \in DOMAIN wire /\ wire'[i] = wire[i + 1] /\ i \in Nat
      /\ \A k \in DOMAIN wire : k > 1 =>
            k - 1 \in DOMAIN wire' /\ wire'[k - 1] = wire[k] /\ k \in Nat
      /\ \A k \in DOMAIN wire : k = 1 \/ k > 1
  BY <1>1, WireType, Delivered DEF HelmInv
<1>3. e.type \in {"ADDED", "MODIFIED", "DELETED"} /\ e.rel \in Release /\ e.rev \in Rev
  BY <1>2, EventType
<1>4. \A r \in Release : Latest(r, secrets) \in Nat
  BY LatestNat DEF HelmInv, TypeOK
<1>5. rows \in [Release -> 0..MaxChange] /\ MaxChange \in Nat
  BY HelmAssumption DEF HelmInv, TypeOK, List
<1> HIDE DEF e
<1>6. /\ rows' \in List
      /\ rows'[e.rel] = IF e.type = "DELETED" THEN 0
                        ELSE IF rows[e.rel] > e.rev THEN rows[e.rel] ELSE e.rev
      /\ \A q \in Release : q # e.rel => rows'[q] = rows[q]
  BY <1>1, <1>3, <1>5 DEF Applied, List, Rev
<1>7. TypeOK'
  BY <1>1, <1>2, <1>6 DEF HelmInv, TypeOK, Events
<1>8. RevisionsAreFew' /\ WireIsWatched'
  <2>1. watch = "open"
    BY <1>1 DEF HelmInv, WireIsWatched
  <2>2. QED
    BY <1>1, <2>1 DEF HelmInv, RevisionsAreFew, WireIsWatched
<1>9. ListsAreDated'
  BY <1>1 DEF HelmInv, ListsAreDated, Listed, Latest, Revisions
<1>10. OldIsEnded'
  <2>1. ASSUME NEW i \in DOMAIN wire', wire'[i].type # "DELETED",
               wire'[i].rev > Latest(wire'[i].rel, secrets)
        PROVE  \E k \in DOMAIN wire' : k > i /\ Ends(wire'[k], wire'[i].rel)
    <3>1. PICK k \in DOMAIN wire : k > i + 1 /\ Ends(wire[k], wire'[i].rel)
      BY <1>2, <2>1 DEF HelmInv, OldIsEnded
    <3>2. k \in Nat /\ i \in Nat /\ k > 1 /\ k - 1 > i
      BY <1>2, <3>1
    <3>3. QED
      BY <1>2, <3>1, <3>2
  <2>2. QED
    BY <1>1, <2>1 DEF OldIsEnded
<1>11. EndedIsBrought'
  <2>1. ASSUME NEW i \in DOMAIN wire', wire'[i].type = "DELETED",
               Latest(wire'[i].rel, secrets) # 0
        PROVE  \E k \in DOMAIN wire' :
                  k > i /\ Brings(wire'[k], wire'[i].rel, Latest(wire'[i].rel, secrets))
    <3>1. PICK k \in DOMAIN wire :
             k > i + 1 /\ Brings(wire[k], wire'[i].rel, Latest(wire'[i].rel, secrets))
      BY <1>2, <2>1 DEF HelmInv, EndedIsBrought
    <3>2. k \in Nat /\ i \in Nat /\ k > 1 /\ k - 1 > i
      BY <1>2, <3>1
    <3>3. QED
      BY <1>2, <3>1, <3>2
  <2>2. QED
    BY <1>1, <2>1 DEF EndedIsBrought
<1>12. RowsSettle'
  <2>1. ASSUME ~missed, NEW r \in Release, rows'[r] > Latest(r, secrets)
        PROVE  \E k \in DOMAIN wire' : Ends(wire'[k], r)
    <3>1. \E k \in DOMAIN wire : k > 1 /\ Ends(wire[k], r)
      <4>1. CASE rows[r] > Latest(r, secrets) /\ ~Ends(e, r)
        <5>1. PICK k \in DOMAIN wire : Ends(wire[k], r)
          BY <2>1, <4>1 DEF HelmInv, RowsSettle
        <5>2. k # 1
          BY <4>1, <5>1 DEF e
        <5>3. QED
          BY <1>2, <5>1, <5>2
      <4>2. CASE rows[r] > Latest(r, secrets) /\ Ends(e, r)
        BY <1>4, <1>6, <2>1, <4>2 DEF Ends
      <4>3. CASE ~(rows[r] > Latest(r, secrets))
        <5>1. r = e.rel /\ e.type # "DELETED" /\ e.rev > Latest(r, secrets)
          BY <1>3, <1>4, <1>5, <1>6, <2>1, <4>3 DEF Rev
        <5>2. QED
          BY <1>2, <5>1 DEF e, HelmInv, OldIsEnded
      <4>4. QED
        BY <4>1, <4>2, <4>3
    <3>2. QED
      BY <1>2, <3>1
  <2>2. ASSUME ~missed, NEW r \in Release, rows'[r] < Latest(r, secrets)
        PROVE  \E k \in DOMAIN wire' : Brings(wire'[k], r, Latest(r, secrets))
    <3>1. \E k \in DOMAIN wire : k > 1 /\ Brings(wire[k], r, Latest(r, secrets))
      <4>1. CASE Ends(e, r)
        <5>1. e.type = "DELETED" /\ e.rel = r /\ Latest(r, secrets) # 0
          BY <1>3, <1>4, <1>6, <2>2, <4>1 DEF Ends
        <5>2. QED
          BY <1>2, <5>1 DEF e, HelmInv, EndedIsBrought
      <4>2. CASE ~Ends(e, r)
        <5>1. rows[r] < Latest(r, secrets)
          BY <1>3, <1>4, <1>5, <1>6, <2>2, <4>2 DEF Ends, Rev
        <5>2. PICK k \in DOMAIN wire : Brings(wire[k], r, Latest(r, secrets))
          BY <2>2, <5>1 DEF HelmInv, RowsSettle
        <5>3. ~Brings(e, r, Latest(r, secrets))
          BY <1>3, <1>4, <1>5, <1>6, <2>2 DEF Brings, Rev
        <5>4. QED
          BY <1>2, <5>2, <5>3 DEF e
      <4>3. QED
        BY <4>1, <4>2
    <3>2. QED
      BY <1>2, <3>1
  <2>3. QED
    BY <1>1, <2>1, <2>2 DEF RowsSettle
<1>13. QED
  BY <1>7, <1>8, <1>9, <1>10, <1>11, <1>12 DEF HelmInv

\* What the effect of the page does to the link: it asks for a connection, or
\* cuts the one there is, and then the list is no longer shown.
LEMMA EffectIs ==
  ASSUME TypeOK, NEW m \in BOOLEAN, NEW l \in BOOLEAN, NEW f, Effect(m, l, f)
  PROVE  /\ socket' \in {"none", "connecting", "open"} /\ timer' \in BOOLEAN
         /\ watch' \in {"none", "starting", "waiting", "open"}
         /\ \/ UNCHANGED <<watch, wire>>
            \/ wire' = <<>> /\ ~Enabled(m, l, f) /\ Enabled(mounted, loaded, fetch)
<1>1. Enabled(m, l, f) \in BOOLEAN /\ Enabled(mounted, loaded, fetch) \in BOOLEAN
  BY DEF Enabled, TypeOK
<1>2. CASE Enabled(m, l, f) = Enabled(mounted, loaded, fetch)
  BY <1>2 DEF Effect, TypeOK
<1>3. CASE Enabled(m, l, f) /\ ~Enabled(mounted, loaded, fetch)
  BY <1>3 DEF Effect, Connect, TypeOK
<1>4. CASE ~Enabled(m, l, f) /\ Enabled(mounted, loaded, fetch)
  BY <1>4 DEF Effect, Cleanup, TypeOK
<1>5. QED
  BY <1>1, <1>2, <1>3, <1>4

\* Whether the wire stays or is cut, nothing wrong is left on it.
LEMMA LinkKeepsTheWire ==
  ASSUME HelmInv, UNCHANGED secrets, UNCHANGED <<watch, wire>> \/ wire' = <<>>
  PROVE  WireIsWatched' /\ OldIsEnded' /\ EndedIsBrought'
<1>1. CASE UNCHANGED <<watch, wire>>
  BY <1>1, WireStays
<1>2. CASE wire' = <<>>
  BY <1>2, NothingOnItsWay
<1>3. QED
  BY <1>1, <1>2

LEMMA ListsStay ==
  ASSUME HelmInv, UNCHANGED clusterVars, {cache', answer'} \subseteq {cache, answer, <<>>},
         fetch' \in {"read", "reply"} => answer' # <<>>
  PROVE  RevisionsAreFew' /\ ListsAreDated'
<1>1. UNCHANGED <<secrets, changes>>
  BY DEF clusterVars
<1>2. Listed' = Listed
  BY <1>1 DEF Listed, Latest, Revisions
<1>3. RevisionsAreFew'
  BY <1>1 DEF HelmInv, RevisionsAreFew
<1>4. ASSUME NEW x \in {cache', answer'} \ {<<>>}
      PROVE  x[2] <= changes' /\ (x[2] = changes' => x[1] = Listed'[1])
  <2>1. x \in {cache, answer} \ {<<>>}
    OBVIOUS
  <2>2. x[2] <= changes /\ (x[2] = changes => x[1] = Listed[1])
    BY <2>1 DEF HelmInv, ListsAreDated
  <2>3. QED
    BY <1>1, <1>2, <2>2
<1>5. ListsAreDated'
  BY <1>4 DEF ListsAreDated
<1>6. QED
  BY <1>3, <1>5

LEMMA WireTyped ==
  ASSUME HelmInv, wire' = wire \/ wire' = <<>>
  PROVE  wire' \in Seq(Events)
<1>1. wire \in Seq(Events)
  BY WireType DEF HelmInv
<1>2. <<>> \in Seq(Events)
  OBVIOUS
<1>3. QED
  BY <1>1, <1>2

\* The watch that fails, waits and ends, and the connection.
LEMMA ConnectionKeeps ==
  ASSUME HelmInv, WatchIsConnected,
         StartFails \/ StartAgain \/ WatchEnds \/ SocketOpens \/ SocketDrops \/ TimerFires
  PROVE  HelmInv'
<1> USE DEF clusterVars, serverVars, listVars, pageVars, linkVars
<1>1. /\ UNCHANGED <<secrets, changes, cache, fetch, answer, mounted, rows, loaded, invalid>>
      /\ \/ UNCHANGED <<wire, missed>> /\ wire = <<>>
         \/ UNCHANGED <<wire, watch, missed>>
         \/ wire' = <<>> /\ missed' = (missed \/ wire # <<>>)
  <2>1. CASE StartFails \/ StartAgain \/ WatchEnds
    <3>1. wire = <<>>
      BY <2>1 DEF StartFails, StartAgain, WatchEnds, HelmInv, WireIsWatched
    <3>2. QED
      BY <2>1, <3>1 DEF StartFails, StartAgain, WatchEnds
  <2>2. CASE SocketOpens
    <3>1. UNCHANGED <<secrets, changes, cache, fetch, answer, mounted, rows, loaded, invalid>>
          /\ UNCHANGED <<wire, missed>>
      BY <2>2 DEF SocketOpens
    <3>2. wire = <<>>
      BY <2>2 DEF SocketOpens, HelmInv, WireIsWatched, WatchIsConnected
    <3>3. QED
      BY <3>1, <3>2
  <2>3. CASE SocketDrops
    BY <2>3 DEF SocketDrops
  <2>4. CASE TimerFires
    BY <2>4 DEF TimerFires
  <2>5. QED
    BY <2>1, <2>2, <2>3, <2>4
<1>2. TypeOK'
  <2>1. drops' \in 0..MaxDrop
    BY HelmAssumption DEF StartFails, StartAgain, WatchEnds, SocketOpens, SocketDrops,
                          TimerFires, HelmInv, TypeOK
  <2>2. /\ watch' \in {"none", "starting", "waiting", "open"}
        /\ socket' \in {"none", "connecting", "open"} /\ timer' \in BOOLEAN
    BY DEF StartFails, StartAgain, WatchEnds, SocketOpens, SocketDrops, TimerFires, HelmInv, TypeOK
  <2>3. wire' \in Seq(Events)
    BY <1>1, WireTyped
  <2>4. missed' \in BOOLEAN
    BY <1>1, Zenon DEF HelmInv, TypeOK
  <2>5. QED
    BY <1>1, <2>1, <2>2, <2>3, <2>4 DEF HelmInv, TypeOK, Events
<1>3. RevisionsAreFew' /\ ListsAreDated'
  BY <1>1, ListsStay DEF HelmInv, ListsAreDated
<1>4. WireIsWatched' /\ OldIsEnded' /\ EndedIsBrought'
  BY <1>1, LinkKeepsTheWire
<1>5. RowsSettle'
  <2>1. CASE UNCHANGED <<wire, missed>>
    BY <1>1, <2>1, RowsStay
  <2>2. CASE wire' = <<>> /\ missed' = (missed \/ wire # <<>>)
    <3>1. CASE wire = <<>>
      BY <1>1, <2>2, <3>1, RowsStay DEF HelmInv, TypeOK
    <3>2. CASE wire # <<>>
      BY <2>2, <3>2 DEF RowsSettle
    <3>3. QED
      BY <3>1, <3>2
  <2>3. QED
    BY <1>1, <2>1, <2>2
<1>6. QED
  BY <1>2, <1>3, <1>4, <1>5 DEF HelmInv

\* The page and its query, without the list that lands.
LEMMA PageKeeps ==
  ASSUME HelmInv, Mount \/ Unmount \/ Refresh \/ FetchFails
  PROVE  HelmInv'
<1> USE DEF clusterVars, serverVars, listVars, pageVars, linkVars
<1>0. mounted \in BOOLEAN /\ loaded \in BOOLEAN /\ missed \in BOOLEAN
  BY DEF HelmInv, TypeOK
<1>1. /\ UNCHANGED <<secrets, changes, cache, rows, loaded, invalid>>
      /\ mounted' \in BOOLEAN /\ fetch' \in {"none", "asked", fetch}
      /\ answer' \in {answer, <<>>} /\ (fetch' \in {"none", "asked"} \/ answer' = answer)
      /\ drops' \in 0..MaxDrop
  <2> drops \in 0..MaxDrop
    BY DEF HelmInv, TypeOK
  <2>1. CASE Mount
    BY <1>0, <2>1 DEF Mount
  <2>2. CASE Unmount
    BY <1>0, <2>2 DEF Unmount
  <2>3. CASE Refresh
    BY <1>0, <2>3 DEF Refresh
  <2>4. CASE FetchFails
    BY <1>0, <2>4, HelmAssumption DEF FetchFails
  <2>5. QED
    BY <2>1, <2>2, <2>3, <2>4
<1>2. /\ socket' \in {"none", "connecting", "open"} /\ timer' \in BOOLEAN
      /\ watch' \in {"none", "starting", "waiting", "open"}
      /\ UNCHANGED <<watch, wire>> \/ wire' = <<>>
      /\ (missed' = missed /\ wire' = wire) \/ missed' = (missed \/ wire # <<>>)
  <2>1. CASE Mount
    <3>1. Effect(TRUE, loaded, fetch') /\ missed' = missed /\ ~mounted
      BY <2>1 DEF Mount
    <3>2. ~Enabled(mounted, loaded, fetch)
      BY <3>1 DEF Enabled
    <3>3. QED
      BY <1>0, <3>1, <3>2, EffectIs DEF HelmInv
  <2>2. CASE Unmount
    <3>1. Effect(FALSE, loaded, fetch) /\ missed' = (missed \/ wire # <<>>)
      BY <2>2 DEF Unmount
    <3>2. QED
      BY <1>0, <3>1, EffectIs DEF HelmInv
  <2>3. CASE Refresh
    <3>1. /\ Effect(TRUE, loaded, "asked") /\ mounted /\ fetch = "none"
          /\ missed' = (missed \/ (~loaded /\ wire # <<>>))
      BY <2>3 DEF Refresh
    <3>2. CASE loaded
      <4>1. Enabled(TRUE, loaded, "asked")
        BY <3>2 DEF Enabled
      <4>2. QED
        BY <1>0, <3>1, <3>2, <4>1, EffectIs DEF HelmInv
    <3>3. CASE ~loaded
      BY <1>0, <3>1, <3>3, EffectIs DEF HelmInv
    <3>4. QED
      BY <3>2, <3>3
  <2>4. CASE FetchFails
    <3>1. Effect(mounted, loaded, "none") /\ missed' = missed /\ fetch # "none"
      BY <2>4 DEF FetchFails
    <3>2. Enabled(mounted, loaded, fetch) => Enabled(mounted, loaded, "none")
      BY DEF Enabled
    <3>3. QED
      BY <1>0, <3>1, <3>2, EffectIs DEF HelmInv
  <2>5. QED
    BY <2>1, <2>2, <2>3, <2>4
<1>3. TypeOK'
  <2>0. wire' \in Seq(Events)
    BY <1>2, WireTyped
  <2>1. missed' \in BOOLEAN
    BY <1>0, <1>2, Zenon
  <2>2. fetch' \in {"none", "asked", "read", "reply"} /\ answer' \in {<<>>} \cup (List \X Nat)
    BY <1>1 DEF HelmInv, TypeOK
  <2>3. QED
    BY <1>1, <1>2, <2>0, <2>1, <2>2 DEF HelmInv, TypeOK, Events
<1>4. RevisionsAreFew' /\ ListsAreDated'
  <2>1. fetch' \in {"read", "reply"} => answer' # <<>>
    BY <1>1 DEF HelmInv, ListsAreDated
  <2>2. QED
    BY <1>1, <2>1, ListsStay
<1>5. WireIsWatched' /\ OldIsEnded' /\ EndedIsBrought'
  BY <1>1, <1>2, LinkKeepsTheWire
<1>6. RowsSettle'
  <2>1. CASE missed' = missed /\ wire' = wire
    BY <1>1, <2>1, RowsStay
  <2>2. CASE missed' = (missed \/ wire # <<>>) /\ wire = <<>>
    BY <1>0, <1>1, <1>2, <2>2, RowsStay
  <2>3. CASE missed' = (missed \/ wire # <<>>) /\ wire # <<>>
    BY <2>3 DEF RowsSettle
  <2>4. QED
    BY <1>2, <2>1, <2>2, <2>3
<1>7. QED
  BY <1>3, <1>4, <1>5, <1>6 DEF HelmInv

\* The list that lands; nothing is missed only if it is the current one.
LEMMA LandKeeps ==
  ASSUME HelmInv, Land
  PROVE  HelmInv'
<1> USE DEF clusterVars, serverVars, listVars, pageVars, linkVars
<1>0. mounted \in BOOLEAN /\ loaded \in BOOLEAN /\ fetch = "reply"
  BY DEF Land, HelmInv, TypeOK
<1>1. /\ UNCHANGED <<secrets, changes, cache, mounted, drops>>
      /\ fetch' = "none" /\ answer' = <<>> /\ rows' = answer[1] /\ loaded' = TRUE
      /\ invalid' = FALSE /\ Effect(mounted, TRUE, "none") /\ missed' = (answer[2] # changes)
  BY DEF Land
<1>2. answer # <<>> /\ answer \in List \X Nat
  BY <1>0 DEF HelmInv, TypeOK, ListsAreDated
<1>3. Enabled(mounted, loaded, fetch) => Enabled(mounted, TRUE, "none")
  BY DEF Enabled
<1>4. /\ socket' \in {"none", "connecting", "open"} /\ timer' \in BOOLEAN
      /\ UNCHANGED <<watch, wire>>
  BY <1>0, <1>1, <1>3, EffectIs DEF HelmInv
<1>5. TypeOK'
  BY <1>1, <1>2, <1>4 DEF HelmInv, TypeOK
<1>6. RevisionsAreFew' /\ ListsAreDated'
  BY <1>1, ListsStay
<1>7. WireIsWatched' /\ OldIsEnded' /\ EndedIsBrought'
  BY <1>1, <1>4, LinkKeepsTheWire
<1>8. RowsSettle'
  <2>1. ASSUME ~missed', NEW r \in Release
        PROVE  rows'[r] = Latest(r, secrets)
    <3>1. answer[2] = changes
      BY <1>1, <2>1
    <3>2. answer[1] = Listed[1]
      BY <1>2, <3>1 DEF HelmInv, ListsAreDated
    <3>3. Listed[1] = [q \in Release |-> Latest(q, secrets)]
      BY DEF Listed
    <3>4. QED
      BY <1>1, <3>2, <3>3
  <2>2. \A r \in Release : Latest(r, secrets) \in Nat
    BY LatestNat DEF HelmInv, TypeOK
  <2>3. QED
    BY <1>1, <2>1, <2>2 DEF RowsSettle
<1>9. QED
  BY <1>5, <1>6, <1>7, <1>8 DEF HelmInv

\* What the server does for a list, and the five minutes.
LEMMA ListsKeep ==
  ASSUME HelmInv, Lookup \/ Store \/ Expire \/ Collect \/ UNCHANGED vars
  PROVE  HelmInv'
<1> USE DEF clusterVars, serverVars, listVars, pageVars, linkVars
<1>1. /\ UNCHANGED <<secrets, changes, watch, wire, mounted, socket, timer, drops>>
      /\ \/ UNCHANGED <<rows, loaded, invalid, missed>>
         \/ rows' = Empty /\ loaded' = FALSE /\ invalid' = FALSE /\ missed' = TRUE
  BY DEF Lookup, Store, Expire, Collect, vars
<1>2. secrets \subseteq Release \X Rev /\ MaxChange \in Nat /\ changes \in Nat
  BY HelmAssumption DEF HelmInv, TypeOK
<1>3. Listed \in List \X Nat /\ Listed # <<>>
  <2>1. \A r \in Release : Latest(r, secrets) \in 0..MaxChange
    BY <1>2, LatestIs
  <2>2. QED
    BY <1>2, <2>1 DEF Listed, List
<1>4. RevisionsAreFew' /\ ListsAreDated' /\ cache' \in {cache, answer, <<>>}
      /\ answer' \in {answer, Listed, cache} /\ fetch' \in {"read", "reply", fetch}
  <2>1. CASE Lookup /\ cache = <<>>
    <3>1. answer' = Listed /\ cache' = <<>> /\ fetch' = "read"
      BY <2>1 DEF Lookup
    <3>2. Listed' = Listed
      BY <1>1 DEF Listed, Latest, Revisions
    <3>3. Listed[2] = changes
      BY DEF Listed
    <3>4. ListsAreDated'
      BY <1>1, <1>2, <1>3, <3>1, <3>2, <3>3 DEF ListsAreDated
    <3>5. QED
      BY <1>1, <2>1, <3>1, <3>4 DEF HelmInv, RevisionsAreFew
  <2>2. CASE Lookup /\ cache # <<>>
    <3>1. answer' = cache /\ cache' = cache /\ fetch' = "reply"
      BY <2>2 DEF Lookup
    <3>2. QED
      BY <1>1, <2>2, <3>1, ListsStay
  <2>3. CASE Store
    <3>1. answer' = answer /\ cache' = answer /\ fetch' = "reply" /\ fetch = "read"
      BY <2>3 DEF Store
    <3>2. answer # <<>>
      BY <3>1 DEF HelmInv, ListsAreDated
    <3>3. QED
      BY <1>1, <3>1, <3>2, ListsStay
  <2>4. CASE Expire \/ Collect \/ UNCHANGED vars
    <3>1. answer' = answer /\ cache' \in {cache, <<>>} /\ fetch' = fetch
      BY <2>4 DEF Expire, Collect, vars
    <3>2. fetch \in {"read", "reply"} => answer # <<>>
      BY DEF HelmInv, ListsAreDated
    <3>3. QED
      BY <1>1, <3>1, <3>2, ListsStay
  <2>5. QED
    BY <2>1, <2>2, <2>3, <2>4
<1>5. TypeOK'
  <2>1. rows' \in List /\ loaded' \in BOOLEAN /\ invalid' \in BOOLEAN /\ missed' \in BOOLEAN
    <3>1. Empty \in List
      BY <1>2 DEF Empty, List
    <3>2. QED
      BY <1>1, <3>1 DEF HelmInv, TypeOK
  <2>2. QED
    BY <1>1, <1>3, <1>4, <2>1 DEF HelmInv, TypeOK
<1>6. WireIsWatched' /\ OldIsEnded' /\ EndedIsBrought'
  BY <1>1, WireStays
<1>7. RowsSettle'
  <2>1. CASE UNCHANGED <<rows, loaded, invalid, missed>>
    BY <1>1, <2>1, RowsStay
  <2>2. CASE missed' = TRUE
    BY <2>2 DEF RowsSettle
  <2>3. QED
    BY <1>1, <2>1, <2>2
<1>8. QED
  BY <1>4, <1>5, <1>6, <1>7 DEF HelmInv

LEMMA HelmInit == Init => HelmInv
<1> SUFFICES ASSUME Init PROVE HelmInv
  OBVIOUS
<1>1. TypeOK
  <2>1. /\ changes \in 0..MaxChange /\ drops \in 0..MaxDrop /\ rows \in List
        /\ secrets \subseteq Release \X Rev
    BY HelmAssumption DEF Init, Empty, List
  <2>2. wire \in Seq([type : {"ADDED", "MODIFIED", "DELETED"}, rel : Release, rev : Rev])
    BY DEF Init
  <2>3. /\ watch = "none" /\ cache = <<>> /\ answer = <<>> /\ fetch = "none" /\ socket = "none"
        /\ mounted = FALSE /\ loaded = FALSE /\ invalid = FALSE /\ timer = FALSE /\ missed = TRUE
    BY DEF Init
  <2>4. QED
    BY <2>1, <2>2, <2>3 DEF TypeOK
<1>2. RevisionsAreFew
  BY FS_EmptySet DEF Init, RevisionsAreFew
<1>3. QED
  BY <1>1, <1>2 DEF Init, HelmInv, ListsAreDated, WireIsWatched, OldIsEnded, EndedIsBrought,
                    RowsSettle

LEMMA HelmStep == HelmInv /\ WatchIsConnected /\ [Next]_vars => HelmInv'
<1> SUFFICES ASSUME HelmInv, WatchIsConnected, [Next]_vars PROVE HelmInv'
  OBVIOUS
<1>1. CASE \E r \in Release : Upgrade(r) \/ Uninstall(r)
  BY <1>1, UpgradeKeeps, UninstallKeeps
<1>2. CASE StartWatch
  BY <1>2, StartWatchKeeps
<1>3. CASE StartFails \/ StartAgain \/ WatchEnds \/ SocketOpens \/ SocketDrops \/ TimerFires
  BY <1>3, ConnectionKeeps
<1>4. CASE Deliver
  BY <1>4, DeliverKeeps
<1>5. CASE Mount \/ Unmount \/ Refresh \/ FetchFails
  BY <1>5, PageKeeps
<1>6. CASE Land
  BY <1>6, LandKeeps
<1>7. CASE Lookup \/ Store \/ Expire \/ Collect \/ UNCHANGED vars
  BY <1>7, ListsKeep
<1>8. QED
  BY <1>1, <1>2, <1>3, <1>4, <1>5, <1>6, <1>7 DEF Next

-----------------------------------------------------------------------------
LEMMA HelmHolds == Spec => []HelmInv
BY HelmInit, HelmStep, LinkInit, LinkStep, WatchInit, WatchStep, PTL DEF Spec

\* Every variable keeps its type, through any interleaving of cluster, watch,
\* connection, cache and page.
THEOREM TypeCorrect == Spec => []TypeOK
<1>1. HelmInv => TypeOK
  BY DEF HelmInv
<1>2. QED
  BY <1>1, HelmHolds, PTL

\* The page follows the cluster: when no change was missed since the last list
\* that was current as it landed, and all events have arrived, the page shows
\* the newest revision of every release, for any number of releases, any
\* history and any order in which the Secrets are told of.
THEOREM LockstepCorrect == Spec => []InLockstep
<1>1. HelmInv => InLockstep
  <2> SUFFICES ASSUME HelmInv, ~missed, wire = <<>>, NEW r \in Release
               PROVE  rows[r] = Latest(r, secrets)
    BY DEF InLockstep
  <2>1. ~(rows[r] > Latest(r, secrets)) /\ ~(rows[r] < Latest(r, secrets))
    BY DEF HelmInv, RowsSettle
  <2>2. rows[r] \in Nat
    BY DEF HelmInv, TypeOK, List
  <2>3. Latest(r, secrets) \in Nat
    BY LatestNat DEF HelmInv, TypeOK
  <2>4. QED
    BY <2>1, <2>2, <2>3
<1>2. QED
  BY <1>1, HelmHolds, PTL

=============================================================================
