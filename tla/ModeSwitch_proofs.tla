------------------------- MODULE ModeSwitch_proofs -------------------------
(***************************************************************************)
(* The request numbers of the resource panel, for any modes, any number of *)
(* switches and answers in any order; and the panes of a user who waits on *)
(* a network that keeps the order.                                         *)
(***************************************************************************)
EXTENDS ModeSwitch, TLAPS

LEMMA RequestTyped ==
    ASSUME NEW id \in Nat, NEW kind \in Kinds, NEW m \in Modes, NEW seq \in Nat
    PROVE  /\ Request(id, kind, m) \in Requests
           /\ ResourceRequest(id, kind, m, seq) \in Requests
BY DEF Request, ResourceRequest, Requests

LEMMA InitIInv == Init => IInv
<1> SUFFICES ASSUME Init PROVE IInv
    OBVIOUS
<1> USE SwitchAssumption DEF Init
<1>1. Request(0, "firstStations", FirstMode) \in Requests
    BY RequestTyped DEF Kinds, StationKinds
<1>2. TypeOK
    BY <1>1 DEF TypeOK, Shown
<1>3. Request(0, "firstStations", FirstMode).seq = 0
    BY DEF Request
<1>4. SeqBounded /\ SeqGivenOnce
    BY <1>3 DEF SeqBounded, SeqGivenOnce
<1> QED BY <1>2, <1>4 DEF IInv

-----------------------------------------------------------------------------
\* Types, one step per action.
LEMMA PanelTyped ==
    ASSUME TypeOK, NEW r \in pending, UpdatePanel(r)
    PROVE  panel' \in [mode : Shown, seq : Nat]
<1>1. r.mode \in Shown /\ r.seq \in Nat
    BY DEF TypeOK, Requests, Shown
<1> QED BY <1>1 DEF TypeOK, UpdatePanel

LEMMA TypeStep == TypeOK /\ Next => TypeOK'
<1> SUFFICES ASSUME TypeOK, Next PROVE TypeOK'
    OBVIOUS
<1> USE SwitchAssumption DEF Shown, bounds, panes
<1>1. CASE StartPanes
    <2>1. ResourceRequest(nextId, "initial", FirstMode, latestUpdateSeq + 1) \in Requests
        BY DEF ResourceRequest, Requests, TypeOK, Kinds
    <2>2. Request(nextId + 1, "firstList", currentMode) \in Requests
        BY DEF Request, Requests, TypeOK, Kinds, ListKinds
    <2> QED BY <1>1, <2>1, <2>2 DEF StartPanes, TypeOK
<1>2. CASE StartCards
    <2>1. Request(nextId, "card", chosen) \in Requests
        BY RequestTyped DEF TypeOK, Kinds
    <2> QED BY <1>2, <2>1 DEF StartCards, TypeOK
<1>3. ASSUME NEW m \in Modes, SwitchMode(m) PROVE TypeOK'
    <2>1. /\ Request(nextId, "stations", m) \in Requests
          /\ ResourceRequest(nextId + 1, "switch", m, latestUpdateSeq + 1) \in Requests
        BY RequestTyped DEF TypeOK, Kinds, StationKinds
    <2> QED BY <1>3, <2>1 DEF SwitchMode, TypeOK
<1>4. ASSUME NEW r \in pending, InitialResources(r) PROVE TypeOK'
    BY <1>4, PanelTyped DEF InitialResources, TypeOK
<1>5. ASSUME NEW r \in pending, FinishSwitch(r) PROVE TypeOK'
    <2>1. r.mode \in Modes
        BY DEF TypeOK, Requests
    <2>2. /\ Request(nextId, "list", currentMode) \in Requests
          /\ Request(nextId + 1, "card", r.mode) \in Requests
          /\ Request(nextId + 2, "map", r.mode) \in Requests
        BY <2>1 DEF Request, Requests, TypeOK, Kinds, ListKinds
    <2>3. panel' \in [mode : Shown, seq : Nat]
        BY <1>5, PanelTyped DEF FinishSwitch
    <2> QED BY <1>5, <2>1, <2>2, <2>3 DEF FinishSwitch, TypeOK
<1>6. ASSUME NEW r \in pending,
             ShowStations(r) \/ ShowMap(r) \/ ShowList(r) \/ ShowCards(r)
      PROVE  TypeOK'
    <2>1. r.mode \in Modes
        BY DEF TypeOK, Requests
    <2>2. map' \in Shown /\ list' \in Shown /\ card' \in Shown
        BY <1>6, <2>1 DEF ShowStations, ShowMap, ShowList, ShowCards, ShownOr, TypeOK
    <2> QED BY <1>6, <2>2 DEF ShowStations, ShowMap, ShowList, ShowCards, TypeOK
<1>7. ASSUME NEW r \in pending, ShowDetail(r) PROVE TypeOK'
    <2>1. r.mode \in Modes
        BY DEF TypeOK, Requests
    <2> QED BY <1>7, <2>1 DEF ShowDetail, ShownOr, TypeOK
<1>8. CASE ClickCard
    <2>1. Request(nextId, "detail", currentMode) \in Requests
        BY RequestTyped DEF TypeOK, Kinds
    <2> QED BY <1>8, <2>1 DEF ClickCard, TypeOK
<1>9. CASE CloseDetail
    BY <1>9 DEF CloseDetail, TypeOK
<1> QED BY <1>1, <1>2, <1>3, <1>4, <1>5, <1>6, <1>7, <1>8, <1>9 DEF Next

-----------------------------------------------------------------------------
\* The numbers: a step gives none out, and then may show the last one given,
\* or gives the next one to one new request.
Unnumbered(requests) == \A r \in requests : r.seq = 0

GivesNone ==
    /\ latestUpdateSeq' = latestUpdateSeq
    /\ Unnumbered(pending' \ pending)
    /\ panel'.seq \in {panel.seq, latestUpdateSeq}

GivesOne ==
    /\ latestUpdateSeq' = latestUpdateSeq + 1
    /\ panel' = panel
    /\ \E new : /\ new.seq = latestUpdateSeq + 1
                /\ Unnumbered(pending' \ (pending \union {new}))

LEMMA PanelShowsTheLast ==
    ASSUME NEW r, UpdatePanel(r)
    PROVE  panel'.seq \in {panel.seq, latestUpdateSeq}
BY DEF UpdatePanel

LEMMA NumberChanges == Next => GivesNone \/ GivesOne
<1> SUFFICES ASSUME Next PROVE GivesNone \/ GivesOne
    OBVIOUS
<1> USE DEF Unnumbered, Request
<1>1. CASE StartPanes
    <2> DEFINE new == ResourceRequest(nextId, "initial", FirstMode, latestUpdateSeq + 1)
    <2>1. new.seq = latestUpdateSeq + 1
        BY DEF ResourceRequest
    <2>2. Unnumbered(pending' \ (pending \union {new}))
        BY <1>1 DEF StartPanes
    <2> QED BY <1>1, <2>1, <2>2 DEF StartPanes, GivesOne
<1>2. CASE StartCards
    BY <1>2 DEF StartCards, GivesNone
<1>3. ASSUME NEW m \in Modes, SwitchMode(m) PROVE GivesOne
    <2> DEFINE new == ResourceRequest(nextId + 1, "switch", m, latestUpdateSeq + 1)
    <2>1. new.seq = latestUpdateSeq + 1
        BY DEF ResourceRequest
    <2>2. Unnumbered(pending' \ (pending \union {new}))
        BY <1>3 DEF SwitchMode
    <2> QED BY <1>3, <2>1, <2>2 DEF SwitchMode, GivesOne
<1>4. ASSUME NEW r \in pending, InitialResources(r) PROVE GivesNone
    BY <1>4, PanelShowsTheLast DEF InitialResources, GivesNone
<1>5. ASSUME NEW r \in pending, FinishSwitch(r) PROVE GivesNone
    <2>1. Unnumbered(pending' \ pending)
        BY <1>5 DEF FinishSwitch
    <2> QED BY <1>5, <2>1, PanelShowsTheLast DEF FinishSwitch, GivesNone
<1>6. ASSUME NEW r \in pending,
             ShowStations(r) \/ ShowMap(r) \/ ShowList(r) \/ ShowCards(r)
      PROVE  GivesNone
    BY <1>6 DEF ShowStations, ShowMap, ShowList, ShowCards, GivesNone
<1>7. ASSUME NEW r \in pending, ShowDetail(r) PROVE GivesNone
    BY <1>7 DEF ShowDetail, GivesNone
<1>8. CASE ClickCard
    BY <1>8 DEF ClickCard, GivesNone
<1>9. CASE CloseDetail
    BY <1>9 DEF CloseDetail, GivesNone
<1> QED BY <1>1, <1>2, <1>3, <1>4, <1>5, <1>6, <1>7, <1>8, <1>9 DEF Next

LEMMA NumberStep ==
    ASSUME IInv, Next
    PROVE  SeqBounded' /\ SeqGivenOnce'
<1>1. /\ latestUpdateSeq \in Nat /\ panel.seq \in Nat
      /\ \A r \in pending : r.seq \in Nat
    BY DEF IInv, TypeOK, Requests
<1>2. CASE GivesNone
    BY <1>1, <1>2 DEF GivesNone, Unnumbered, IInv, SeqBounded, SeqGivenOnce
<1>3. CASE GivesOne
    <2>1. PICK new : /\ new.seq = latestUpdateSeq + 1
                     /\ Unnumbered(pending' \ (pending \union {new}))
        BY <1>3 DEF GivesOne
    <2>2. \A r \in pending' : r \in pending \/ r = new \/ r.seq = 0
        BY <2>1 DEF Unnumbered
    <2>3. SeqBounded'
        BY <1>1, <1>3, <2>1, <2>2 DEF GivesOne, IInv, SeqBounded
    <2>4. SeqGivenOnce'
        BY <1>1, <2>1, <2>2 DEF IInv, SeqBounded, SeqGivenOnce
    <2> QED BY <2>3, <2>4
<1> QED BY <1>2, <1>3, NumberChanges

LEMMA Stutter == IInv /\ UNCHANGED vars => IInv'
BY DEF IInv, TypeOK, SeqBounded, SeqGivenOnce, vars, panes, bounds

LEMMA InductiveStep == IInv /\ [Next]_vars => IInv'
<1> SUFFICES ASSUME IInv, Next PROVE IInv'
    BY Stutter
<1>1. TypeOK'
    BY TypeStep DEF IInv
<1> QED BY <1>1, NumberStep DEF IInv

\* Every number shown or in flight was given out, and to one request only
\* (latestUpdateSeq of resources.js).
THEOREM Invariance == Spec => []IInv
BY InitIInv, InductiveStep, PTL DEF Spec

\* The resource panel never replaces the data of a request by those of an
\* earlier one, in whatever order the answers come (updateResourcesForMode).
THEOREM PanelOnlyMovesForward == Spec => PanelNeverGoesBack
<1>1. IInv /\ [Next]_vars => [panel'.seq >= panel.seq]_vars
    <2> SUFFICES ASSUME IInv, Next PROVE panel'.seq >= panel.seq
        OBVIOUS
    <2>1. panel.seq \in Nat /\ latestUpdateSeq \in Nat /\ panel.seq <= latestUpdateSeq
        BY DEF IInv, TypeOK, SeqBounded
    <2>2. panel'.seq \in {panel.seq, latestUpdateSeq}
        BY NumberChanges DEF GivesNone, GivesOne
    <2> QED BY <2>1, <2>2
<1> QED BY <1>1, Invariance, PTL DEF Spec, PanelNeverGoesBack

-----------------------------------------------------------------------------
\* The patient user on an orderly network: every pane shows the mode of the
\* page, or the last request in flight that will fill it is of that mode.
Orderly == Patience = 2 /\ OrderedHttp /\ ~MayRefuse

Follows(requests, kinds, shown, mode) ==
    \/ \E r \in requests : /\ r.kind \in kinds /\ r.mode = mode
                           /\ \A s \in requests : s.kind \in kinds => s.id <= r.id
    \/ (\A r \in requests : r.kind \notin kinds) /\ shown = mode

MapKinds      == StationKinds \union {"map"}
AllListKinds  == StationKinds \union ListKinds
CardKinds     == {"card", "switch"}
ResourceKinds == {"switch", "initial"}

Numbered ==
    /\ \A r \in pending : r.id < nextId
    /\ \A r, s \in pending : r.id = s.id => r = s

PanesFollow ==
    /\ chosen = currentMode
    /\ Follows(pending, MapKinds, map, currentMode)
    /\ Follows(pending, AllListKinds, list, currentMode)
    /\ boot = "done" => Follows(pending, CardKinds, card, currentMode)

\* One request for resources at a time, the last one, of the mode of the page.
OneResourceRequest ==
    /\ \A r, s \in pending : r.kind \in ResourceKinds /\ s.kind \in ResourceKinds => r = s
    /\ \A r \in pending : r.kind \in ResourceKinds =>
           /\ boot # "map" /\ r.mode = currentMode /\ r.seq = latestUpdateSeq
           /\ r.kind = "switch" => boot = "done"

PanelFollows ==
    /\ boot # "done" => currentMode = FirstMode
    /\ boot # "map" /\ (\A r \in pending : r.kind \notin ResourceKinds)
           => panel.mode = currentMode

\* Details of another mode are, or will be, closed by a switch in flight.
DetailCloses ==
    /\ detail \in {Nothing, currentMode} \/ \E s \in pending : s.kind = "switch"
    /\ \A r \in pending : r.kind = "detail" =>
           \/ r.mode = currentMode
           \/ \E s \in pending : s.kind = "switch" /\ r.id < s.id

PatientInv ==
    TypeOK /\ Numbered /\ PanesFollow /\ OneResourceRequest /\ PanelFollows /\ DetailCloses

LEMMA FollowsNew ==
    ASSUME NEW q, NEW kinds, NEW v, NEW m, NEW new \in q, new.kind \in kinds, new.mode = m,
           \A s \in q : s.kind \in kinds => s.id <= new.id
    PROVE  Follows(q, kinds, v, m)
BY DEF Follows

LEMMA FollowsSame ==
    ASSUME NEW p, NEW q, NEW kinds, NEW v, NEW m, Follows(p, kinds, v, m),
           \A r \in p : r.kind \in kinds => r \in q,
           \A r \in q : r.kind \in kinds => r \in p
    PROVE  Follows(q, kinds, v, m)
BY DEF Follows

\* An answer in order: it is the last of its kinds, or the last is still to come.
LEMMA FollowsAnswer ==
    ASSUME NEW p, NEW kinds, NEW v, NEW m, NEW r \in p, Follows(p, kinds, v, m),
           r.kind \in kinds,
           \A s \in p : s.id \in Nat /\ r.id <= s.id,
           \A s, t \in p : s.id = t.id => s = t
    PROVE  Follows(p \ {r}, kinds, r.mode, m)
<1>1. PICK last \in p : /\ last.kind \in kinds /\ last.mode = m
                        /\ \A s \in p : s.kind \in kinds => s.id <= last.id
    BY DEF Follows
<1>2. CASE last = r
    <2>1. \A s \in p : s.kind \in kinds => s = r
        BY <1>1, <1>2
    <2> QED BY <1>1, <1>2, <2>1 DEF Follows
<1>3. CASE last # r
    BY <1>1, <1>3 DEF Follows
<1> QED BY <1>2, <1>3

LEMMA Fields ==
    ASSUME NEW id, NEW kind, NEW m, NEW seq
    PROVE  /\ Request(id, kind, m).id = id
           /\ Request(id, kind, m).kind = kind
           /\ Request(id, kind, m).mode = m
           /\ ResourceRequest(id, kind, m, seq).id = id
           /\ ResourceRequest(id, kind, m, seq).kind = kind
           /\ ResourceRequest(id, kind, m, seq).mode = m
           /\ ResourceRequest(id, kind, m, seq).seq = seq
BY DEF Request, ResourceRequest

LEMMA NumberedStep ==
    ASSUME TypeOK, Numbered, NEW new,
           \A r \in pending' : r \in pending \/ r \in new,
           nextId' \in Nat, nextId <= nextId',
           \A r \in new : r.id \in Nat /\ nextId <= r.id /\ r.id < nextId',
           \A r, s \in new : r.id = s.id => r = s
    PROVE  Numbered'
<1>1. nextId \in Nat /\ \A r \in pending : r.id \in Nat
    BY DEF TypeOK, Requests
<1>2. \A r \in pending' : r.id < nextId'
    BY <1>1 DEF Numbered
<1>3. ASSUME NEW r \in pending', NEW s \in pending', r.id = s.id PROVE r = s
    BY <1>1, <1>3 DEF Numbered
<1> QED BY <1>2, <1>3 DEF Numbered

LEMMA InitPatient == Init => PatientInv
<1> SUFFICES ASSUME Init PROVE PatientInv
    OBVIOUS
<1> USE DEF Init
<1> DEFINE q == Request(0, "firstStations", FirstMode)
<1>1. q.id = 0 /\ q.kind = "firstStations" /\ q.mode = FirstMode
    BY Fields
<1>2. pending = {q}
    OBVIOUS
<1> HIDE DEF q
<1>3. TypeOK
    BY InitIInv DEF IInv
<1>4. Numbered
    BY <1>1, <1>2 DEF Numbered
<1>5. Follows(pending, MapKinds, map, currentMode)
      /\ Follows(pending, AllListKinds, list, currentMode)
    BY <1>1, <1>2, FollowsNew DEF MapKinds, AllListKinds, StationKinds
<1>6. PanesFollow /\ OneResourceRequest /\ PanelFollows /\ DetailCloses
    BY <1>1, <1>2, <1>5 DEF PanesFollow, OneResourceRequest, PanelFollows, DetailCloses,
                            ResourceKinds
<1> QED BY <1>3, <1>4, <1>6 DEF PatientInv

\* The start of the page: the requests for resources and for the first list.
LEMMA StartPanesPatient == ASSUME PatientInv, StartPanes PROVE PatientInv'
<1> USE DEF StartPanes
<1> DEFINE q == ResourceRequest(nextId, "initial", FirstMode, latestUpdateSeq + 1)
           s == Request(nextId + 1, "firstList", currentMode)
<1>1. /\ q.id = nextId /\ q.kind = "initial" /\ q.mode = FirstMode
      /\ q.seq = latestUpdateSeq + 1
      /\ s.id = nextId + 1 /\ s.kind = "firstList" /\ s.mode = currentMode
    BY Fields
<1>2. pending' = pending \union {q, s}
    OBVIOUS
<1> HIDE DEF q, s
<1>3. TypeOK /\ Numbered /\ PanesFollow /\ OneResourceRequest /\ PanelFollows /\ DetailCloses
    BY DEF PatientInv
<1>4. TypeOK'
    BY <1>3, TypeStep DEF Next
<1>5. nextId \in Nat /\ latestUpdateSeq \in Nat /\ \A r \in pending : r.id \in Nat
    BY <1>3 DEF TypeOK, Requests
<1>6. Numbered'
    <2> DEFINE N == {q, s}
    <2>1. /\ \A r \in pending' : r \in pending \/ r \in N
          /\ \A r \in N : r.id \in Nat /\ nextId <= r.id /\ r.id < nextId'
          /\ \A r, t \in N : r.id = t.id => r = t
        BY <1>1, <1>2, <1>5
    <2>2. nextId' \in Nat /\ nextId <= nextId'
        BY <1>5
    <2> HIDE DEF N
    <2> QED BY <1>3, <2>1, <2>2, NumberedStep
<1>7. currentMode' = currentMode /\ currentMode = FirstMode
    BY <1>3 DEF PanelFollows
<1>8. \A r \in pending' : r \in pending \/ r = q \/ r = s
    BY <1>2
<1>9. PanesFollow'
    <2>1. Follows(pending', MapKinds, map, currentMode)
        <3>1. \A r \in pending' : r.kind \in MapKinds => r \in pending
            BY <1>1, <1>8 DEF MapKinds, StationKinds
        <3> QED BY <1>2, <1>3, <3>1, FollowsSame DEF PanesFollow
    <2>2. Follows(pending', AllListKinds, list, currentMode)
        <3>1. \A r \in pending' : r.kind \in AllListKinds => r.id <= s.id
            BY <1>1, <1>3, <1>5, <1>8 DEF Numbered, AllListKinds, StationKinds, ListKinds
        <3>2. s \in pending' /\ s.kind \in AllListKinds
            BY <1>1, <1>2 DEF AllListKinds, ListKinds
        <3> QED BY <1>1, <3>1, <3>2, FollowsNew
    <2> QED BY <1>3, <1>7, <2>1, <2>2 DEF PanesFollow, panes
<1>10. OneResourceRequest'
    <2>1. \A r \in pending' : r.kind \in ResourceKinds => r = q
        BY <1>1, <1>3, <1>8 DEF OneResourceRequest, ResourceKinds
    <2> QED BY <1>1, <1>7, <2>1 DEF OneResourceRequest
<1>11. PanelFollows'
    BY <1>1, <1>2, <1>7 DEF PanelFollows, ResourceKinds
<1>12. DetailCloses'
    BY <1>1, <1>2, <1>3, <1>7, <1>8 DEF DetailCloses
<1> QED BY <1>4, <1>6, <1>9, <1>10, <1>11, <1>12 DEF PatientInv

LEMMA StartCardsPatient == ASSUME PatientInv, StartCards PROVE PatientInv'
<1> USE DEF StartCards
<1> DEFINE q == Request(nextId, "card", chosen)
<1>1. q.id = nextId /\ q.kind = "card" /\ q.mode = chosen
    BY Fields
<1>2. pending' = pending \union {q}
    OBVIOUS
<1> HIDE DEF q
<1>3. TypeOK /\ Numbered /\ PanesFollow /\ OneResourceRequest /\ PanelFollows /\ DetailCloses
    BY DEF PatientInv
<1>4. TypeOK'
    BY <1>3, TypeStep DEF Next
<1>5. nextId \in Nat /\ \A r \in pending : r.id \in Nat
    BY <1>3 DEF TypeOK, Requests
<1>6. Numbered'
    <2> DEFINE N == {q}
    <2>1. /\ \A r \in pending' : r \in pending \/ r \in N
          /\ \A r \in N : r.id \in Nat /\ nextId <= r.id /\ r.id < nextId'
          /\ \A r, t \in N : r.id = t.id => r = t
        BY <1>1, <1>2, <1>5
    <2>2. nextId' \in Nat /\ nextId <= nextId'
        BY <1>5
    <2> HIDE DEF N
    <2> QED BY <1>3, <2>1, <2>2, NumberedStep
<1>7. \A r \in pending' : r \in pending \/ r = q
    BY <1>2
<1>8. PanesFollow'
    <2>1. Follows(pending', MapKinds, map, currentMode)
        <3>1. \A r \in pending' : r.kind \in MapKinds => r \in pending
            BY <1>1, <1>7 DEF MapKinds, StationKinds
        <3> QED BY <1>2, <1>3, <3>1, FollowsSame DEF PanesFollow
    <2>2. Follows(pending', AllListKinds, list, currentMode)
        <3>1. \A r \in pending' : r.kind \in AllListKinds => r \in pending
            BY <1>1, <1>7 DEF AllListKinds, StationKinds, ListKinds
        <3> QED BY <1>2, <1>3, <3>1, FollowsSame DEF PanesFollow
    <2>3. Follows(pending', CardKinds, card, currentMode)
        <3>1. \A r \in pending' : r.id <= q.id
            BY <1>1, <1>3, <1>5, <1>7 DEF Numbered
        <3>2. q \in pending' /\ q.kind \in CardKinds /\ q.mode = currentMode
            BY <1>1, <1>2, <1>3 DEF CardKinds, PanesFollow
        <3> QED BY <3>1, <3>2, FollowsNew
    <2> QED BY <1>3, <2>1, <2>2, <2>3 DEF PanesFollow, panes
<1>9. OneResourceRequest' /\ PanelFollows'
    BY <1>1, <1>2, <1>3, <1>7 DEF OneResourceRequest, PanelFollows, ResourceKinds
<1>10. DetailCloses'
    BY <1>1, <1>2, <1>3, <1>7 DEF DetailCloses
<1> QED BY <1>4, <1>6, <1>8, <1>9, <1>10 DEF PatientInv

\* The click: the user waits for the switch before, so that the two requests are
\* the last ones, and the only one for resources.
LEMMA SwitchModePatient ==
    ASSUME Orderly, PatientInv, NEW m \in Modes, SwitchMode(m)
    PROVE  PatientInv'
<1> USE DEF SwitchMode
<1> DEFINE q == Request(nextId, "stations", m)
           s == ResourceRequest(nextId + 1, "switch", m, latestUpdateSeq + 1)
<1>1. /\ q.id = nextId /\ q.kind = "stations" /\ q.mode = m
      /\ s.id = nextId + 1 /\ s.kind = "switch" /\ s.mode = m
      /\ s.seq = latestUpdateSeq + 1
    BY Fields
<1>2. pending' = pending \union {q, s}
    OBVIOUS
<1> HIDE DEF q, s
<1>3. TypeOK /\ Numbered /\ PanesFollow /\ OneResourceRequest /\ PanelFollows /\ DetailCloses
    BY DEF PatientInv
<1>4. TypeOK'
    BY <1>3, TypeStep DEF Next
<1>5. nextId \in Nat /\ latestUpdateSeq \in Nat /\ \A r \in pending : r.id \in Nat
    BY <1>3 DEF TypeOK, Requests
<1>6. Numbered'
    <2> DEFINE N == {q, s}
    <2>1. /\ \A r \in pending' : r \in pending \/ r \in N
          /\ \A r \in N : r.id \in Nat /\ nextId <= r.id /\ r.id < nextId'
          /\ \A r, t \in N : r.id = t.id => r = t
        BY <1>1, <1>2, <1>5
    <2>2. nextId' \in Nat /\ nextId <= nextId'
        BY <1>5
    <2> HIDE DEF N
    <2> QED BY <1>3, <2>1, <2>2, NumberedStep
<1>7. boot = "done" /\ \A r \in pending : r.kind \notin ResourceKinds
    BY DEF Orderly, UserWaits, ResourceKinds
<1>8. \A r \in pending' : r \in pending \/ r = q \/ r = s
    BY <1>2
<1>9. \A r \in pending' : r.id <= s.id /\ (r # s => r.id <= q.id)
    BY <1>1, <1>3, <1>5, <1>8 DEF Numbered
<1>10. PanesFollow'
    <2>1. Follows(pending', MapKinds, map, m)
        <3>1. q \in pending' /\ q.kind \in MapKinds /\ s.kind \notin MapKinds
            BY <1>1, <1>2 DEF MapKinds, StationKinds
        <3>2. \A r \in pending' : r.kind \in MapKinds => r.id <= q.id
            BY <1>9, <3>1
        <3> QED BY <1>1, <3>1, <3>2, FollowsNew
    <2>2. Follows(pending', AllListKinds, list, m)
        <3>1. q \in pending' /\ q.kind \in AllListKinds /\ s.kind \notin AllListKinds
            BY <1>1, <1>2 DEF AllListKinds, StationKinds, ListKinds
        <3>2. \A r \in pending' : r.kind \in AllListKinds => r.id <= q.id
            BY <1>9, <3>1
        <3> QED BY <1>1, <3>1, <3>2, FollowsNew
    <2>3. Follows(pending', CardKinds, card, m)
        <3>1. s \in pending' /\ s.kind \in CardKinds
            BY <1>1, <1>2 DEF CardKinds
        <3> QED BY <1>1, <1>9, <3>1, FollowsNew
    <2> QED BY <2>1, <2>2, <2>3 DEF PanesFollow, panes
<1>11. OneResourceRequest'
    <2>1. \A r \in pending' : r.kind \in ResourceKinds => r = s
        BY <1>1, <1>7, <1>8 DEF ResourceKinds
    <2> QED BY <1>1, <1>7, <2>1 DEF OneResourceRequest
<1>12. PanelFollows'
    BY <1>1, <1>2, <1>7 DEF PanelFollows, ResourceKinds
<1>13. DetailCloses'
    <2>1. s \in pending' /\ s.kind = "switch" /\ q.kind # "detail" /\ s.kind # "detail"
        BY <1>1, <1>2
    <2>2. \A r \in pending' : r.kind = "detail" => r.id < s.id
        BY <1>1, <1>3, <1>5, <1>8, <2>1 DEF Numbered
    <2> QED BY <2>1, <2>2 DEF DetailCloses
<1> QED BY <1>4, <1>6, <1>10, <1>11, <1>12, <1>13 DEF PatientInv

\* An answer that is not about resources leaves them, and may open a detail view.
LEMMA AnswerPatient ==
    ASSUME PatientInv, NEW r \in pending, r.kind \notin ResourceKinds,
           pending' = pending \ {r},
           UNCHANGED <<boot, currentMode, latestUpdateSeq, nextId, panel>>,
           detail' = detail \/ (r.kind = "detail" /\ detail' = r.mode)
    PROVE  Numbered' /\ OneResourceRequest' /\ PanelFollows' /\ DetailCloses'
<1>1. Numbered /\ OneResourceRequest /\ PanelFollows /\ DetailCloses
    BY DEF PatientInv
<1>2. \A s \in pending : s.kind \in ResourceKinds <=> s \in pending' /\ s.kind \in ResourceKinds
    OBVIOUS
<1>3. \A s \in pending : s.kind = "switch" => s \in pending'
    BY <1>2 DEF ResourceKinds
<1>4. Numbered' /\ OneResourceRequest' /\ PanelFollows'
    BY <1>1, <1>2 DEF Numbered, OneResourceRequest, PanelFollows
<1>5. DetailCloses'
    BY <1>1, <1>3 DEF DetailCloses
<1> QED BY <1>4, <1>5

LEMMA ShowPatient ==
    ASSUME Orderly, PatientInv, NEW r \in pending,
           ShowStations(r) \/ ShowMap(r) \/ ShowList(r) \/ ShowCards(r) \/ ShowDetail(r)
    PROVE  PatientInv'
<1> USE DEF Orderly
<1>1. TypeOK /\ Numbered /\ PanesFollow
    BY DEF PatientInv
<1>2. TypeOK'
    BY <1>1, TypeStep DEF Next
<1>3. /\ pending' = pending \ {r}
      /\ UNCHANGED <<boot, currentMode, chosen, latestUpdateSeq, nextId, panel>>
      /\ \A s \in pending : r.id <= s.id
    BY DEF ShowStations, ShowMap, ShowList, ShowCards, ShowDetail, Answered, panes
<1>4. /\ \A s \in pending : s.id \in Nat /\ r.id <= s.id
      /\ \A s, t \in pending : s.id = t.id => s = t
    BY <1>1, <1>3 DEF TypeOK, Requests, Numbered
<1>5. /\ map'  = IF r.kind \in MapKinds THEN r.mode ELSE map
      /\ list' = IF r.kind \in AllListKinds THEN r.mode ELSE list
      /\ r.kind \notin ResourceKinds /\ r.kind # "switch"
      /\ card' = IF r.kind \in CardKinds THEN r.mode ELSE card
      /\ detail' = detail \/ (r.kind = "detail" /\ detail' = r.mode)
    <2> USE DEF StationKinds, ListKinds, MapKinds, AllListKinds, CardKinds, ResourceKinds,
                ShownOr, panes
    <2>1. CASE ShowStations(r)
        BY <2>1 DEF ShowStations
    <2>2. CASE ShowMap(r)
        BY <2>2 DEF ShowMap
    <2>3. CASE ShowList(r)
        BY <2>3 DEF ShowList
    <2>4. CASE ShowCards(r)
        BY <2>4 DEF ShowCards
    <2>5. CASE ShowDetail(r)
        BY <2>5 DEF ShowDetail
    <2> QED BY <2>1, <2>2, <2>3, <2>4, <2>5
<1>6. ASSUME NEW kinds, NEW v, Follows(pending, kinds, v, currentMode)
      PROVE  Follows(pending', kinds, IF r.kind \in kinds THEN r.mode ELSE v, currentMode)
    <2>1. CASE r.kind \in kinds
        BY <1>3, <1>4, <1>6, <2>1, FollowsAnswer
    <2>2. CASE r.kind \notin kinds
        <3>1. /\ \A s \in pending : s.kind \in kinds => s \in pending'
              /\ \A s \in pending' : s.kind \in kinds => s \in pending
            BY <1>3, <2>2
        <3> QED BY <1>6, <2>2, <3>1, FollowsSame
    <2> QED BY <2>1, <2>2
<1>7. PanesFollow'
    <2>1. Follows(pending', MapKinds, map', currentMode)
        BY <1>1, <1>5, <1>6 DEF PanesFollow
    <2>2. Follows(pending', AllListKinds, list', currentMode)
        BY <1>1, <1>5, <1>6 DEF PanesFollow
    <2>3. boot = "done" => Follows(pending', CardKinds, card', currentMode)
        BY <1>1, <1>5, <1>6 DEF PanesFollow
    <2> QED BY <1>1, <1>3, <2>1, <2>2, <2>3 DEF PanesFollow
<1>8. Numbered' /\ OneResourceRequest' /\ PanelFollows' /\ DetailCloses'
    BY <1>3, <1>5, AnswerPatient
<1> QED BY <1>2, <1>7, <1>8 DEF PatientInv

LEMMA InitialPatient ==
    ASSUME Orderly, PatientInv, NEW r \in pending, InitialResources(r)
    PROVE  PatientInv'
<1> USE DEF InitialResources
<1>1. TypeOK /\ Numbered /\ PanesFollow /\ OneResourceRequest /\ PanelFollows /\ DetailCloses
    BY DEF PatientInv
<1>2. TypeOK'
    BY <1>1, TypeStep DEF Next
<1>3. /\ r.kind = "initial" /\ pending' = pending \ {r}
      /\ UNCHANGED <<boot, currentMode, chosen, latestUpdateSeq, nextId, map, list, card, detail>>
    BY DEF panes
<1>4. Numbered' /\ OneResourceRequest'
    BY <1>1, <1>3 DEF Numbered, OneResourceRequest
<1>5. PanesFollow'
    <2>1. r.kind \notin MapKinds /\ r.kind \notin AllListKinds /\ r.kind \notin CardKinds
        BY <1>3 DEF MapKinds, AllListKinds, StationKinds, ListKinds, CardKinds
    <2>2. ASSUME NEW kinds, r.kind \notin kinds, NEW v, Follows(pending, kinds, v, currentMode)
          PROVE  Follows(pending', kinds, v, currentMode)
        <3>1. /\ \A s \in pending : s.kind \in kinds => s \in pending'
              /\ \A s \in pending' : s.kind \in kinds => s \in pending
            BY <1>3, <2>2
        <3> QED BY <2>2, <3>1, FollowsSame
    <2>3. /\ Follows(pending', MapKinds, map, currentMode)
          /\ Follows(pending', AllListKinds, list, currentMode)
          /\ boot = "done" => Follows(pending', CardKinds, card, currentMode)
        BY <1>1, <2>1, <2>2 DEF PanesFollow
    <2> QED BY <1>1, <1>3, <2>3 DEF PanesFollow
<1>6. PanelFollows'
    <2>1. r.seq = latestUpdateSeq /\ r.mode = currentMode
        BY <1>1, <1>3 DEF OneResourceRequest, ResourceKinds
    <2>2. panel' = [mode |-> r.mode, seq |-> r.seq]
        BY <2>1 DEF UpdatePanel, Orderly
    <2> QED BY <1>1, <1>3, <2>1, <2>2 DEF PanelFollows
<1>7. DetailCloses'
    BY <1>1, <1>3 DEF DetailCloses
<1> QED BY <1>2, <1>4, <1>5, <1>6, <1>7 DEF PatientInv

\* The answer that ends a switch is the oldest in flight: details requested
\* before the click have come, and the requests that follow are the last ones.
LEMMA FinishSwitchPatient ==
    ASSUME Orderly, PatientInv, NEW r \in pending, FinishSwitch(r)
    PROVE  PatientInv'
<1> USE DEF FinishSwitch
<1> DEFINE l == Request(nextId, "list", currentMode)
           c == Request(nextId + 1, "card", r.mode)
           p == Request(nextId + 2, "map", r.mode)
<1>1. /\ l.id = nextId /\ l.kind = "list" /\ l.mode = currentMode
      /\ c.id = nextId + 1 /\ c.kind = "card" /\ c.mode = r.mode
      /\ p.id = nextId + 2 /\ p.kind = "map" /\ p.mode = r.mode
    BY Fields
<1>2. pending' = (pending \ {r}) \union {l, c, p}
    OBVIOUS
<1> HIDE DEF l, c, p
<1>3. TypeOK /\ Numbered /\ PanesFollow /\ OneResourceRequest /\ PanelFollows /\ DetailCloses
    BY DEF PatientInv
<1>4. TypeOK'
    BY <1>3, TypeStep DEF Next
<1>5. nextId \in Nat /\ \A s \in pending : s.id \in Nat
    BY <1>3 DEF TypeOK, Requests
<1>6. Numbered'
    <2> DEFINE N == {l, c, p}
    <2>1. /\ \A s \in pending' : s \in pending \/ s \in N
          /\ \A s \in N : s.id \in Nat /\ nextId <= s.id /\ s.id < nextId'
          /\ \A s, t \in N : s.id = t.id => s = t
        BY <1>1, <1>2, <1>5
    <2>2. nextId' \in Nat /\ nextId <= nextId'
        BY <1>5
    <2> HIDE DEF N
    <2> QED BY <1>3, <2>1, <2>2, NumberedStep
<1>7. r.kind = "switch" /\ r.mode = currentMode /\ r.seq = latestUpdateSeq /\ boot = "done"
    BY <1>3 DEF OneResourceRequest, ResourceKinds
<1>8. /\ currentMode' = currentMode /\ chosen' = chosen /\ boot' = boot
      /\ latestUpdateSeq' = latestUpdateSeq /\ detail' = Nothing
      /\ map' = map /\ list' = list /\ card' = card
    BY <1>7 DEF panes
<1>9. \A s \in pending' : (s \in pending /\ s # r) \/ s = l \/ s = c \/ s = p
    BY <1>2
<1>10. PanesFollow'
    <2>1. ASSUME NEW new \in {l, c, p}, NEW kinds, new.kind \in kinds,
                 \A s \in {l, c, p} : s.kind \in kinds => s = new, NEW v
          PROVE  Follows(pending', kinds, v, currentMode)
        <3>1. new \in pending' /\ new.mode = currentMode
            BY <1>1, <1>2, <1>7, <2>1
        <3>2. \A s \in pending' : s.kind \in kinds => s.id <= new.id
            BY <1>1, <1>3, <1>5, <1>9, <2>1 DEF Numbered
        <3> QED BY <2>1, <3>1, <3>2, FollowsNew
    <2>2. Follows(pending', MapKinds, map, currentMode)
        BY <1>1, <2>1 DEF MapKinds, StationKinds
    <2>3. Follows(pending', AllListKinds, list, currentMode)
        BY <1>1, <2>1 DEF AllListKinds, StationKinds, ListKinds
    <2>4. Follows(pending', CardKinds, card, currentMode)
        BY <1>1, <2>1 DEF CardKinds
    <2> QED BY <1>3, <1>8, <2>2, <2>3, <2>4 DEF PanesFollow
<1>11. \A s \in pending' : s.kind \notin ResourceKinds
    BY <1>1, <1>3, <1>7, <1>9 DEF OneResourceRequest, ResourceKinds
<1>12. panel'.mode = currentMode
    BY <1>7 DEF UpdatePanel, Orderly
<1>13. OneResourceRequest' /\ PanelFollows'
    BY <1>7, <1>8, <1>11, <1>12 DEF OneResourceRequest, PanelFollows
<1>14. DetailCloses'
    <2>1. ASSUME NEW s \in pending, s # r, s.kind = "detail" PROVE s.mode = currentMode
        <3>1. \A t \in pending : t.kind = "switch" => t = r
            BY <1>3, <1>7 DEF OneResourceRequest, ResourceKinds
        <3>2. r.id <= s.id /\ r.id \in Nat /\ s.id \in Nat
            BY <1>5 DEF Answered, Orderly
        <3>3. ~(s.id < r.id)
            BY <3>2
        <3> QED BY <1>3, <2>1, <3>1, <3>3 DEF DetailCloses
    <2>2. \A s \in pending' : s.kind = "detail" => s.mode = currentMode
        BY <1>1, <1>9, <2>1
    <2> QED BY <1>8, <2>2 DEF DetailCloses
<1> QED BY <1>4, <1>6, <1>10, <1>13, <1>14 DEF PatientInv

LEMMA ClickPatient == ASSUME PatientInv, ClickCard \/ CloseDetail PROVE PatientInv'
<1>1. TypeOK /\ Numbered /\ PanesFollow /\ OneResourceRequest /\ PanelFollows /\ DetailCloses
    BY DEF PatientInv
<1>2. TypeOK'
    BY <1>1, TypeStep DEF Next
<1>3. CASE CloseDetail
    <2>1. Numbered' /\ PanesFollow' /\ OneResourceRequest' /\ PanelFollows'
        BY <1>1, <1>3 DEF CloseDetail, Numbered, PanesFollow, OneResourceRequest, PanelFollows,
                          panes
    <2>2. DetailCloses'
        BY <1>1, <1>3 DEF CloseDetail, DetailCloses
    <2> QED BY <1>2, <2>1, <2>2 DEF PatientInv
<1>4. CASE ClickCard
    <2> USE <1>4 DEF ClickCard
    <2> DEFINE q == Request(nextId, "detail", currentMode)
    <2>1. q.id = nextId /\ q.kind = "detail" /\ q.mode = currentMode
        BY Fields
    <2>2. pending' = pending \union {q}
        OBVIOUS
    <2> HIDE DEF q
    <2>3. nextId \in Nat /\ \A r \in pending : r.id \in Nat
        BY <1>1 DEF TypeOK, Requests
    <2>4. Numbered'
        <3> DEFINE N == {q}
        <3>1. /\ \A r \in pending' : r \in pending \/ r \in N
              /\ \A r \in N : r.id \in Nat /\ nextId <= r.id /\ r.id < nextId'
              /\ \A r, t \in N : r.id = t.id => r = t
            BY <2>1, <2>2, <2>3
        <3>2. nextId' \in Nat /\ nextId <= nextId'
            BY <2>3
        <3> HIDE DEF N
        <3> QED BY <1>1, <3>1, <3>2, NumberedStep
    <2>5. \A r \in pending' : r \in pending \/ r = q
        BY <2>2
    <2>6. PanesFollow'
        <3>1. q.kind \notin MapKinds /\ q.kind \notin AllListKinds /\ q.kind \notin CardKinds
            BY <2>1 DEF MapKinds, AllListKinds, StationKinds, ListKinds, CardKinds
        <3>2. ASSUME NEW kinds, q.kind \notin kinds, NEW v,
                     Follows(pending, kinds, v, currentMode)
              PROVE  Follows(pending', kinds, v, currentMode)
            <4>1. /\ \A s \in pending : s.kind \in kinds => s \in pending'
                  /\ \A s \in pending' : s.kind \in kinds => s \in pending
                BY <2>2, <2>5, <3>2
            <4> QED BY <3>2, <4>1, FollowsSame
        <3>3. /\ Follows(pending', MapKinds, map, currentMode)
              /\ Follows(pending', AllListKinds, list, currentMode)
              /\ boot = "done" => Follows(pending', CardKinds, card, currentMode)
            BY <1>1, <3>1, <3>2 DEF PanesFollow
        <3> QED BY <1>1, <3>3 DEF PanesFollow, panes
    <2>7. OneResourceRequest' /\ PanelFollows'
        BY <1>1, <2>1, <2>2, <2>5 DEF OneResourceRequest, PanelFollows, ResourceKinds
    <2>8. DetailCloses'
        BY <1>1, <2>1, <2>2, <2>5 DEF DetailCloses
    <2> QED BY <1>2, <2>4, <2>6, <2>7, <2>8 DEF PatientInv
<1> QED BY <1>3, <1>4

LEMMA PatientStep == ASSUME Orderly PROVE PatientInv /\ [Next]_vars => PatientInv'
<1> SUFFICES ASSUME PatientInv, [Next]_vars PROVE PatientInv'
    OBVIOUS
<1>1. CASE UNCHANGED vars
    BY <1>1 DEF PatientInv, TypeOK, Numbered, PanesFollow, OneResourceRequest, PanelFollows,
                DetailCloses, vars, panes, bounds
<1>2. CASE StartPanes \/ StartCards \/ ClickCard \/ CloseDetail
    BY <1>2, StartPanesPatient, StartCardsPatient, ClickPatient
<1>3. ASSUME NEW m \in Modes, SwitchMode(m) PROVE PatientInv'
    BY <1>3, SwitchModePatient
<1>4. ASSUME NEW r \in pending,
             \/ InitialResources(r) \/ FinishSwitch(r) \/ ShowStations(r) \/ ShowMap(r)
             \/ ShowList(r) \/ ShowCards(r) \/ ShowDetail(r)
      PROVE  PatientInv'
    BY <1>4, InitialPatient, FinishSwitchPatient, ShowPatient
<1> QED BY <1>1, <1>2, <1>3, <1>4 DEF Next

\* A user who waits for each switch, and answers that come in order and do not
\* fail: once all is answered the buttons, the map, the list, the cards and the
\* panel show one mode (switchMode and the requests that it causes).
THEOREM PanesAgree == ASSUME Orderly PROVE Spec => []SettledPanesAgree
<1>1. PatientInv => SettledPanesAgree
    BY DEF PatientInv, PanesFollow, PanelFollows, Follows, SettledPanesAgree, Settled
<1>2. PatientInv /\ [Next]_vars => PatientInv'
    BY PatientStep
<1> QED BY <1>1, <1>2, InitPatient, PTL DEF Spec

\* For the same user no detail view of another mode is open in the end, not even
\* one that was requested before the switch.
THEOREM DetailAgrees == ASSUME Orderly PROVE Spec => []DetailFollowsMode
<1>1. PatientInv => DetailFollowsMode
    BY DEF PatientInv, DetailCloses, DetailFollowsMode, Settled
<1>2. PatientInv /\ [Next]_vars => PatientInv'
    BY PatientStep
<1> QED BY <1>1, <1>2, InitPatient, PTL DEF Spec

-----------------------------------------------------------------------------
\* The resource panel of a user who waits: it needs no order of the answers,
\* since there is one request for resources at a time.
Waiting == Patience = 2 /\ ~MayRefuse

WaitingInv == TypeOK /\ OneResourceRequest /\ PanelFollows

\* Steps that neither send nor end a request for resources.
LEMMA OtherRequests ==
    ASSUME WaitingInv, NEW new, new.kind \notin ResourceKinds,
           \A r \in pending' : r \in pending \/ r = new,
           \A r \in pending : r.kind \in ResourceKinds => r \in pending',
           boot' = boot \/ (boot = "panes" /\ boot' = "done"),
           UNCHANGED <<currentMode, latestUpdateSeq, panel>>
    PROVE  OneResourceRequest' /\ PanelFollows'
<1>1. OneResourceRequest /\ PanelFollows
    BY DEF WaitingInv
<1>2. \A r \in pending' : r.kind \in ResourceKinds => r \in pending
    OBVIOUS
<1>3. OneResourceRequest'
    BY <1>1, <1>2 DEF OneResourceRequest
<1>4. PanelFollows'
    BY <1>1, <1>2 DEF PanelFollows
<1> QED BY <1>3, <1>4

\* A request for resources is sent when there is none, for the mode of the page.
LEMMA RequestSent ==
    ASSUME \A r \in pending : r.kind \notin ResourceKinds,
           NEW q, NEW s, pending' = pending \union {q, s},
           q.kind \in ResourceKinds, s.kind \notin ResourceKinds,
           q.mode = currentMode', q.seq = latestUpdateSeq',
           boot' # "map", q.kind = "switch" => boot' = "done",
           boot' # "done" => currentMode' = FirstMode
    PROVE  OneResourceRequest' /\ PanelFollows'
<1>1. \A r \in pending' : r.kind \in ResourceKinds => r = q
    OBVIOUS
<1>2. q \in pending'
    OBVIOUS
<1>3. OneResourceRequest'
    BY <1>1 DEF OneResourceRequest
<1>4. PanelFollows'
    BY <1>2 DEF PanelFollows
<1> QED BY <1>3, <1>4

\* Its answer is never dropped and leaves the panel in the mode of the page.
LEMMA ResourcesAnswered ==
    ASSUME Waiting, WaitingInv, NEW r \in pending, r.kind \in ResourceKinds, UpdatePanel(r),
           \A s \in pending' : (s \in pending /\ s # r) \/ s.kind \notin ResourceKinds,
           currentMode' \in {currentMode, r.mode}, UNCHANGED boot
    PROVE  OneResourceRequest' /\ PanelFollows'
<1>1. r.seq = latestUpdateSeq /\ r.mode = currentMode
    BY DEF WaitingInv, OneResourceRequest
<1>2. panel' = [mode |-> r.mode, seq |-> r.seq]
    BY <1>1 DEF UpdatePanel, Waiting
<1>3. \A s \in pending' : s.kind \notin ResourceKinds
    BY DEF WaitingInv, OneResourceRequest
<1>4. OneResourceRequest'
    BY <1>3 DEF OneResourceRequest
<1>5. PanelFollows'
    BY <1>1, <1>2 DEF WaitingInv, PanelFollows
<1> QED BY <1>4, <1>5

LEMMA WaitingStep == ASSUME Waiting PROVE WaitingInv /\ [Next]_vars => WaitingInv'
<1> SUFFICES ASSUME WaitingInv, [Next]_vars PROVE WaitingInv'
    OBVIOUS
<1>1. CASE UNCHANGED vars
    BY <1>1 DEF WaitingInv, TypeOK, OneResourceRequest, PanelFollows, vars, panes, bounds
<1>2. SUFFICES ASSUME Next PROVE OneResourceRequest' /\ PanelFollows'
    BY <1>1, TypeStep DEF WaitingInv
<1>3. CASE StartPanes
    <2> USE <1>3 DEF StartPanes
    <2> DEFINE q == ResourceRequest(nextId, "initial", FirstMode, latestUpdateSeq + 1)
               s == Request(nextId + 1, "firstList", currentMode)
    <2>1. /\ q.kind = "initial" /\ q.mode = FirstMode /\ q.seq = latestUpdateSeq'
          /\ s.kind = "firstList"
        BY Fields
    <2>2. pending' = pending \union {q, s}
        OBVIOUS
    <2> HIDE DEF q, s
    <2>3. \A r \in pending : r.kind \notin ResourceKinds
        BY DEF WaitingInv, OneResourceRequest
    <2>4. currentMode' = FirstMode /\ boot' = "panes"
        BY DEF WaitingInv, PanelFollows
    <2> QED BY <2>1, <2>2, <2>3, <2>4, RequestSent DEF ResourceKinds
<1>4. CASE StartCards
    <2> USE <1>4 DEF StartCards
    <2> DEFINE q == Request(nextId, "card", chosen)
    <2>1. q.kind \notin ResourceKinds
        BY Fields DEF ResourceKinds
    <2>2. pending' = pending \union {q}
        OBVIOUS
    <2> HIDE DEF q
    <2> QED BY <2>1, <2>2, OtherRequests
<1>5. ASSUME NEW m \in Modes, SwitchMode(m) PROVE OneResourceRequest' /\ PanelFollows'
    <2> USE <1>5 DEF SwitchMode
    <2> DEFINE q == ResourceRequest(nextId + 1, "switch", m, latestUpdateSeq + 1)
               s == Request(nextId, "stations", m)
    <2>1. /\ q.kind = "switch" /\ q.mode = m /\ q.seq = latestUpdateSeq'
          /\ s.kind = "stations"
        BY Fields
    <2>2. pending' = pending \union {q, s}
        OBVIOUS
    <2> HIDE DEF q, s
    <2>3. boot' = "done" /\ \A r \in pending : r.kind \notin ResourceKinds
        BY DEF UserWaits, Waiting, ResourceKinds
    <2>4. currentMode' = m
        OBVIOUS
    <2> QED BY <2>1, <2>2, <2>3, <2>4, RequestSent DEF ResourceKinds
<1>6. ASSUME NEW r \in pending, InitialResources(r)
      PROVE  OneResourceRequest' /\ PanelFollows'
    <2>1. r.kind \in ResourceKinds /\ UpdatePanel(r) /\ pending' = pending \ {r}
          /\ UNCHANGED <<boot, currentMode>>
        BY <1>6 DEF InitialResources, ResourceKinds
    <2> QED BY <2>1, ResourcesAnswered
<1>7. ASSUME NEW r \in pending, FinishSwitch(r) PROVE OneResourceRequest' /\ PanelFollows'
    <2> USE <1>7 DEF FinishSwitch
    <2> DEFINE N == {Request(nextId, "list", currentMode), Request(nextId + 1, "card", r.mode),
                     Request(nextId + 2, "map", r.mode)}
    <2>1. \A s \in N : s.kind \notin ResourceKinds
        BY Fields DEF ResourceKinds
    <2>2. pending' = (pending \ {r}) \union N
        OBVIOUS
    <2> HIDE DEF N
    <2>3. r.kind \in ResourceKinds /\ UpdatePanel(r) /\ currentMode' = r.mode /\ boot' = boot
        BY DEF ResourceKinds
    <2> QED BY <2>1, <2>2, <2>3, ResourcesAnswered
<1>8. ASSUME NEW r \in pending,
             ShowStations(r) \/ ShowMap(r) \/ ShowList(r) \/ ShowCards(r) \/ ShowDetail(r)
      PROVE  OneResourceRequest' /\ PanelFollows'
    <2>1. r.kind \notin ResourceKinds /\ pending' = pending \ {r}
          /\ UNCHANGED <<boot, currentMode, latestUpdateSeq, panel>>
        BY <1>8 DEF ShowStations, ShowMap, ShowList, ShowCards, ShowDetail, ResourceKinds,
                    StationKinds, ListKinds
    <2> QED BY <2>1, OtherRequests
<1>9. CASE ClickCard
    <2> USE <1>9 DEF ClickCard
    <2> DEFINE q == Request(nextId, "detail", currentMode)
    <2>1. q.kind \notin ResourceKinds
        BY Fields DEF ResourceKinds
    <2>2. pending' = pending \union {q}
        OBVIOUS
    <2> HIDE DEF q
    <2> QED BY <2>1, <2>2, OtherRequests
<1>10. CASE CloseDetail
    BY <1>10 DEF CloseDetail, WaitingInv, OneResourceRequest, PanelFollows
<1> QED BY <1>2, <1>3, <1>4, <1>5, <1>6, <1>7, <1>8, <1>9, <1>10 DEF Next

\* For a user who waits for each switch, and requests that are not refused, the
\* panel ends in the mode of the page however late and in whatever order the
\* other answers come (updateResourcesForMode): the check of the request number
\* drops the last answer only when a switch overlaps another.
THEOREM PanelAgrees == ASSUME Waiting PROVE Spec => []PanelFollowsMode
<1>1. Init => WaitingInv
    BY InitPatient DEF PatientInv, WaitingInv
<1>2. WaitingInv => PanelFollowsMode
    BY DEF WaitingInv, PanelFollows, PanelFollowsMode, Settled
<1>3. WaitingInv /\ [Next]_vars => WaitingInv'
    BY WaitingStep
<1> QED BY <1>1, <1>2, <1>3, PTL DEF Spec
=============================================================================
