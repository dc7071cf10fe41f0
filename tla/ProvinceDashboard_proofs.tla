---------------------- MODULE ProvinceDashboard_proofs ----------------------
(***************************************************************************)
(* The start page for any provinces, any rows and any number of clicks: no *)
(* timer is lost, one province is highlighted, the panels agree on one in  *)
(* whatever order answers come and follow the selection once its answer is *)
(* the last, and a pause is cut short only by the end of loading.          *)
(***************************************************************************)
EXTENDS ProvinceDashboard, TLAPS

-----------------------------------------------------------------------------
\* The radar's scale.
LEMMA HigherType == ASSUME NEW a \in Nat, NEW b \in Nat
                    PROVE  Higher(a, b) \in Nat /\ Higher(a, b) >= a /\ Higher(a, b) >= b
BY DEF Higher

LEMMA RoomAbove ==
    ASSUME NEW worst \in Nat
    PROVE  IndicatorMax(worst) \in Nat /\ worst < IndicatorMax(worst)
<1> DEFINE h == Higher(worst, 100)
           padded == h * 125
<1>1. h \in Nat /\ h >= worst /\ h >= 100
    BY HigherType
<1> HIDE DEF h
<1>2. padded \in Nat /\ padded >= 12500 /\ 100 * worst < padded - 500
    BY <1>1
<1> HIDE DEF padded
<1>3. ((padded + 9999) \div 10000) * 100 \in Nat /\ worst < ((padded + 9999) \div 10000) * 100
    BY <1>2
<1>4. ((padded + 500) \div 1000) * 10 \in Nat /\ worst < ((padded + 500) \div 1000) * 10
    BY <1>2
<1> QED BY <1>3, <1>4 DEF IndicatorMax, padded, h

-----------------------------------------------------------------------------
\* The parts of the invariant, by what disturbs them.
LoadTypes ==
    /\ phase \in {"list", "search", "wait", "done", "failed"}
    /\ index \in 0 .. Len(Districts)
    /\ loadedProvinces \in Seq(Provinces)

TurnTypes ==
    /\ provinceCarouselList \in Seq(Provinces)
    /\ provinceCarouselIndex \in Nat

TimerTypes ==
    /\ provinceCarouselTimer \in TimerIds \union {Null}
    /\ provinceCarouselResumeTimer \in TimerIds \union {Null}
    /\ intervals \subseteq TimerIds /\ timeouts \subseteq TimerIds

MapTypes ==
    /\ selectedProvinceAdcode \in Provinces \union {Null}
    /\ style \in [Provinces -> {"none", "default", "hover", "selected"}]
    /\ mouse \in Provinces \union {Null}
    /\ pending \in Seq(Provinces)

PanelTypes ==
    /\ pie \in [Types -> Owners \union {Null}] /\ cards \in [Types -> Owners]
    /\ axis \in Owners /\ lines \in [Series -> Owners]
    /\ radar \in [of : Owners, worst : Nat, max : Nat]
    /\ projects \in Owners /\ noData \in BOOLEAN

HistoryTypes == overtaken \in BOOLEAN /\ clicks \in Nat

TurnInv   == TurnTypes /\ TimerTypes /\ NoLostTimer /\ Turning
MapInv    == MapTypes /\ LoadTypes /\ InProgress /\ OneHighlight
AnswerInv ==
    /\ PanelTypes /\ HistoryTypes
    /\ LastIsSelected /\ PanelsAgree /\ PanelsFollowSelection
    /\ RadarLeavesRoom

LEMMA IInvParts == IInv => TurnInv /\ MapInv /\ AnswerInv
BY DEF IInv, TypeOK, TurnInv, MapInv, AnswerInv, LoadTypes, TurnTypes, TimerTypes, MapTypes,
       PanelTypes, HistoryTypes

LEMMA IInvPartsNext == ASSUME TurnInv', MapInv', AnswerInv' PROVE IInv'
BY DEF IInv, TypeOK, TurnInv, MapInv, AnswerInv, LoadTypes, TurnTypes, TimerTypes, MapTypes,
       PanelTypes, HistoryTypes

LEMMA InitIInv == Init => IInv
<1> SUFFICES ASSUME Init PROVE IInv
    OBVIOUS
<1> USE DEF Init
<1>1. TypeOK
    <2>1. <<>> \in Seq(Provinces) /\ Len(Districts) \in Nat /\ Demo \in Owners
        BY ProvinceAssumption DEF Owners
    <2>2. LoadTypes
        BY <2>1 DEF LoadTypes
    <2>3. TurnTypes /\ TimerTypes
        BY <2>1 DEF TurnTypes, TimerTypes
    <2>4. MapTypes
        BY <2>1 DEF MapTypes
    <2>5. radar \in [of : Owners, worst : Nat, max : Nat]
        BY <2>1
    <2>6. PanelTypes
        <3>1. [t \in Types |-> Demo] \in [Types -> Owners]
            BY <2>1
        <3>2. pie \in [Types -> Owners \union {Null}] /\ cards \in [Types -> Owners]
            BY <2>1, <3>1
        <3>3. lines \in [Series -> Owners]
            BY <2>1
        <3>4. noData \in BOOLEAN
            OBVIOUS
        <3>5. axis \in Owners /\ projects \in Owners
            BY <2>1
        <3> QED BY <2>5, <3>2, <3>3, <3>4, <3>5 DEF PanelTypes
    <2>7. HistoryTypes
        BY DEF HistoryTypes
    <2> HIDE DEF Init
    <2> QED BY <2>2, <2>3, <2>4, <2>6, <2>7 DEF TypeOK, LoadTypes, TurnTypes, TimerTypes, MapTypes,
                                               PanelTypes, HistoryTypes
<1>2. NoLostTimer /\ Turning /\ InProgress /\ OneHighlight
    BY ProvinceAssumption DEF NoLostTimer, Turning, InProgress, OneHighlight, Drawn
<1>3. LastIsSelected /\ PanelsFollowSelection /\ RadarLeavesRoom
    BY DEF LastIsSelected, PanelsFollowSelection, RadarLeavesRoom
<1>4. PanelsAgree
    BY DEF PanelsAgree
<1> QED BY <1>1, <1>2, <1>3, <1>4 DEF IInv

-----------------------------------------------------------------------------
\* The timers.
LEMMA FreshIsId == Fresh({}) \in TimerIds
BY ProvinceAssumption DEF Fresh

LEMMA NoneLeft ==
    ASSUME TurnInv
    PROVE  intervals \ {provinceCarouselTimer} = {} /\ timeouts \ {provinceCarouselResumeTimer} = {}
BY DEF TurnInv, NoLostTimer

LEMMA IndexRange ==
    ASSUME NEW list \in Seq(Provinces), NEW p
    PROVE  /\ IndexOf(p, list) \in Int
           /\ IndexOf(p, list) >= 0 => IndexOf(p, list) \in Nat /\ IndexOf(p, list) < Len(list)
<1>1. CASE \E i \in DOMAIN list : list[i] = p
    <2> DEFINE k == CHOOSE i \in DOMAIN list : list[i] = p
    <2>1. k \in DOMAIN list
        BY <1>1
    <2>2. k \in Nat /\ 1 <= k /\ k <= Len(list)
        BY <2>1
    <2>3. IndexOf(p, list) = k - 1
        BY <1>1 DEF IndexOf
    <2> HIDE DEF k
    <2> QED BY <2>2, <2>3
<1>2. CASE ~\E i \in DOMAIN list : list[i] = p
    BY <1>2 DEF IndexOf
<1> QED BY <1>1, <1>2

\* What startProvinceCarousel does to the carousel, with the timeouts left to
\* its caller.
LEMMA StartTurns ==
    ASSUME TurnInv, NEW list \in Seq(Provinces), StartProvinceCarousel(list),
           selectedProvinceAdcode \in Provinces \union {Null},
           UNCHANGED provinceCarouselResumeTimer, timeouts' \subseteq timeouts
    PROVE  TurnInv'
<1>1. CASE list = <<>>
    BY <1>1 DEF StartProvinceCarousel, TurnInv, TurnTypes, TimerTypes, NoLostTimer, Turning, turnVars
<1>2. CASE list # <<>>
    <2>1. provinceCarouselList' = list /\ RestartInterval
        BY <1>2 DEF StartProvinceCarousel
    <2>2. provinceCarouselTimer' = Fresh({}) /\ intervals' = {Fresh({})}
        BY <2>1, NoneLeft DEF RestartInterval, StartInterval
    <2>3. NoLostTimer' /\ TimerTypes'
        BY <2>2, FreshIsId, ProvinceAssumption DEF TurnInv, NoLostTimer, TimerTypes
    <2>4. Len(list) \in Nat /\ 0 < Len(list)
        BY <1>2
    <2>5. provinceCarouselIndex' \in Nat /\ provinceCarouselIndex' < Len(list)
        <3> DEFINE i == IndexOf(selectedProvinceAdcode, list)
        <3>1. provinceCarouselIndex' = 0 \/ (i >= 0 /\ provinceCarouselIndex' = i)
            BY <1>2 DEF StartProvinceCarousel
        <3> QED BY <2>4, <3>1, IndexRange
    <2> QED BY <2>1, <2>3, <2>5 DEF TurnInv, TurnTypes, Turning
<1> QED BY <1>1, <1>2

LEMMA PauseTurns ==
    ASSUME TurnInv, PauseProvinceCarousel, UNCHANGED provinceCarouselList,
           \/ UNCHANGED provinceCarouselIndex
           \/ /\ provinceCarouselIndex' \in Nat
              /\ provinceCarouselIndex' < Len(provinceCarouselList)
    PROVE  TurnInv'
<1>1. /\ provinceCarouselTimer' = Null /\ intervals' = {}
      /\ provinceCarouselResumeTimer' = Fresh({}) /\ timeouts' = {Fresh({})}
    BY NoneLeft DEF PauseProvinceCarousel
<1>2. NoLostTimer' /\ TimerTypes'
    BY <1>1, FreshIsId DEF NoLostTimer, TimerTypes
<1>3. TurnTypes' /\ Turning'
    BY <1>1 DEF TurnInv, TurnTypes, Turning
<1> QED BY <1>2, <1>3 DEF TurnInv

LEMMA SameTurns ==
    ASSUME TurnInv, UNCHANGED <<turnVars, timerVars>> PROVE TurnInv'
BY DEF TurnInv, TurnTypes, TimerTypes, NoLostTimer, Turning, turnVars, timerVars

-----------------------------------------------------------------------------
\* The map.
LEMMA SelectMaps ==
    ASSUME MapInv, NEW p \in Provinces, Drawn(p), SelectProvince(p), UNCHANGED mouse,
           UNCHANGED <<loadedProvinces, index>>, phase' = phase \/ phase' = "done",
           provinceCarouselList' \in Seq(Provinces),
           \A i \in DOMAIN provinceCarouselList' : Drawn(provinceCarouselList'[i])
    PROVE  MapInv'
<1> DEFINE old == selectedProvinceAdcode
           plain == IF old # Null /\ old # p THEN Styled(old, "default", style) ELSE style
<1>1. /\ MapTypes /\ LoadTypes /\ InProgress /\ OneHighlight
    BY DEF MapInv
<1>2. /\ style' = Styled(p, "selected", plain) /\ selectedProvinceAdcode' = p
      /\ pending' = Append(pending, p)
    BY DEF SelectProvince, Request
<1>3. plain \in [Provinces -> {"none", "default", "hover", "selected"}]
    BY <1>1 DEF MapTypes, Styled
<1>4. \A q \in Provinces : /\ plain[q] = "none" <=> style[q] = "none"
                           /\ plain[q] = "selected" => q = p
    BY <1>1, ProvinceAssumption DEF MapTypes, Styled, Drawn, OneHighlight
<1> HIDE DEF plain
<1>5. style' = [plain EXCEPT ![p] = "selected"]
    BY <1>2 DEF Styled
<1>6. style' \in [Provinces -> {"none", "default", "hover", "selected"}]
    BY <1>3, <1>5
<1>7. \A q \in Provinces : /\ style'[q] = "none" <=> style[q] = "none"
                           /\ style'[q] = "selected" <=> q = p
    BY <1>3, <1>4, <1>5 DEF Drawn
<1>8. MapTypes'
    BY <1>1, <1>2, <1>6 DEF MapTypes
<1>9. OneHighlight'
    BY <1>2, <1>7 DEF OneHighlight
<1>10. LoadTypes'
    BY <1>1 DEF LoadTypes
<1>11. InProgress'
    <2>1. \A q \in Provinces : style'[q] # "none" <=> style[q] # "none"
        BY <1>7
    <2>2. /\ \A i \in DOMAIN Districts : Districts[i] \in Provinces
          /\ \A i \in DOMAIN loadedProvinces : loadedProvinces[i] \in Provinces
          /\ \A i \in DOMAIN provinceCarouselList' : provinceCarouselList'[i] \in Provinces
        BY <1>1, ProvinceAssumption DEF LoadTypes
    <2>3. mouse # Null => mouse \in Provinces
        BY <1>1 DEF MapTypes
    <2>4. phase' = "search" => index' < Len(Districts)
        BY <1>1 DEF InProgress
    <2> QED BY <1>1, <2>1, <2>2, <2>3, <2>4 DEF InProgress, Drawn
<1> QED BY <1>8, <1>9, <1>10, <1>11 DEF MapInv

\* Steps that change at most the pending requests.
LEMMA SameMap ==
    ASSUME MapInv, UNCHANGED <<loadVars, provinceCarouselList, selectedProvinceAdcode, style, mouse>>,
           pending' \in Seq(Provinces)
    PROVE  MapInv'
<1> USE DEF MapInv, loadVars
<1>1. MapTypes' /\ LoadTypes' /\ OneHighlight'
    BY DEF MapTypes, LoadTypes, OneHighlight
<1>2. InProgress'
    BY DEF InProgress, Drawn
<1> QED BY <1>1, <1>2

\* The mouse styles a province as what it is.
LEMMA HoverMaps ==
    ASSUME MapInv, NEW p \in Provinces, Drawn(p), NEW plain \in {"default", "hover"},
           style' = [style EXCEPT ![p] = IF p = selectedProvinceAdcode THEN "selected" ELSE plain],
           mouse' \in {p, Null},
           UNCHANGED <<loadVars, provinceCarouselList, selectedProvinceAdcode, pending>>
    PROVE  MapInv'
<1>1. /\ MapTypes /\ LoadTypes /\ InProgress /\ OneHighlight
    BY DEF MapInv
<1>2. \A q \in Provinces : style'[q] # "none" <=> style[q] # "none"
    BY <1>1 DEF MapTypes, Drawn
<1>3. MapTypes' /\ LoadTypes'
    BY <1>1 DEF MapTypes, LoadTypes, loadVars
<1>4. OneHighlight'
    BY <1>1 DEF MapTypes, OneHighlight
<1>5. InProgress'
    <2>1. /\ \A i \in DOMAIN Districts : Districts[i] \in Provinces
          /\ \A i \in DOMAIN loadedProvinces : loadedProvinces[i] \in Provinces
        BY <1>1, ProvinceAssumption DEF LoadTypes
    <2>2. \A i \in DOMAIN provinceCarouselList :
              style[provinceCarouselList[i]] # "none" => style'[provinceCarouselList[i]] # "none"
        BY <1>1 DEF MapTypes
    <2> QED BY <1>1, <1>2, <2>1, <2>2 DEF InProgress, Drawn, loadVars
<1> QED BY <1>3, <1>4, <1>5 DEF MapInv

LEMMA DrawStep ==
    ASSUME IInv, DrawProvince
    PROVE  IInv'
<1> DEFINE p == Districts[index + 1]
<1>1. TurnInv /\ MapInv /\ AnswerInv
    BY IInvParts
<1>2. TurnInv'
    BY <1>1, SameTurns DEF DrawProvince
<1>3. AnswerInv'
    BY <1>1 DEF DrawProvince, panelVars, AnswerInv, PanelTypes, HistoryTypes, LastIsSelected,
               PanelsAgree, PanelsFollowSelection, ShowsRowsOf, RadarLeavesRoom
<1>4. /\ MapTypes /\ LoadTypes /\ InProgress /\ OneHighlight
    BY <1>1 DEF MapInv
<1>5. /\ index \in Nat /\ index + 1 \in DOMAIN Districts /\ p \in Provinces /\ ~Drawn(p)
      /\ index + 1 \in 0 .. Len(Districts)
    <2>1. Len(Districts) \in Nat /\ index \in Nat /\ index < Len(Districts)
        BY <1>4, ProvinceAssumption DEF DrawProvince, InProgress, LoadTypes
    <2>2. index + 1 \in DOMAIN Districts
        BY <2>1, ProvinceAssumption
    <2> QED BY <1>4, <2>1, <2>2, ProvinceAssumption DEF InProgress
<1>6. CASE UNCHANGED <<style, loadedProvinces>>
    <2>4. MapTypes' /\ OneHighlight'
        BY <1>4, <1>6 DEF DrawProvince, MapTypes, OneHighlight
    <2>5. phase' = "wait" /\ index' = index + 1
        BY DEF DrawProvince
    <2>1. LoadTypes'
        BY <1>4, <1>5, <1>6, <2>5 DEF LoadTypes
    <2>2. \A i \in DOMAIN Districts : i > index' => i > index
        BY <1>5, ProvinceAssumption DEF DrawProvince
    <2>3. InProgress'
        BY <1>4, <1>6, <2>2 DEF DrawProvince, InProgress, Drawn, turnVars
    <2> QED BY <1>2, <1>3, <2>1, <2>3, <2>4, IInvPartsNext DEF MapInv
<1>7. CASE /\ style' = [style EXCEPT ![p] = "default"]
           /\ loadedProvinces' = Append(loadedProvinces, p)
    <2>1. MapTypes'
        BY <1>4, <1>5, <1>7 DEF DrawProvince, MapTypes
    <2>2. LoadTypes'
        BY <1>4, <1>5, <1>7 DEF DrawProvince, LoadTypes
    <2>3. p # selectedProvinceAdcode
        BY <1>4, <1>5 DEF OneHighlight, Drawn
    <2>4. OneHighlight'
        BY <1>4, <1>5, <1>7, <2>3 DEF DrawProvince, OneHighlight, MapTypes
    <2>5. \A q : style[q] # "none" /\ q \in Provinces => style'[q] # "none"
        BY <1>4, <1>7 DEF MapTypes
    <2>6. \A q \in Provinces : q # p => style'[q] = style[q]
        BY <1>4, <1>7 DEF MapTypes
    <2>7. \A i \in DOMAIN Districts : i > index' => i > index /\ Districts[i] # p
        BY <1>5, ProvinceAssumption DEF DrawProvince
    <2>8. \A i \in DOMAIN Districts : i > index' => ~Drawn(Districts[i])'
        BY <1>4, <2>6, <2>7, ProvinceAssumption DEF InProgress, Drawn
    <2>9. \A i \in DOMAIN loadedProvinces' : Drawn(loadedProvinces[i])'
        <3>1. style'[p] = "default"
            BY <1>4, <1>5, <1>7 DEF MapTypes
        <3> SUFFICES ASSUME NEW i \in DOMAIN loadedProvinces'
                     PROVE  style'[loadedProvinces'[i]] # "none"
            BY DEF Drawn
        <3>2. CASE i = Len(loadedProvinces) + 1
            BY <1>4, <1>5, <1>7, <3>1, <3>2 DEF LoadTypes
        <3>3. CASE i # Len(loadedProvinces) + 1
            <4>1. i \in DOMAIN loadedProvinces /\ loadedProvinces'[i] = loadedProvinces[i]
                BY <1>4, <1>5, <1>7, <3>3 DEF LoadTypes
            <4>2. loadedProvinces[i] \in Provinces
                BY <1>4, <4>1 DEF LoadTypes
            <4> QED BY <1>4, <2>5, <4>1, <4>2 DEF InProgress, Drawn
        <3> QED BY <3>2, <3>3
    <2>10. \A i \in DOMAIN provinceCarouselList : provinceCarouselList[i] \in Provinces
        BY <1>1 DEF TurnInv, TurnTypes
    <2>11. InProgress'
        <3>1. phase' = "wait" /\ mouse' = mouse /\ provinceCarouselList' = provinceCarouselList
            BY DEF DrawProvince, turnVars
        <3>2. \A i \in DOMAIN provinceCarouselList' : Drawn(provinceCarouselList[i])'
            BY <1>4, <2>5, <2>10, <3>1 DEF InProgress, Drawn
        <3>3. mouse' # Null => Drawn(mouse)'
            BY <1>4, <2>5, <3>1 DEF InProgress, Drawn, MapTypes
        <3> QED BY <2>8, <2>9, <3>1, <3>2, <3>3 DEF InProgress
    <2> QED BY <1>2, <1>3, <2>1, <2>2, <2>4, <2>11, IInvPartsNext DEF MapInv
<1> QED BY <1>6, <1>7 DEF DrawProvince

-----------------------------------------------------------------------------
\* The panels.
LEMMA WithoutType ==
    ASSUME NEW s \in Seq(Provinces), NEW i \in DOMAIN s
    PROVE  Without(s, i) \in Seq(Provinces)
<1>1. SubSeq(s, 1, i - 1) \in Seq(Provinces) /\ SubSeq(s, i + 1, Len(s)) \in Seq(Provinces)
    <2>1. \A j \in 1 .. i - 1 : s[j] \in Provinces
        OBVIOUS
    <2>2. \A j \in i + 1 .. Len(s) : s[j] \in Provinces
        OBVIOUS
    <2> QED BY <2>1, <2>2
<1> QED BY <1>1 DEF Without

\* An answer to an earlier request leaves the last one where it is.
LEMMA WithoutEarlier ==
    ASSUME NEW s \in Seq(Provinces), NEW i \in DOMAIN s, i < Len(s)
    PROVE  Without(s, i) # <<>> /\ Without(s, i)[Len(Without(s, i))] = s[Len(s)]
<1> DEFINE a == SubSeq(s, 1, i - 1)
           b == SubSeq(s, i + 1, Len(s))
<1>1. i \in Nat /\ i >= 1 /\ Len(s) \in Nat
    OBVIOUS
<1>2. a \in Seq(Provinces)
    <2>1. \A j \in 1 .. i - 1 : s[j] \in Provinces
        OBVIOUS
    <2> QED BY <2>1
<1>3. b \in Seq(Provinces) /\ Len(b) = Len(s) - i
    <2>1. \A j \in i + 1 .. Len(s) : s[j] \in Provinces
        OBVIOUS
    <2> QED BY <1>1, <2>1
<1>4. b[Len(b)] = s[Len(s)]
    BY <1>1, <1>3
<1>5. Len(a) \in Nat /\ Len(b) >= 1
    BY <1>1, <1>2, <1>3
<1> HIDE DEF a, b
<1>6. Len(a \o b) = Len(a) + Len(b) /\ (a \o b)[Len(a) + Len(b)] = b[Len(b)]
    BY <1>2, <1>3, <1>5
<1>7. Without(s, i) = a \o b
    BY DEF Without, a, b
<1> QED BY <1>4, <1>5, <1>6, <1>7

LEMMA SelectAnswers ==
    ASSUME AnswerInv, pending \in Seq(Provinces), NEW p \in Provinces, SelectProvince(p),
           UNCHANGED panelVars, clicks' \in Nat
    PROVE  AnswerInv'
<1>1. pending' = Append(pending, p) /\ selectedProvinceAdcode' = p /\ overtaken' = FALSE
    BY DEF SelectProvince, Request
<1>2. pending' # <<>> /\ pending'[Len(pending')] = p
    BY <1>1
<1>3. PanelTypes' /\ HistoryTypes' /\ RadarLeavesRoom' /\ PanelsAgree'
    BY <1>1 DEF AnswerInv, panelVars, PanelTypes, HistoryTypes, RadarLeavesRoom, PanelsAgree,
                ShowsRowsOf
<1>4. LastIsSelected' /\ PanelsFollowSelection'
    BY <1>1, <1>2 DEF LastIsSelected, PanelsFollowSelection
<1> QED BY <1>3, <1>4 DEF AnswerInv

LEMMA SameAnswers ==
    ASSUME AnswerInv, UNCHANGED <<panelVars, overtaken, pending, selectedProvinceAdcode>>,
           clicks' \in Nat
    PROVE  AnswerInv'
BY DEF AnswerInv, panelVars, PanelTypes, HistoryTypes, LastIsSelected, PanelsAgree,
       PanelsFollowSelection, ShowsRowsOf, RadarLeavesRoom

LEMMA AnswerStep ==
    ASSUME IInv, NEW i, ApplyProvinceData(i) \/ LoadFails(i)
    PROVE  IInv'
<1>1. TurnInv /\ MapInv /\ AnswerInv
    BY IInvParts
<1>2. i \in DOMAIN pending /\ pending' = Without(pending, i) /\ pending \in Seq(Provinces)
    BY <1>1 DEF ApplyProvinceData, LoadFails, Answered, MapInv, MapTypes
<1>3. pending' \in Seq(Provinces)
    BY <1>2, WithoutType
<1>4. TurnInv'
    BY <1>1, SameTurns DEF ApplyProvinceData, LoadFails
<1>5. MapInv'
    BY <1>1, <1>3, SameMap DEF ApplyProvinceData, LoadFails, turnVars
<1>6. /\ PanelTypes /\ HistoryTypes
      /\ LastIsSelected /\ PanelsAgree /\ PanelsFollowSelection
      /\ RadarLeavesRoom
    BY <1>1 DEF AnswerInv
<1>9. ~overtaken => pending[Len(pending)] = selectedProvinceAdcode
    BY <1>2, <1>6 DEF LastIsSelected
<1>10. i \in Nat /\ i >= 1 /\ i <= Len(pending) /\ Len(pending) \in Nat
    BY <1>2
<1>7. CASE LoadFails(i)
    <2>1. PanelTypes' /\ HistoryTypes' /\ RadarLeavesRoom' /\ PanelsAgree'
        BY <1>6, <1>7 DEF LoadFails, panelVars, PanelTypes, HistoryTypes, RadarLeavesRoom,
                          PanelsAgree, ShowsRowsOf
    <2>3. overtaken' = (overtaken \/ i = Len(pending))
          /\ selectedProvinceAdcode' = selectedProvinceAdcode
        BY <1>7 DEF LoadFails
    <2>4. ASSUME ~overtaken'
          PROVE  pending' # <<>> /\ pending'[Len(pending')] = selectedProvinceAdcode
        <3>1. ~overtaken /\ i # Len(pending)
            BY <2>3, <2>4
        <3>2. i < Len(pending)
            BY <1>10, <3>1
        <3> QED BY <1>2, <1>9, <3>1, <3>2, WithoutEarlier
    <2>2. LastIsSelected' /\ PanelsFollowSelection'
        BY <2>3, <2>4 DEF LastIsSelected, PanelsFollowSelection
    <2> QED BY <1>4, <1>5, <2>1, <2>2, IInvPartsNext DEF AnswerInv
<1>8. CASE ApplyProvinceData(i)
    <2> DEFINE p == pending[i]
    <2>1. p \in Provinces /\ p \in Owners
        BY <1>2 DEF Owners
    <2>2. /\ UpdateStationType(p) /\ UpdateFlow(p) /\ UpdateWaterQuality(p) /\ UpdateProjects(p)
          /\ overtaken' = (overtaken \/ (i = Len(pending) /\ i > 1))
          /\ selectedProvinceAdcode' = selectedProvinceAdcode /\ clicks' = clicks
        BY <1>8 DEF ApplyProvinceData
    <2> HIDE DEF p
    <2>3. WorstOf[p] \in Nat
        BY <2>1, RowsAssumption
    <2>4. radar' \in [of : Owners, worst : Nat, max : Nat] /\ radar'.worst < radar'.max
        BY <2>1, <2>2, <2>3, RoomAbove DEF UpdateWaterQuality
    <2>5. pie' \in [Types -> Owners \union {Null}] /\ cards' \in [Types -> Owners]
        BY <1>6, <2>1, <2>2 DEF PanelTypes, UpdateStationType
    <2>6. axis' \in Owners /\ lines' \in [Series -> Owners]
        BY <1>6, <2>1, <2>2 DEF PanelTypes, UpdateFlow
    <2>7. projects' \in Owners
        BY <1>6, <2>1, <2>2 DEF PanelTypes, UpdateProjects
    <2>8. noData' \in BOOLEAN
        BY <1>6, <2>2 DEF PanelTypes, UpdateProjects
    <2>9. PanelTypes' /\ RadarLeavesRoom'
        BY <2>4, <2>5, <2>6, <2>7, <2>8 DEF PanelTypes, RadarLeavesRoom
    <2>10. HistoryTypes'
        BY <1>6, <2>2 DEF HistoryTypes
    <2>11. ASSUME ~overtaken'
           PROVE  /\ pending' # <<>> => pending'[Len(pending')] = selectedProvinceAdcode
                  /\ pending' = <<>> => p = selectedProvinceAdcode
        <3>1. ~overtaken /\ ~(i = Len(pending) /\ i > 1)
            BY <2>2, <2>11
        <3>4. i < Len(pending) \/ (i = 1 /\ Len(pending) = 1)
            BY <1>10, <3>1
        <3>2. CASE i < Len(pending)
            BY <1>2, <1>9, <3>1, <3>2, WithoutEarlier
        <3>3. CASE i = 1 /\ Len(pending) = 1
            <4>1. p = selectedProvinceAdcode
                BY <1>9, <3>1, <3>3 DEF p
            <4>2. pending' = <<>>
                <5>1. SubSeq(pending, 1, 0) = <<>> /\ SubSeq(pending, 2, 1) = <<>>
                    BY <1>2
                <5>2. Without(pending, 1) = SubSeq(pending, 1, 0) \o SubSeq(pending, 2, 1)
                    BY <3>3 DEF Without
                <5>3. <<>> \o <<>> = <<>>
                    OBVIOUS
                <5> QED BY <1>2, <3>3, <5>1, <5>2, <5>3
            <4> QED BY <4>1, <4>2
        <3> QED BY <3>2, <3>3, <3>4
    <2>12. LastIsSelected'
        BY <2>2, <2>11 DEF LastIsSelected
    <2>14. /\ axis' = p /\ radar'.of = p
           /\ TypesOf[p] # {} => pie' = [t \in Types |-> IF t \in TypesOf[p] THEN p ELSE Null]
           /\ \A t \in TypesOf[p] : cards'[t] = p
           /\ \A s \in SeriesOf[p] : lines'[s] = p
           /\ ProjectsOf[p] = "some" => projects' = p
        <3>1. TypesOf[p] \subseteq Types /\ SeriesOf[p] \subseteq Series
            BY <2>1, RowsAssumption
        <3>2. /\ TypesOf[p] # {} =>
                    pie' = [t \in Types |-> IF t \in TypesOf[p] THEN p ELSE Null]
              /\ \A t \in TypesOf[p] : cards'[t] = p
            BY <2>2, <3>1 DEF UpdateStationType
        <3>3. axis' = p /\ \A s \in SeriesOf[p] : lines'[s] = p
            BY <2>2, <3>1 DEF UpdateFlow
        <3>4. radar'.of = p /\ (ProjectsOf[p] = "some" => projects' = p)
            BY <2>2 DEF UpdateWaterQuality, UpdateProjects
        <3> QED BY <3>2, <3>3, <3>4
    <2>15. PanelsAgree'
        <3>1. \A t \in Types : pie'[t] # Null => cards'[t] = pie'[t]
            BY <1>6, <2>2 DEF UpdateStationType, PanelsAgree
        <3> QED BY <2>14, <3>1 DEF PanelsAgree, ShowsRowsOf
    <2>13. PanelsFollowSelection'
        BY <2>2, <2>11, <2>14 DEF PanelsFollowSelection, ShowsRowsOf
    <2> QED BY <1>4, <1>5, <2>9, <2>10, <2>12, <2>13, <2>15, IInvPartsNext
           DEF AnswerInv
<1> QED BY <1>7, <1>8

-----------------------------------------------------------------------------
\* Steps of the carousel, the loader and the user.
LEMMA StartStep ==
    ASSUME IInv, NEW list \in Seq(Provinces), \A i \in DOMAIN list : Drawn(list[i]),
           StartProvinceCarousel(list),
           UNCHANGED <<loadedProvinces, index, provinceCarouselResumeTimer, mouse, panelVars,
                       clicks>>,
           phase' = phase \/ phase' = "done", timeouts' \subseteq timeouts
    PROVE  IInv'
<1>1. TurnInv /\ MapInv /\ AnswerInv
    BY IInvParts
<1>2. /\ selectedProvinceAdcode \in Provinces \union {Null} /\ pending \in Seq(Provinces)
      /\ clicks \in Nat /\ provinceCarouselList \in Seq(Provinces)
    BY <1>1 DEF MapInv, MapTypes, AnswerInv, HistoryTypes, TurnInv, TurnTypes
<1>3. TurnInv'
    BY <1>1, <1>2, StartTurns
<1>4. CASE UNCHANGED mapVars
    <2>1. AnswerInv'
        BY <1>1, <1>2, <1>4, SameAnswers DEF mapVars
    <2>2. provinceCarouselList' = provinceCarouselList \/ provinceCarouselList' = list
        BY DEF StartProvinceCarousel, turnVars
    <2>3. MapTypes' /\ OneHighlight'
        BY <1>1, <1>4 DEF MapInv, MapTypes, OneHighlight, mapVars
    <2>4. LoadTypes'
        BY <1>1 DEF MapInv, LoadTypes
    <2>5. InProgress'
        BY <1>1, <1>4, <2>2 DEF MapInv, InProgress, Drawn, mapVars
    <2> QED BY <1>3, <2>1, <2>3, <2>4, <2>5, IInvPartsNext DEF MapInv
<1>5. CASE list # <<>> /\ provinceCarouselList' = list /\ SelectProvince(list[1])
    <2>1. list[1] \in Provinces /\ Drawn(list[1])
        BY <1>5
    <2>2. AnswerInv'
        BY <1>1, <1>2, <1>5, <2>1, SelectAnswers
    <2>3. MapInv'
        BY <1>1, <1>5, <2>1, SelectMaps
    <2> QED BY <1>3, <2>2, <2>3, IInvPartsNext
<1> QED BY <1>4, <1>5 DEF StartProvinceCarousel

LEMMA TurnStep ==
    ASSUME IInv, NEW id, NextProvinceInCarousel(id)
    PROVE  IInv'
<1> DEFINE list == provinceCarouselList
           next == (provinceCarouselIndex + 1) % Len(list)
<1>1. TurnInv /\ MapInv /\ AnswerInv
    BY IInvParts
<1>2. list \in Seq(Provinces) /\ list # <<>> /\ provinceCarouselIndex \in Nat
    BY <1>1 DEF NextProvinceInCarousel, TurnInv, TurnTypes, Turning
<1>3. Len(list) \in Nat /\ Len(list) > 0
    BY <1>2
<1>4. next \in Nat /\ next < Len(list)
    BY <1>2, <1>3
<1>5. list[next + 1] \in Provinces /\ Drawn(list[next + 1])
    <2>1. next + 1 \in DOMAIN list
        BY <1>2, <1>3, <1>4
    <2> QED BY <1>1, <1>2, <2>1 DEF MapInv, InProgress
<1> HIDE DEF next
<1>6. provinceCarouselIndex' = next /\ SelectProvince(list[next + 1])
    BY DEF NextProvinceInCarousel, next
<1>7. TurnInv'
    <2>1. TimerTypes' /\ NoLostTimer'
        BY <1>1 DEF NextProvinceInCarousel, timerVars, TurnInv, TimerTypes, NoLostTimer
    <2>2. TurnTypes' /\ Turning'
        BY <1>1, <1>4, <1>6 DEF NextProvinceInCarousel, timerVars, TurnInv, TurnTypes, Turning
    <2> QED BY <2>1, <2>2 DEF TurnInv
<1>8. MapInv'
    BY <1>1, <1>2, <1>5, <1>6, SelectMaps DEF NextProvinceInCarousel, loadVars, MapInv, InProgress
<1>9. AnswerInv'
    BY <1>1, <1>5, <1>6, SelectAnswers
       DEF NextProvinceInCarousel, MapInv, MapTypes, AnswerInv, HistoryTypes
<1> QED BY <1>7, <1>8, <1>9, IInvPartsNext

LEMMA ResumeStep ==
    ASSUME IInv, NEW id, PauseEnds(id)
    PROVE  IInv'
<1>1. TurnInv /\ MapInv
    BY IInvParts
<1>2. /\ provinceCarouselList \in Seq(Provinces)
      /\ \A i \in DOMAIN provinceCarouselList : Drawn(provinceCarouselList[i])
    BY <1>1 DEF TurnInv, TurnTypes, MapInv, InProgress
<1> QED BY <1>2, StartStep DEF PauseEnds, loadVars

LEMMA LoadStep ==
    ASSUME IInv, Load
    PROVE  IInv'
<1>1. TurnInv /\ MapInv /\ AnswerInv
    BY IInvParts
<1>2. CASE ListAnswered
    <2>1. TurnInv'
        BY <1>1, <1>2, SameTurns DEF ListAnswered
    <2>2. AnswerInv'
        BY <1>1, <1>2, SameAnswers DEF ListAnswered, mapVars, AnswerInv, HistoryTypes
    <2>3. MapTypes' /\ OneHighlight'
        BY <1>1, <1>2 DEF ListAnswered, mapVars, MapInv, MapTypes, OneHighlight
    <2>4. LoadTypes'
        BY <1>1, <1>2 DEF ListAnswered, MapInv, LoadTypes
    <2>5. InProgress'
        BY <1>1, <1>2 DEF ListAnswered, mapVars, turnVars, MapInv, InProgress, Drawn
    <2> QED BY <2>1, <2>2, <2>3, <2>4, <2>5, IInvPartsNext DEF MapInv
<1>3. CASE LoadNextProvince /\ index < Len(Districts)
    <2>1. TurnInv'
        BY <1>1, <1>3, SameTurns DEF LoadNextProvince, timerVars
    <2>2. AnswerInv'
        BY <1>1, <1>3, SameAnswers DEF LoadNextProvince, mapVars, AnswerInv, HistoryTypes
    <2>3. MapTypes' /\ OneHighlight'
        BY <1>1, <1>3 DEF LoadNextProvince, mapVars, MapInv, MapTypes, OneHighlight
    <2>4. LoadTypes'
        BY <1>1, <1>3 DEF LoadNextProvince, MapInv, LoadTypes
    <2>5. InProgress'
        BY <1>1, <1>3 DEF LoadNextProvince, mapVars, turnVars, MapInv, InProgress, Drawn
    <2> QED BY <2>1, <2>2, <2>3, <2>4, <2>5, IInvPartsNext DEF MapInv
<1>4. CASE LoadNextProvince /\ ~(index < Len(Districts))
    <2>1. /\ loadedProvinces \in Seq(Provinces)
          /\ \A i \in DOMAIN loadedProvinces : Drawn(loadedProvinces[i])
        BY <1>1 DEF MapInv, LoadTypes, InProgress
    <2>2. StartProvinceCarousel(loadedProvinces) /\ phase' = "done"
        BY <1>4 DEF LoadNextProvince
    <2>3. UNCHANGED <<loadedProvinces, index, provinceCarouselResumeTimer, mouse, panelVars,
                      clicks, timeouts>>
        BY <1>4 DEF LoadNextProvince
    <2> QED BY <2>1, <2>2, <2>3, StartStep
<1> QED BY <1>2, <1>3, <1>4, DrawStep DEF Load

LEMMA UserStep ==
    ASSUME IInv, User
    PROVE  IInv'
<1>1. TurnInv /\ MapInv /\ AnswerInv
    BY IInvParts
<1>2. /\ clicks \in Nat /\ (mouse # Null => mouse \in Provinces /\ Drawn(mouse))
      /\ pending \in Seq(Provinces) /\ provinceCarouselList \in Seq(Provinces)
      /\ \A i \in DOMAIN provinceCarouselList : Drawn(provinceCarouselList[i])
    BY <1>1 DEF MapInv, MapTypes, InProgress, AnswerInv, HistoryTypes, TurnInv, TurnTypes
<1>3. ASSUME NEW p \in Provinces, EnterProvince(p) PROVE IInv'
    <2>1. TurnInv' /\ AnswerInv'
        BY <1>1, <1>2, <1>3, SameTurns, SameAnswers DEF EnterProvince
    <2>2. MapInv'
        BY <1>1, <1>3, HoverMaps DEF EnterProvince, turnVars
    <2> QED BY <2>1, <2>2, IInvPartsNext
<1>4. CASE LeaveProvince
    <2>1. TurnInv' /\ AnswerInv'
        BY <1>1, <1>2, <1>4, SameTurns, SameAnswers DEF LeaveProvince
    <2>2. MapInv'
        BY <1>1, <1>2, <1>4, HoverMaps DEF LeaveProvince, turnVars
    <2> QED BY <2>1, <2>2, IInvPartsNext
<1>5. CASE ClickProvince
    <2>1. mouse \in Provinces /\ Drawn(mouse) /\ clicks' \in Nat
        BY <1>2, <1>5 DEF ClickProvince, Click
    <2>2. MapInv'
        BY <1>1, <1>2, <1>5, <2>1, SelectMaps DEF ClickProvince, loadVars
    <2>3. AnswerInv'
        BY <1>1, <1>2, <1>5, <2>1, SelectAnswers DEF ClickProvince
    <2>4. \/ UNCHANGED provinceCarouselIndex
          \/ /\ provinceCarouselIndex' \in Nat
             /\ provinceCarouselIndex' < Len(provinceCarouselList)
        BY <1>2, <1>5, IndexRange DEF ClickProvince
    <2>5. TurnInv'
        BY <1>1, <1>5, <2>4, PauseTurns DEF ClickProvince
    <2> QED BY <2>2, <2>3, <2>5, IInvPartsNext
<1>6. CASE ClickMap
    <2>1. clicks' \in Nat
        BY <1>2, <1>6 DEF ClickMap, Click
    <2>2. TurnInv'
        BY <1>1, <1>6, PauseTurns DEF ClickMap, turnVars
    <2>3. AnswerInv'
        BY <1>1, <1>6, <2>1, SameAnswers DEF ClickMap, mapVars
    <2>4. MapInv'
        BY <1>1, <1>2, <1>6, SameMap DEF ClickMap, mapVars, turnVars
    <2> QED BY <2>2, <2>3, <2>4, IInvPartsNext
<1> QED BY <1>3, <1>4, <1>5, <1>6 DEF User

LEMMA StutterStep == IInv /\ UNCHANGED vars => IInv'
<1> SUFFICES ASSUME IInv, UNCHANGED vars PROVE IInv'
    OBVIOUS
<1>1. TurnInv /\ MapInv /\ AnswerInv /\ clicks' = clicks /\ pending' = pending
    BY IInvParts DEF vars, mapVars
<1>2. clicks' \in Nat /\ pending' \in Seq(Provinces)
    BY <1>1 DEF AnswerInv, HistoryTypes, MapInv, MapTypes
<1> QED BY <1>1, <1>2, SameTurns, SameMap, SameAnswers, IInvPartsNext DEF vars, mapVars, turnVars

LEMMA NextStep == IInv /\ [Next]_vars => IInv'
BY LoadStep, TurnStep, ResumeStep, AnswerStep, UserStep, StutterStep
   DEF Next, Turn, Resume, Answers

\* The page's bookkeeping, whatever is clicked and in whatever order the map
\* service and the server answer (index.html, js.js).
THEOREM Invariance == Spec => []IInv
BY InitIInv, NextStep, PTL DEF Spec

\* The browser never runs a timer of the carousel that the page has lost
\* (startProvinceCarousel, stopProvinceCarousel, pauseProvinceCarousel).
THEOREM TimersAreKept == Spec => []NoLostTimer
<1>1. IInv => NoLostTimer
    BY DEF IInv
<1> QED BY <1>1, Invariance, PTL

\* Exactly the province selected is highlighted (selectProvince and the mouse
\* handlers of the polygons).
THEOREM HighlightIsSelection == Spec => []OneHighlight
<1>1. IInv => OneHighlight
    BY DEF IInv
<1> QED BY <1>1, Invariance, PTL

\* In whatever order answers come and whichever fail, the panels agree on one
\* province as far as it has rows, and the cards with the pie in its types
\* (applyProvinceData).
THEOREM PanelsAreOfOneProvince == Spec => []PanelsAgree
<1>1. IInv => PanelsAgree
    BY DEF IInv
<1> QED BY <1>1, Invariance, PTL

\* With no request pending they agree on the province selected, unless the request
\* sent last has failed or was overtaken (selectProvince, loadProvinceData).
THEOREM PanelsFollow == Spec => []PanelsFollowSelection
<1>1. IInv => PanelsFollowSelection
    BY DEF IInv
<1> QED BY <1>1, Invariance, PTL

\* The radar chart has room above its values, for any levels of pollution
\* (updateWaterQuality).
THEOREM RadarHasRoom == Spec => []RadarLeavesRoom
<1>1. IInv => RadarLeavesRoom
    BY DEF IInv
<1> QED BY <1>1, Invariance, PTL

\* A pause lasts until the timeout of the last click, or until loading ends
\* (pauseProvinceCarousel, loadNextProvince).
THEOREM PausesLast == Spec => OnlyLoadingCutsPause
<1> DEFINE Cut == timeouts # {} /\ intervals = {} /\ intervals' # {}
                      => timeouts' = {} \/ (phase = "wait" /\ phase' = "done")
<1>1. IInv /\ [Next]_vars => [Cut]_vars
    <2> SUFFICES ASSUME IInv, Next PROVE Cut
        BY DEF vars
    <2>1. NoLostTimer
        BY DEF IInv
    <2>2. CASE Load
        BY <2>2 DEF Load, ListAnswered, LoadNextProvince, DrawProvince, timerVars
    <2>3. CASE Turn
        BY <2>3 DEF Turn, NextProvinceInCarousel, timerVars
    <2>4. CASE Resume
        BY <2>1, <2>4 DEF Resume, PauseEnds, NoLostTimer
    <2>5. CASE Answers
        BY <2>5 DEF Answers, ApplyProvinceData, LoadFails, timerVars
    <2>6. CASE User
        BY <2>6 DEF User, EnterProvince, LeaveProvince, ClickProvince, ClickMap,
                    PauseProvinceCarousel, timerVars
    <2> QED BY <2>2, <2>3, <2>4, <2>5, <2>6 DEF Next
<1> QED BY <1>1, Invariance, PTL DEF Spec, OnlyLoadingCutsPause
=============================================================================
