SPECIFICATION FairSpec
CONSTANTS
    p1 = p1
    p2 = p2
    p3 = p3
    t1 = t1
    t2 = t2
    s1 = s1
    s2 = s2
    Provinces = {p1, p2, p3}
    Districts <- MCDistricts
    Types = {t1, t2}
    Series = {s1, s2}
    TypesOf <- MCTypesOf
    SeriesOf <- MCSeriesOf
    ProjectsOf <- MCProjectsOf
    WorstOf <- MCWorstOf
    Demo = Demo
    Null = Null
    TimerIds = {1, 2, 3, 4}
    MaxClicks = 3
    MaxPending = 3
INVARIANT IInv NoLostTimer OneHighlight PanelsAgree PanelsFollowSelection RadarLeavesRoom
CHECK_DEADLOCK FALSE
PROPERTY CarouselGoesOn OnlyLoadingCutsPause
