SPECIFICATION HouseSpec
CONSTANTS
    Stations = {s1}
    Cards = {c1}
    NumLanes = 3
    Workers = {w1, w2}
    MaxTaps = 2
    MaxFails = 1
    MaxLoads = 2
PROPERTIES EveryTapSyncs ViewsSettle
