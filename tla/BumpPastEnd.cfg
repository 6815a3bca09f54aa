SPECIFICATION Spec
CONSTANTS
    Stations = {s1}
    Cards = {c1}
    NumLanes = 2
    Workers = {w1}
    MaxTaps = 2
    MaxFails = 0
    MaxLoads = 1
PROPERTY EveryTapSyncs
