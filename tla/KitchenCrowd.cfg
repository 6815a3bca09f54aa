SPECIFICATION Spec
CONSTANTS
    Stations = {s1, s2}
    Cards = {c1}
    NumLanes = 2
    Workers = {w1}
    MaxTaps = 2
    MaxFails = 1
    MaxLoads = 1
SYMMETRY Symmetric
INVARIANTS TypeOK NoTapLost ShownAsLogged
