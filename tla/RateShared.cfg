\* Two processes on one table; a unit of time is the window.
SPECIFICATION Spec
CONSTANTS
    k1 = k1
    k2 = k2
    Key <- Keys
    Process = {p1, p2}
    Window = 1
    MaxPerHour <- Limits
    MaxTime = 3
    MaxGrants = 6
INVARIANT
    WindowHolds
