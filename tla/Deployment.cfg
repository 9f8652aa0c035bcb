CHECK_DEADLOCK FALSE
SPECIFICATION Spec
CONSTANTS
    Containers = {c1, c2}
    Refunds = {a1, a2}
    OrderTotal = 1
    Messages = {m1}
    Stock = 1
    MaxDowngrades = 1
    MaxDeaths = 1
INVARIANTS
    ServesAtHead
    SeededOnce
    NothingTwice
PROPERTIES
    OnlyDowngradesForget
    EachServes
