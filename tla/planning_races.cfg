SPECIFICATION Spec
CONSTANTS
    c1 = c1
    c2 = c2
    c3 = c3
    Collaborators = {c1, c2, c3}
    NoOne = NoOne
    s1 = s1
    s2 = s2
    Slots = {s1, s2}
    Order <- MCOrder
    Scenarios <- MCScenarios
SYMMETRY SlotSymmetry
INVARIANTS TypeOK EarningPaidOnce PostedMeansPaid QuietIsCurrent OneReplacementPerTarget
PROPERTIES PostedIsKept
CHECK_DEADLOCK FALSE
