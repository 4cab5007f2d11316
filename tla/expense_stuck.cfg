CONSTANTS
    e1 = e1
    e2 = e2
    e3 = e3
    j1 = j1
    j2 = j2
    w1 = w1
    w2 = w2
    Ids = {e1}
    Journeys = {j1}
    Workers = {w1, w2}
    Operations <- Editing
    MaxAmount = 1
    MaxTime = 4
SPECIFICATION Spec
SYMMETRY Symmetry
PROPERTIES ActiveCanBeCancelled
