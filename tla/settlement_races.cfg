CONSTANTS
    j1 = j1
    j2 = j2
    w1 = w1
    w2 = w2
    r1 = r1
    r2 = r2
    brl = brl
    gold = gold
    Journeys = {j1}
    Units = {brl, gold}
    GoldGram = gold
    RequestIds = {r1, r2}
    Workers = {w1, w2}
    Operations <- SettlingOperations
    ReplacementTypes = {"FINAL_SETTLEMENT"}
    MaxAmount = 1
    MaxTransactions = 3
SPECIFICATION Spec
SYMMETRY Symmetry
INVARIANTS TypeOK SettlementsPostOnce ClosedOnce
PROPERTIES ClosesOnlySettled
