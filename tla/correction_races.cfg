CONSTANTS
    j1 = j1
    j2 = j2
    w1 = w1
    w2 = w2
    r1 = r1
    r2 = r2
    brl = brl
    gold = gold
    Journeys = {j1}
    Units = {gold}
    GoldGram = gold
    RequestIds = {r1}
    Workers = {w1, w2}
    Operations <- CorrectingOperations
    ReplacementTypes = {"FINAL_SETTLEMENT"}
    MaxAmount = 2
    MaxTransactions = 3
SPECIFICATION Spec
SYMMETRY Symmetry
INVARIANTS CorrectionsCancel ReceiptObligations ReceiptsDischarged
PROPERTIES DischargeIsFinal LedgerIsImmutable
