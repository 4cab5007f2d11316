-------------------------- MODULE MCCurrentAccount --------------------------
(***************************************************************************)
(* Instances of CurrentAccount for TLC.                                    *)
(***************************************************************************)
EXTENDS CurrentAccount, TLC

CONSTANTS j1, j2, w1, w2, r1, r2, brl, gold

\* Workers and request ids are interchangeable; so are Journeys.
Symmetry ==
    Permutations(Workers) \cup Permutations(RequestIds) \cup Permutations(Journeys)

\* Settling and closing, with what can come in between.
SettlingOperations ==
    AllOperations \ {"ReverseEntry", "ReplaceEntry", "PrintReceipt",
                     "ReturnReceipt", "AcceptReceipt"}

\* Correcting and receipting what earnings and final payments post.
CorrectingOperations ==
    FinalOps \cup {"ReverseEntry", "ReplaceEntry", "PrintReceipt",
                   "ReturnReceipt", "AcceptReceipt", "CalculateAccruals",
                   "PostRun"}

\* Two payouts from what has been earned.
PayingOperations == {"PartialPayout", "CalculateAccruals", "PostRun"}

\* A closure against the postings that bring a balance back to zero.
ClosingOperations ==
    {"CloseJourney", "FinalTenantPayment", "CalculateAccruals", "PostRun"}
=============================================================================
