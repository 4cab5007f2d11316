----------------------------- MODULE MCExpenses -----------------------------
(***************************************************************************)
(* Instances of Expenses for TLC.                                          *)
(***************************************************************************)
EXTENDS Expenses, TLC

CONSTANTS e1, e2, e3, j1, j2, w1, w2

\* Workers are interchangeable, and so are ids and Journeys.
Symmetry == Permutations(Workers) \cup Permutations(Ids) \cup Permutations(Journeys)

\* Edits of expenses and the closing of Journeys, and nothing else.
Editing == {"Create", "Update", "Cancel", "CloseJourney"}
=============================================================================
