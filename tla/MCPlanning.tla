------------------------------ MODULE MCPlanning ------------------------------
(***************************************************************************)
(* Instances of PlanningPage for TLC: three Collaborators, two requests    *)
(* under way at a time.  Each budget is a scenario of its own.             *)
(***************************************************************************)
EXTENDS PlanningPage, TLC

CONSTANTS c1, c2, c3, s1, s2

MCOrder == <<c1, c2, c3>>

Row(planned, away, covers, outcome) ==
    [planned |-> planned, away |-> away, covers |-> covers, outcome |-> outcome]

(* c3 is away and planned; c2 already replaces it, and both outcomes are   *)
(* in; or nobody is planned but c3 is known to be away.                    *)
Covered(outcome) ==
    [c \in {c1, c2, c3} |->
        IF c = c3 THEN Row(TRUE, TRUE, NoOne, outcome)
        ELSE IF c = c2 THEN Row(TRUE, FALSE, c3, "WORKED")
        ELSE NoRow]

Uncovered ==
    [c \in {c1, c2, c3} |->
        IF c = c3 THEN Row(FALSE, TRUE, NoOne, Unmarked) ELSE NoRow]

Nothing == [edits |-> 0, saves |-> 0, faults |-> 0, tabs |-> 0, informs |-> 0,
            refines |-> 0, outcomes |-> 0, creates |-> 0, calculations |-> 0,
            posts |-> 0, elsewhere |-> 0]

(* Planning: edits, and saves that may break off.                          *)
Planning == [Nothing EXCEPT !.edits = 3, !.saves = 2, !.faults = 1]

(* Two operators: runs created and posted by both.                         *)
TwoOperators == [Nothing EXCEPT !.tabs = 1, !.creates = 1, !.posts = 1,
                                !.elsewhere = 2]

(* One operator who recalculates, with a creation that may break off.      *)
Recalculating == [Nothing EXCEPT !.tabs = 1, !.creates = 1, !.posts = 2,
                                 !.calculations = 2, !.faults = 1]

(* Across the tabs: a save, an outcome, the informing of the plan.         *)
Replanning == [Nothing EXCEPT !.tabs = 2, !.edits = 1, !.saves = 1,
                              !.refines = 1, !.outcomes = 1]

Informing == [Nothing EXCEPT !.tabs = 3, !.informs = 1, !.creates = 1,
                             !.posts = 1]

MCScenarios ==
    {[plan |-> Uncovered, budget |-> Planning],
     [plan |-> Covered("SICK_DAY_OFF"), budget |-> TwoOperators],
     [plan |-> Covered("TIME_OFF"), budget |-> Recalculating],
     [plan |-> Covered("TIME_OFF"), budget |-> Replanning],
     [plan |-> Covered("TIME_OFF"), budget |-> Informing]}

SlotSymmetry == Permutations({s1, s2})
===============================================================================
