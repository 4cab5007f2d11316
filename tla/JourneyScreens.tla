----------------------------- MODULE JourneyScreens -----------------------------
(***************************************************************************)
(* The pages of one Collaborator Journey: its creation, its edit forms,    *)
(* its extension requests, its bonus awards and its settlement.            *)
(***************************************************************************)
EXTENDS Screens

\* The search and the self-service list are left out.
CollaboratorsListPage == [Page EXCEPT !.shows = {"catalog"}]

CollaboratorDetailPage ==
    [Page EXCEPT !.shows = {"collaborator"}, !.needs = {"collaborator"},
                 !.links = {"list"}]

JourneyList == [CollaboratorsListPage EXCEPT !.links = {"detail"}]

-----------------------------------------------------------------------------
(* Creation, for one Membership. *)

\* The candidates tell who has no open Journey.
CreateCollaboratorPage ==
    [Page EXCEPT !.shows = {"candidates"}, !.needs = {"candidates"},
                 !.links = {"list"}]

Starts == [s \in {"eligible"} |-> "open"]

UseCreateCollaborator ==
    [Mutation EXCEPT !.becomes = Starts,
                     !.changes = {"catalog", "candidates"},
                     !.sets = {"catalog"},
                     !.refreshes = {"catalog", "candidates"}]

\* The form awaits the mutation and moves on, even if it is not shown.
CreateCollaborator ==
    [UseCreateCollaborator EXCEPT
        !.at = {"new"}, !.reads = "candidates", !.offered = {"eligible"},
        !.disabledBy = {"create"}, !.goesTo = "list", !.alsoLate = TRUE]

NewJourneyArea ==
    [pages |-> [list |-> [CollaboratorsListPage EXCEPT !.links = {"new"}],
                new |-> CreateCollaboratorPage],
     mutations |-> [create |-> CreateCollaborator],
     first |-> {[status |-> "eligible", page |-> "new"]},
     atOnce |-> 2]

-----------------------------------------------------------------------------
(* The edit panels.  A user who may not edit everything may edit the work  *)
(* assignment: no one sees both.                                           *)

UseUpdateCollaborator ==
    [Mutation EXCEPT !.becomes = Same({"open"}),
                     !.changes = {"collaborator", "catalog"},
                     !.sets = {"collaborator"}, !.refreshes = {"catalog"}]

UseUpdateCollaboratorWorkAssignment == UseUpdateCollaborator

EditCollaborator ==
    [UseUpdateCollaborator EXCEPT
        !.at = {"detail"}, !.inPanel = TRUE, !.escapable = TRUE,
        !.forgets = TRUE, !.disabledBy = {"edit"}]

EditWorkAssignment ==
    [UseUpdateCollaboratorWorkAssignment EXCEPT
        !.at = {"detail"}, !.inPanel = TRUE, !.escapable = TRUE,
        !.forgets = TRUE, !.disabledBy = {"edit"}]

EditArea(form) ==
    [pages |-> [list |-> JourneyList, detail |-> CollaboratorDetailPage],
     mutations |-> [edit |-> form],
     first |-> {[status |-> "open", page |-> "list"]},
     atOnce |-> 1]

-----------------------------------------------------------------------------
(* Extension requests: one is pending, or none.  Where the links lead is   *)
(* left out from here on.                                                  *)

Elsewhere == [Page EXCEPT !.links = {"detail"}]

JourneyExtensionRequestsPanel ==
    [CollaboratorDetailPage EXCEPT !.shows = @ \cup {"extensionRequests"}]

Requests == [s \in {"settled"} |-> "pending"]

\* Accepted, rejected or cancelled.
Resolves == [s \in {"pending"} |-> "settled"]

\* onSuccess returns the promise of the refetch.
UseExtendCollaboratorJourney ==
    [Mutation EXCEPT !.becomes = Requests, !.changes = {"extensionRequests"},
                     !.refreshes = {"extensionRequests"}, !.awaits = TRUE]

\* Mutant: the Journey is not fetched again.
RefreshesRequestsOnly ==
    [Mutation EXCEPT !.becomes = Resolves,
                     !.changes = {"extensionRequests", "collaborator", "catalog"},
                     !.refreshes = {"extensionRequests"}]

UseExtensionResponse ==
    [Mutation EXCEPT !.becomes = Resolves,
                     !.changes = {"extensionRequests", "collaborator", "catalog"},
                     !.refreshes = {"extensionRequests", "collaborator", "catalog"}]

\* The panel does not look at the requests.
JourneyExtensionPanel ==
    [UseExtendCollaboratorJourney EXCEPT
        !.at = {"detail"}, !.inPanel = TRUE, !.escapable = TRUE,
        !.forgets = TRUE, !.disabledBy = {"extend"}]

Responds(disabledBy) ==
    [UseExtensionResponse EXCEPT
        !.at = {"detail"}, !.reads = "extensionRequests",
        !.offered = {"pending"}, !.disabledBy = disabledBy]

ExtensionArea ==
    [pages |-> [detail |-> JourneyExtensionRequestsPanel,
                list |-> Elsewhere],
     mutations |-> [extend |-> JourneyExtensionPanel,
                    accept |-> Responds({"accept", "reject"}),
                    reject |-> Responds({"accept", "reject"}),
                    cancel |-> Responds({"cancel"})],
     first |-> {[status |-> "settled", page |-> "detail"]},
     atOnce |-> 1]

-----------------------------------------------------------------------------
(* Bonus awards.  The status is that of one award, "own" when the user has *)
(* requested it.                                                           *)

JourneyBonusAwardsPanel ==
    [Page EXCEPT !.shows = {"bonusAwards", "preview"}, !.links = {"list"}]

\* There may always be one more.
RequestsAward ==
    [s \in {"unawarded", "own", "requested", "posted"} |->
        IF s = "unawarded" THEN "own" ELSE s]

Approves == [s \in {"requested"} |-> "posted"]

UseCreateJourneyBonusAward ==
    [Mutation EXCEPT !.becomes = RequestsAward, !.changes = {"bonusAwards"},
                     !.refreshes = {"bonusAwards"}, !.awaits = TRUE]

\* The settlement preview of the same page keeps the balance it had.
UseApproveJourneyBonusAward ==
    [Mutation EXCEPT
        !.becomes = Approves,
        !.changes = {"bonusAwards", "account", "evidence", "preview"},
        !.refreshes = {"bonusAwards", "account", "evidence"},
        !.leaves = {"preview"}]

SubmitAward ==
    [UseCreateJourneyBonusAward EXCEPT !.at = {"detail"},
                                       !.disabledBy = {"award"}]

CanApprove ==
    [UseApproveJourneyBonusAward EXCEPT
        !.at = {"detail"}, !.reads = "bonusAwards",
        !.offered = {"requested"}, !.disabledBy = {"approve"}]

BonusArea ==
    [pages |-> [detail |-> JourneyBonusAwardsPanel,
                list |-> Elsewhere],
     mutations |-> [award |-> SubmitAward, approve |-> CanApprove],
     first |-> {[status |-> s, page |-> "detail"] :
                    s \in {"unawarded", "requested"}},
     atOnce |-> 1]

-----------------------------------------------------------------------------
(* Settlement.  The status tells the sign of the balances and whether the  *)
(* Journey can be closed: "settled" still waits for a receipt.             *)

Unsettled == {"gold", "reais", "owed"}
OpenJourney == Unsettled \cup {"settled", "ready"}

\* Shown until the Journey is closed.
JourneySettlementPanel ==
    [CollaboratorDetailPage EXCEPT !.shows = @ \cup {"preview"},
                                   !.needs = @ \cup {"preview"}]

\* The panel reads the preview; the server reads the ledger.
PaysGold == [s \in {"gold"} |-> "reais"]
PaysPart == [s \in {"gold", "reais"} |-> "reais"]
PaysAll  == [s \in {"gold", "reais"} |-> "settled"]
Repays   == [s \in {"owed"} |-> "settled"]
Closes   == [s \in {"ready"} |-> "closed"]

\* The key of the Collaborator is a prefix of those of its awards and
\* extension requests.
UseSettlementMutation ==
    [Mutation EXCEPT
        !.changes = {"preview"},
        !.refreshes = {"preview", "collaborator", "extensionRequests",
                       "bonusAwards", "catalog"},
        !.awaits = TRUE]

\* Each action has its own mutation; Escape closes the panel at any time.
SettlementActionPanel(action, becomes) ==
    [UseSettlementMutation EXCEPT
        !.becomes = becomes, !.disabledBy = {action}, !.at = {"detail"},
        !.inPanel = TRUE, !.escapable = TRUE, !.forgets = TRUE]

SettlementWorkflow ==
    [zeroGold |-> [SettlementActionPanel("zeroGold", PaysGold) EXCEPT
                      !.reads = "preview", !.offered = {"gold"}],
     partialPayout |-> [SettlementActionPanel("partialPayout", PaysPart) EXCEPT
                           !.reads = "collaborator", !.offered = OpenJourney,
                           !.blind = {"owed", "settled", "ready"}],
     finalTenant |-> [SettlementActionPanel("finalTenant", PaysAll) EXCEPT
                         !.reads = "preview", !.offered = {"gold", "reais"}],
     finalCollaborator |->
         [SettlementActionPanel("finalCollaborator", Repays) EXCEPT
             !.reads = "preview", !.offered = {"owed"}],
     close |-> [SettlementActionPanel("close", Closes) EXCEPT
                   !.reads = "preview", !.offered = {"ready"},
                   !.changes = @ \cup {"collaborator", "catalog"}]]

SettlementArea ==
    [pages |-> [detail |-> JourneySettlementPanel, list |-> Elsewhere],
     mutations |-> SettlementWorkflow,
     first |-> {[status |-> s, page |-> "detail"] :
                    s \in {"gold", "owed", "ready"}},
     atOnce |-> 1]
=================================================================================
