------------------------------- MODULE MCScreens -------------------------------
(* Every area of the application, one at a time, by one user. *)
EXTENDS ExpenseScreens, JourneyScreens, PeopleScreens, AdminScreens,
        AuthzScreens

Everything ==
    [newExpense     |-> NewExpenseArea,
     correction     |-> CorrectionArea,
     receipt        |-> ReceiptArea,
     newJourney     |-> NewJourneyArea,
     editJourney    |-> EditArea(EditCollaborator),
     workAssignment |-> EditArea(EditWorkAssignment),
     extension      |-> ExtensionArea,
     bonus          |-> BonusArea,
     settlement     |-> SettlementArea,
     newPerson      |-> NewPersonArea,
     membership     |-> MembershipArea,
     person         |-> PersonArea,
     photo          |-> PhotoArea,
     tenant         |-> TenantArea,
     tenantAdmins   |-> TenantAdminsArea,
     priceList      |-> PriceListArea,
     referenceData  |-> ReferenceDataArea,
     goldPrices     |-> GoldPricesArea,
     production     |-> ProductionArea,
     policy         |-> PolicyArea,
     actors         |-> ActorsArea,
     tenantRoles    |-> TenantRolesArea,
     leaseRequest   |-> LeaseRequestArea,
     leaseReview    |-> LeaseReviewArea,
     accounts       |-> AccountsArea]

\* True of the tables, and a hypothesis of SuccessIsFresh's theorem.
ASSUME OneAtATime
=================================================================================
