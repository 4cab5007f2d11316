------------------------------ MODULE AdminScreens -----------------------------
(***************************************************************************)
(* The pages that administer Tenants, the price list, reference data, gold *)
(* prices, mine production and the second-person approval policy.          *)
(***************************************************************************)
EXTENDS Screens

Switch == {"active", "inactive"}
Becomes(status) == [s \in Switch |-> status]

-----------------------------------------------------------------------------
(* Tenants. *)

TenantsAdminPage == [Page EXCEPT !.shows = {"tenants"}, !.links = {"detail"}]

\* What the form is filled in with, and overwritten when it is fetched, is
\* left out.
TenantDetailPage ==
    [Page EXCEPT !.shows = {"tenant"}, !.needs = {"tenant"}, !.links = {"list"}]

\* Another Tenant than the one this area is about.
UseCreateTenant ==
    [Mutation EXCEPT !.becomes = Same(Switch), !.changes = {"tenants"},
                     !.refreshes = {"tenants", "tenant", "candidates"},
                     !.awaits = TRUE]

CreateTenant ==
    [UseCreateTenant EXCEPT !.at = {"list"}, !.disabledBy = {"create"}]

\* The answer is stored, and then fetched again with the list.
UseUpdateTenant ==
    [Mutation EXCEPT !.becomes = Same(Switch), !.changes = {"tenant", "tenants"},
                     !.sets = {"tenant"},
                     !.refreshes = {"tenant", "tenants", "candidates"}]

UseSetTenantActive(status) ==
    [UseUpdateTenant EXCEPT !.becomes = Becomes(status)]

SaveTenant == [UseUpdateTenant EXCEPT !.at = {"detail"}, !.disabledBy = {"save"}]

SetTenantActive(status) ==
    [UseSetTenantActive(status) EXCEPT
        !.at = {"detail"}, !.reads = "tenant", !.offered = Switch \ {status},
        !.disabledBy = {"activate", "deactivate"}]

TenantArea ==
    [pages |-> [list |-> TenantsAdminPage, detail |-> TenantDetailPage],
     mutations |-> [create |-> CreateTenant, save |-> SaveTenant,
                    activate |-> SetTenantActive("active"),
                    deactivate |-> SetTenantActive("inactive")],
     first |-> {[status |-> "active", page |-> "list"]},
     atOnce |-> 1]

\* The status is the number of Tenant Administrators.  Which of the eligible
\* Actors is chosen is left out.
MaxAdmins == 2
Assigns == [n \in 0..MaxAdmins - 1 |-> n + 1]
Revokes == [n \in 1..MaxAdmins |-> n - 1]

TenantAdmins ==
    [TenantDetailPage EXCEPT !.shows = @ \cup {"candidates"}]

UseAssignTenantAdmin ==
    [UseUpdateTenant EXCEPT !.becomes = Assigns, !.changes = @ \cup {"candidates"}]

UseRevokeTenantAdmin == [UseAssignTenantAdmin EXCEPT !.becomes = Revokes]

AssignTenantAdmin ==
    [UseAssignTenantAdmin EXCEPT
        !.at = {"detail"}, !.reads = "tenant", !.offered = DOMAIN Assigns,
        !.disabledBy = {"assign"}]

RevokeTenantAdmin ==
    [UseRevokeTenantAdmin EXCEPT
        !.at = {"detail"}, !.reads = "candidates", !.offered = DOMAIN Revokes,
        !.disabledBy = {"revoke"}]

TenantAdminsArea ==
    [pages |-> [detail |-> TenantAdmins,
                list |-> [Page EXCEPT !.links = {"detail"}]],
     mutations |-> [assign |-> AssignTenantAdmin, revoke |-> RevokeTenantAdmin],
     first |-> {[status |-> 0, page |-> "list"]},
     atOnce |-> 1]

-----------------------------------------------------------------------------
(* One item of the price list.  Its status is that of the row shown, which *)
(* an edit replaces by a revision.                                         *)

PriceListPage == [Page EXCEPT !.shows = {"priceList"}, !.links = {"elsewhere"}]

Away(back) == [Page EXCEPT !.links = {back}]

UsePriceList(becomes) ==
    [Mutation EXCEPT !.becomes = becomes, !.changes = {"priceList"},
                     !.refreshes = {"priceList"}]

CreatePriceListItem ==
    [UsePriceList(Same(Switch)) EXCEPT
        !.at = {"page"}, !.inPanel = TRUE, !.disabledBy = {"create"},
        !.escapable = TRUE]

\* The form is below the rows: it stays while its row is deactivated.
UpdatePriceListItem ==
    [UsePriceList([s \in {"active"} |-> "inactive"]) EXCEPT
        !.at = {"page"}, !.inPanel = TRUE, !.reads = "priceList",
        !.offered = {"active"}, !.kept = TRUE, !.blind = {"inactive"},
        !.disabledBy = {"update"}, !.escapable = TRUE]

\* The buttons of a row are never disabled.
SetPriceListItemActive(status) ==
    [UsePriceList(Becomes(status)) EXCEPT
        !.at = {"page"}, !.reads = "priceList", !.offered = Switch \ {status}]

PriceListArea ==
    [pages |-> [page |-> PriceListPage, elsewhere |-> Away("page")],
     mutations |-> [create |-> CreatePriceListItem,
                    update |-> UpdatePriceListItem,
                    deactivate |-> SetPriceListItemActive("inactive"),
                    reactivate |-> SetPriceListItemActive("active")],
     first |-> {[status |-> "active", page |-> "page"]},
     atOnce |-> 1]

-----------------------------------------------------------------------------
(* One item of the reference data. *)

ReferenceDataAdminPage ==
    [Page EXCEPT !.shows = {"referenceData"}, !.links = {"elsewhere"}]

UseReferenceData(becomes) ==
    [Mutation EXCEPT !.becomes = becomes, !.changes = {"referenceData"},
                     !.refreshes = {"referenceData"}, !.at = {"page"}]

CreateReferenceDataItem ==
    [UseReferenceData(Same(Switch)) EXCEPT !.disabledBy = {"create"}]

\* The form holds whether the item is active since it was opened.
UpdateReferenceDataItem(status) ==
    [UseReferenceData(Becomes(status)) EXCEPT
        !.inPanel = TRUE, !.disabledBy = {"saveActive", "saveInactive"},
        !.escapable = TRUE]

SetReferenceDataItemActive(status) ==
    [UseReferenceData(Becomes(status)) EXCEPT
        !.reads = "referenceData", !.offered = Switch \ {status}]

ReferenceDataArea ==
    [pages |-> [page |-> ReferenceDataAdminPage,
                elsewhere |-> Away("page")],
     mutations |-> [create |-> CreateReferenceDataItem,
                    saveActive |-> UpdateReferenceDataItem("active"),
                    saveInactive |-> UpdateReferenceDataItem("inactive"),
                    deactivate |-> SetReferenceDataItemActive("inactive"),
                    reactivate |-> SetReferenceDataItemActive("active")],
     first |-> {[status |-> "active", page |-> "page"]},
     atOnce |-> 1]

-----------------------------------------------------------------------------
(* One gold price. *)

GoldPricesPage ==
    [Page EXCEPT !.shows = {"goldPrices", "latest"}, !.links = {"elsewhere"}]

UseGoldPrice(becomes) ==
    [Mutation EXCEPT !.becomes = becomes, !.changes = {"goldPrices", "latest"},
                     !.refreshes = {"goldPrices", "latest"}, !.at = {"page"}]

\* Another date's price, or one that supersedes that of the same date.
CreateGoldPrice(becomes) ==
    [UseGoldPrice(becomes) EXCEPT !.disabledBy = {"create", "supersede"}]

DeactivateGoldPrice ==
    [UseGoldPrice(Becomes("inactive")) EXCEPT
        !.reads = "goldPrices", !.offered = {"active"},
        !.disabledBy = {"deactivate"}]

GoldPricesArea ==
    [pages |-> [page |-> GoldPricesPage, elsewhere |-> Away("page")],
     mutations |-> [create |-> CreateGoldPrice(Same(Switch)),
                    supersede |-> CreateGoldPrice(Becomes("inactive")),
                    deactivate |-> DeactivateGoldPrice],
     first |-> {[status |-> "active", page |-> "page"]},
     atOnce |-> 1]

-----------------------------------------------------------------------------
(* The production of one location and work period: one entry at most.      *)

MineProductionPage ==
    [Page EXCEPT !.shows = {"production"}, !.links = {"elsewhere"}]

UseMineProduction(becomes) ==
    [Mutation EXCEPT !.becomes = becomes, !.changes = {"production"},
                     !.refreshes = {"production"}, !.at = {"page"},
                     !.disabledBy = {"create", "update"}]

CreateMineProduction == UseMineProduction([s \in {"none"} |-> "recorded"])

\* The form turns into the entry's, and back at any time.
UpdateMineProduction ==
    [UseMineProduction(Same({"recorded"})) EXCEPT
        !.inPanel = TRUE, !.reads = "production", !.offered = {"recorded"},
        !.kept = TRUE, !.escapable = TRUE]

ProductionArea ==
    [pages |-> [page |-> MineProductionPage, elsewhere |-> Away("page")],
     mutations |-> [create |-> CreateMineProduction,
                    update |-> UpdateMineProduction],
     first |-> {[status |-> "none", page |-> "page"]},
     atOnce |-> 1]

-----------------------------------------------------------------------------
(* Whether sensitive operations need a second person. *)

SecondPersonApprovalSettingsPage ==
    [Page EXCEPT !.shows = {"policy"}, !.needs = {"policy"},
                 !.links = {"elsewhere"}]

\* The answer is stored, and nothing is fetched again.
UseUpdateSecondPersonApprovalPolicy(status) ==
    [Mutation EXCEPT !.becomes = Becomes(status), !.changes = {"policy"},
                     !.sets = {"policy"}]

\* Save is offered for a choice that differs from the answer.
SavePolicy(status) ==
    [UseUpdateSecondPersonApprovalPolicy(status) EXCEPT
        !.at = {"page"}, !.reads = "policy", !.offered = Switch \ {status},
        !.disabledBy = {"require", "relax"}]

PolicyArea ==
    [pages |-> [page |-> SecondPersonApprovalSettingsPage,
                elsewhere |-> Away("page")],
     mutations |-> [require |-> SavePolicy("active"),
                    relax |-> SavePolicy("inactive")],
     first |-> {[status |-> "inactive", page |-> "page"]},
     atOnce |-> 1]
================================================================================
