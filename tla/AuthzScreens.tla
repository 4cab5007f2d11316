------------------------------ MODULE AuthzScreens -----------------------------
(***************************************************************************)
(* The pages that administer Actors and their roles, Support Access Leases *)
(* and Authentication Accounts.                                            *)
(***************************************************************************)
EXTENDS Screens

Behind(back) == [Page EXCEPT !.links = {back}]

-----------------------------------------------------------------------------
(* One Actor and one role that it may hold.                                *)

ActorStatuses == [active : BOOLEAN, granted : BOOLEAN]
Inactive == {s \in ActorStatuses : ~s.active}
Active   == ActorStatuses \ Inactive
Granted  == {s \in ActorStatuses : s.granted}

Activates(to) == [s \in ActorStatuses |-> [s EXCEPT !.active = to]]
Grants  == [s \in Active |-> [s EXCEPT !.granted = TRUE]]
Revoked == [s \in ActorStatuses |-> [s EXCEPT !.granted = FALSE]]

AuthzAdminPage == [Page EXCEPT !.shows = {"actors"}, !.links = {"elsewhere"}]

\* An Actor of its own.
UseCreateAuthzActor ==
    [Mutation EXCEPT !.becomes = Same(ActorStatuses), !.changes = {"actors"},
                     !.refreshes = {"actors"}]

CreateActor == [UseCreateAuthzActor EXCEPT !.at = {"page"}, !.disabledBy = {"create"}]

UseSetAuthzActorActive(to) ==
    [UseCreateAuthzActor EXCEPT !.becomes = Activates(to)]

UseRevokeAuthzActorRoleGrant == [UseCreateAuthzActor EXCEPT !.becomes = Revoked]

\* What is being read is given up first, the grant is put into the cached
\* list, and the list is then fetched again.
UseGrantAuthzActorRole ==
    [UseCreateAuthzActor EXCEPT
        !.becomes = Grants, !.cancels = {"actors"}, !.reveals = {"revoke"},
        !.awaits = TRUE]

\* ActorCard: one isMutating for its three buttons.
OnActorCard(hook, offered) ==
    [hook EXCEPT !.at = {"page"}, !.reads = "actors", !.offered = offered,
                 !.disabledBy = {"grant", "revoke", "activate", "deactivate"}]

ActorsArea ==
    [pages |-> [page |-> AuthzAdminPage, elsewhere |-> Behind("page")],
     mutations |->
         [create |-> CreateActor,
          activate |-> OnActorCard(UseSetAuthzActorActive(TRUE), Inactive),
          deactivate |-> OnActorCard(UseSetAuthzActorActive(FALSE), Active),
          grant |-> OnActorCard(UseGrantAuthzActorRole, Active \ Granted),
          revoke |-> OnActorCard(UseRevokeAuthzActorRoleGrant, Granted)],
     first |-> {[status |-> [active |-> TRUE, granted |-> FALSE],
                 page |-> "page"]},
     atOnce |-> 1]

-----------------------------------------------------------------------------
(* The same, as a Tenant Administrator delegates the roles of a Tenant.    *)

TenantRoleDelegationPage ==
    [Page EXCEPT !.shows = {"tenantActors"}, !.links = {"elsewhere"}]

UseTenantRole(becomes) ==
    [Mutation EXCEPT !.becomes = becomes, !.changes = {"tenantActors"},
                     !.refreshes = {"tenantActors"}, !.at = {"page"},
                     !.reads = "tenantActors",
                     !.disabledBy = {"activate", "deactivate"}]

SetTenantActorActive(to) ==
    [UseTenantRole(Activates(to)) EXCEPT
        !.offered = IF to THEN Inactive ELSE Active]

GrantTenantOperatorRole ==
    [UseTenantRole(Grants) EXCEPT
        !.offered = Active \ Granted, !.disabledBy = @ \cup {"grant", "revoke"}]

RevokeTenantOperatorRole ==
    [UseTenantRole(Revoked) EXCEPT
        !.offered = Granted, !.disabledBy = @ \cup {"grant", "revoke"}]

TenantRolesArea ==
    [pages |-> [page |-> TenantRoleDelegationPage,
                elsewhere |-> Behind("page")],
     mutations |-> [activate |-> SetTenantActorActive(TRUE),
                    deactivate |-> SetTenantActorActive(FALSE),
                    grant |-> GrantTenantOperatorRole,
                    revoke |-> RevokeTenantOperatorRole],
     first |-> {[status |-> [active |-> TRUE, granted |-> FALSE],
                 page |-> "page"]},
     atOnce |-> 1]

-----------------------------------------------------------------------------
(* The leases of one Application Administrator for one Tenant, by the last *)
(* one requested.  Expiry, and the audit trail that is fetched with the    *)
(* leases, are left out.                                                   *)

LeaseStatuses == {"none", "pending", "approved", "terminated"}

SupportAccessLeasesPage ==
    [Page EXCEPT !.shows = {"leases"}, !.links = {"elsewhere"}]

UseSupportAccessLease(from, to) ==
    [Mutation EXCEPT !.becomes = [s \in from |-> to],
                     !.changes = {"leases"},
                     !.refreshes = {"leases", "audit", "permissions"}]

\* The form does not look at the leases: an open one is refused as a conflict.
RequestLeasePanel ==
    [UseSupportAccessLease({"none", "terminated"}, "pending") EXCEPT
        !.at = {"page"}, !.inPanel = TRUE, !.disabledBy = {"request"},
        !.once = {"request"}, !.escapable = TRUE]

ApproveLease ==
    [UseSupportAccessLease({"pending"}, "approved") EXCEPT
        !.at = {"page"}, !.reads = "leases", !.offered = {"pending"},
        !.disabledBy = {"approve"}]

TerminateLease ==
    [UseSupportAccessLease({"approved"}, "terminated") EXCEPT
        !.at = {"page"}, !.reads = "leases", !.offered = {"approved"},
        !.disabledBy = {"terminate"}]

\* The Application Administrator requests; the Tenant Administrator reviews.
LeaseRequestArea ==
    [pages |-> [page |-> SupportAccessLeasesPage,
                elsewhere |-> Behind("page")],
     mutations |-> [request |-> RequestLeasePanel],
     first |-> {[status |-> s, page |-> "page"] : s \in LeaseStatuses},
     atOnce |-> 1]

LeaseReviewArea ==
    [pages |-> [page |-> SupportAccessLeasesPage,
                elsewhere |-> Behind("page")],
     mutations |-> [approve |-> ApproveLease, terminate |-> TerminateLease],
     first |-> {[status |-> "pending", page |-> "page"]},
     atOnce |-> 2]

-----------------------------------------------------------------------------
(* One account of an active Person, and its request for reactivation.      *)

AccountStatuses == [suspended : BOOLEAN, requested : BOOLEAN]
Suspended == {s \in AccountStatuses : s.suspended}
Requested == {s \in AccountStatuses : s.requested}

Suspends(to) == [s \in AccountStatuses |-> [s EXCEPT !.suspended = to]]
Reactivated == [s \in Suspended \cap Requested |->
                   [suspended |-> FALSE, requested |-> FALSE]]
Rejected == [s \in Requested |-> [s EXCEPT !.requested = FALSE]]

\* Window focus fetches neither query again.
AuthenticationAdminPage ==
    [Page EXCEPT !.shows = {"accounts", "requests"},
                 !.stays = {"accounts", "requests"}, !.links = {"elsewhere"}]

CreateAccount ==
    [Mutation EXCEPT !.becomes = Same(AccountStatuses), !.changes = {"accounts"},
                     !.refreshes = {"accounts"}, !.at = {"page"},
                     !.disabledBy = {"createAccount"}]

\* The rows share one pendingAction.
OnAccountRow(becomes, offered) ==
    [Mutation EXCEPT !.becomes = becomes, !.at = {"page"}, !.reads = "accounts",
                     !.offered = offered,
                     !.disabledBy = {"suspend", "clear", "reset"}]

Toggle(to) ==
    [OnAccountRow(Suspends(to), IF to THEN AccountStatuses \ Suspended
                                ELSE Suspended) EXCEPT
        !.changes = {"accounts"}, !.refreshes = {"accounts"}, !.awaits = TRUE]

IssueReset ==
    OnAccountRow(Same(AccountStatuses \ Suspended), AccountStatuses \ Suspended)

\* The panel does not know that the suspension has been cleared.
ReviewReactivationRequest(becomes) ==
    [Mutation EXCEPT !.becomes = becomes, !.changes = {"accounts", "requests"},
                     !.refreshes = {"accounts", "requests"}, !.at = {"page"},
                     !.reads = "requests", !.offered = Requested,
                     !.blind = Requested \ Suspended,
                     !.disabledBy = {"approve", "reject"}]

AccountsArea ==
    [pages |-> [page |-> AuthenticationAdminPage, elsewhere |-> Behind("page")],
     mutations |-> [createAccount |-> CreateAccount,
                    suspend |-> Toggle(TRUE), clear |-> Toggle(FALSE),
                    reset |-> IssueReset,
                    approve |-> ReviewReactivationRequest(Reactivated),
                    reject |-> ReviewReactivationRequest(Rejected)],
     first |-> {[status |-> [suspended |-> TRUE, requested |-> TRUE],
                 page |-> "page"]},
     atOnce |-> 1]
================================================================================
