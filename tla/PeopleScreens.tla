----------------------------- MODULE PeopleScreens -----------------------------
(***************************************************************************)
(* The pages of one Person: registration, Membership of a Tenant, the      *)
(* form, the Authentication Account and the photo.                         *)
(***************************************************************************)
EXTENDS Screens

PeopleListPage == [Page EXCEPT !.shows = {"people"}]

-----------------------------------------------------------------------------
(* Registration, and Membership of someone another Tenant registered.      *)

CreatePersonPage == [Page EXCEPT !.links = {"list"}]

Registered == [Page EXCEPT !.shows = {"person"}, !.needs = {"person"},
                           !.links = {"list"}]

\* A Person's identifiers are unique: there is no second one.
Registers == [s \in {"absent"} |-> "member"]

UseCreatePerson ==
    [Mutation EXCEPT !.becomes = Registers, !.changes = {"people", "person"},
                     !.refreshes = {"people", "person", "candidates"}]

\* The page awaits the mutation, and the photo, and moves on in any case.
CreatePerson ==
    [UseCreatePerson EXCEPT !.at = {"new"}, !.disabledBy = {"create"},
                            !.goesTo = "person", !.alsoLate = TRUE]

NewPersonArea ==
    [pages |-> [list |-> [PeopleListPage EXCEPT !.links = {"new"}],
                new |-> CreatePersonPage, person |-> Registered],
     mutations |-> [create |-> CreatePerson],
     first |-> {[status |-> "absent", page |-> "new"]},
     atOnce |-> 2]

\* The list searches the other Tenants when it finds no one itself; the page
\* that adds an existing Person always does.
GlobalCandidates ==
    [PeopleListPage EXCEPT !.shows = @ \cup {"globalSearch"},
                           !.links = {"add"}]

AddPersonMembershipPage ==
    [Page EXCEPT !.shows = {"globalSearch"}, !.links = {"list"}]

Joins == [s \in {"elsewhere"} |-> "member"]

UseCreatePersonMembership ==
    [Mutation EXCEPT
        !.becomes = Joins, !.changes = {"people", "person", "globalSearch"},
        !.refreshes = {"people", "person", "globalSearch", "candidates"}]

AddToTenant(pages) ==
    [UseCreatePersonMembership EXCEPT
        !.at = pages, !.reads = "globalSearch", !.offered = {"elsewhere"},
        !.disabledBy = {"join"}, !.goesTo = "person", !.alsoLate = TRUE]

MembershipArea ==
    [pages |-> [list |-> GlobalCandidates, add |-> AddPersonMembershipPage,
                person |-> [Registered EXCEPT !.shows = {},
                                              !.needs = {}]],
     mutations |-> [join |-> AddToTenant({"list", "add"})],
     first |-> {[status |-> "elsewhere", page |-> "list"]},
     atOnce |-> 1]

-----------------------------------------------------------------------------
(* The form and the Authentication Account.  The status is that of the     *)
(* Membership and that of the Account.                                     *)

Accounts == {"none", "active", "inactive", "suspended"}

People == [membership : {"ACTIVE", "INACTIVE", "DISCONTINUED"},
           account : Accounts]

Person(membership, account) == [membership |-> membership, account |-> account]

Members(membership) == {p \in People : p.membership = membership}
Holders(account)    == {p \in People : p.account = account}

\* An inactive Membership is made active by Reactivate only; a Person who is
\* saved as inactive loses the Account's access in every Tenant.
Updates(status) ==
    [p \in People \ (IF status = "ACTIVE" THEN Members("INACTIVE") ELSE {}) |->
        [membership |-> status,
         account |-> IF /\ status = "INACTIVE" /\ p.membership # "INACTIVE"
                        /\ p.account = "active"
                     THEN "inactive" ELSE p.account]]

Reactivates ==
    [p \in Members("INACTIVE") \ Holders("suspended") |->
        Person("ACTIVE", IF p.account = "none" THEN "none" ELSE "active")]

\* Enabling again answers the Account as it is.
Enables ==
    [p \in Members("ACTIVE") |->
        IF p.account = "none" THEN Person("ACTIVE", "active") ELSE p]

\* The authentication section is not looked up again on window focus.
PersonDetailPage ==
    [Registered EXCEPT !.shows = @ \cup {"authentication"},
                       !.stays = {"authentication"}]

\* The lists are fetched again; the authentication section keeps what it had.
UseUpdatePerson ==
    [Mutation EXCEPT
        !.changes = {"person", "people", "authentication"},
        !.sets = {"person"}, !.refreshes = {"people", "candidates"},
        !.leaves = {"authentication"}]

Saves == {"saveActive", "saveInactive", "saveDiscontinued"}

\* The form keeps the status it was filled in with: it reads nothing.
SaveChanges(status) ==
    [UseUpdatePerson EXCEPT !.becomes = Updates(status), !.at = {"person"},
                            !.disabledBy = Saves]

UseAuthentication ==
    [Mutation EXCEPT !.at = {"person"}, !.reads = "authentication"]

CanTenantReactivate == Members("INACTIVE") \ Holders("suspended")

TenantReactivate ==
    [UseAuthentication EXCEPT
        !.becomes = Reactivates, !.offered = CanTenantReactivate,
        !.disabledBy = {"reactivate"},
        !.changes = {"person", "people", "authentication"},
        !.refreshes = {"person", "authentication"},
        !.leaves = {"people"}]

\* A Person who has left is not told from a member here.
Enable ==
    [UseAuthentication EXCEPT
        !.becomes = Enables, !.disabledBy = {"enable"},
        !.offered = Holders("none") \ Members("INACTIVE"),
        !.blind = Members("DISCONTINUED"), !.changes = {"authentication"},
        !.refreshes = {"authentication"}]

IssuePasswordReset ==
    [UseAuthentication EXCEPT
        !.becomes = Same({Person("ACTIVE", "active")}),
        !.offered = Holders("active") \ Members("INACTIVE"),
        !.blind = Members("DISCONTINUED"), !.disabledBy = {"issueReset"}]

RequestReactivation ==
    [UseAuthentication EXCEPT
        !.becomes = Same(Holders("suspended")),
        !.offered = Holders("suspended"), !.disabledBy = {"requestReview"}]

PersonArea ==
    [pages |-> [list |-> [Page EXCEPT !.links = {"person"}],
                person |-> PersonDetailPage],
     mutations |-> [saveActive       |-> SaveChanges("ACTIVE"),
                    saveInactive     |-> SaveChanges("INACTIVE"),
                    saveDiscontinued |-> SaveChanges("DISCONTINUED"),
                    reactivate       |-> TenantReactivate,
                    enable           |-> Enable,
                    issueReset       |-> IssuePasswordReset,
                    requestReview    |-> RequestReactivation],
     first |-> {[status |-> Person("ACTIVE", "none"), page |-> "person"],
                [status |-> Person("INACTIVE", "suspended"),
                 page |-> "person"]},
     atOnce |-> 1]

-----------------------------------------------------------------------------
(* The photo card of the same page.  The promises of the refetches are     *)
(* returned: the buttons are disabled until the photo shown is the new one.*)

PersonPhotoCard == [Page EXCEPT !.shows = {"photo"}, !.links = {"list"}]

UseSetPersonPhoto ==
    [Mutation EXCEPT !.becomes = [s \in {"bare", "pictured"} |-> "pictured"],
                     !.changes = {"photo"}, !.refreshes = {"photo"},
                     !.awaits = TRUE]

UseDeletePersonPhoto ==
    [UseSetPersonPhoto EXCEPT !.becomes = [s \in {"bare", "pictured"} |-> "bare"]]

ChoosePhoto ==
    [UseSetPersonPhoto EXCEPT !.at = {"card"}, !.disabledBy = {"set", "delete"}]

RemovePhoto ==
    [UseDeletePersonPhoto EXCEPT
        !.at = {"card"}, !.reads = "photo", !.offered = {"pictured"},
        !.disabledBy = {"set", "delete"}]

PhotoArea ==
    [pages |-> [card |-> PersonPhotoCard,
                list |-> [Page EXCEPT !.links = {"card"}]],
     mutations |-> [set |-> ChoosePhoto, delete |-> RemovePhoto],
     first |-> {[status |-> "bare", page |-> "card"]},
     atOnce |-> 1]
================================================================================
