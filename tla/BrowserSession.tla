---------------------------- MODULE BrowserSession ----------------------------
(***************************************************************************)
(* The browser side of a session: the tabs of one browser, what they share *)
(* (the cookie jar, the stored Tenant selection), what each keeps (its     *)
(* authentication state, its LOCAL token, its workspace and query cache),  *)
(* the requests they have under way, and the part of the server those      *)
(* requests meet: sessions, standing Tenant contexts and support leases.   *)
(*                                                                         *)
(* The server answers a request and the browser handles the answer in one  *)
(* step, some time after the request was sent with the token and Tenant of *)
(* that time: a late answer is a late step.  The Tenant pages use query    *)
(* keys that do not name the Tenant: cache is the latest such entry.  They *)
(* send two kinds of request, which differ in what a 401 does: "data" goes *)
(* through apiFetch, "photo" (a Person's photo, an export) through         *)
(* apiFetchBlob.                                                           *)
(***************************************************************************)
EXTENDS Naturals, Sequences, FiniteSets

CONSTANTS
    Tabs, Accounts, Tenants,
    None,
    DefaultTenant,   \* read when nothing is stored (tenantSelection.ts)
    Standing,        \* the Tenant contexts an Account has for good
    Leasable,        \* those it can have by a Support Access Lease
    Transports,      \* "cookie", or "local": the LAN fallback of client.ts
    MaxLogins,
    MaxIncidents,    \* leases approved and sessions ended, together
    MaxRequests      \* under way in a tab when the user asks for more

ASSUME SessionAssumption ==
    /\ DefaultTenant \in Tenants
    /\ None \notin Tenants \cup Accounts
    /\ Standing \subseteq Accounts \X Tenants
    /\ Leasable \subseteq Accounts \X Tenants
    /\ Transports \subseteq {"cookie", "local"}
    /\ {MaxLogins, MaxIncidents, MaxRequests} \subseteq Nat

VARIABLES
    transport,    \* how this browser carries the session
    owner,        \* the Account of each session, in the order they were made
    live,         \* the sessions the server accepts
    leased,       \* the leasable contexts under an approved, unexpired lease
    jar,          \* the session cookie of the browser, 0 for none
    stored,       \* the Tenant selection in localStorage and its Account
    tab,          \* the state of each tab
    requests,     \* what has been sent and not yet answered
    incidents     \* bounds the server's own steps

vars == <<transport, owner, live, leased, jar, stored, tab, requests, incidents>>

Tokens == 0..MaxLogins

Transitions == {"init", "login", "logout"}
PageQueries == {"data", "photo"}
Queries == {"options", "actor"} \cup PageQueries
Kinds == Transitions \cup Queries \cup {"revalidate"}

NoEntry == [account |-> None, tenant |-> None, of |-> None]

Entry == [account : Accounts \cup {None}, tenant : Tenants \cup {None},
          of : Tenants \cup {None}]

AuthState == [
    status    : {"loading", "anonymous", "authenticated", "error"},
    account   : Accounts \cup {None},
    session   : Tokens,          \* the session that answered (its expiresAt)
    local     : Tokens,          \* sessionStorage, LOCAL transport only
    mounted   : BOOLEAN,         \* RequireAuth shows the workspace
    requested : Tenants,         \* AppShell's requestedTenantId
    catalog   : {"loading", "ready", "failed"},
    options   : SUBSET Tenants,
    actor     : Entry,           \* the effective Actor, by its query key
    actorFailed : {"no", "unavailable", "other"},
    cache     : Entry]           \* one entry under a Tenant-neutral key

Request == [
    tab : Tabs, kind : Kinds,
    aim : Tenants \cup Accounts \cup {None},
    account : Accounts \cup {None},
    token : Tokens, tenant : Tenants,
    current : BOOLEAN]           \* its revision holds; it is not cancelled

TypeOK ==
    /\ transport \in Transports
    /\ owner \in Seq(Accounts) /\ Len(owner) <= MaxLogins
    /\ live \subseteq 1..Len(owner)
    /\ leased \subseteq Leasable
    /\ jar \in Tokens
    /\ stored \in [tenant : Tenants \cup {None}, account : Accounts \cup {None}]
    /\ tab \in [Tabs -> AuthState]
    /\ requests \subseteq Request
    /\ incidents \in 0..MaxIncidents

-----------------------------------------------------------------------------
(* What the browser derives from its state. *)

ReadSelectedTenant(s) == IF s.tenant = None THEN DefaultTenant ELSE s.tenant

TokenSent(t) == IF transport = "local" THEN tab[t].local ELSE jar

Selected(s) == IF s.requested \in s.options THEN s.requested ELSE None

\* Mutant: no header when nothing is stored.
NewRequestNoDefault(t, kind, aim) ==
    [tab |-> t, kind |-> kind, aim |-> aim, account |-> tab[t].account,
     token |-> TokenSent(t), tenant |-> stored.tenant, current |-> TRUE]

\* Only the Actor and Tenant pages' requests depend on X-Tenant-ID.
NewRequest(t, kind, aim) ==
    [tab |-> t, kind |-> kind, aim |-> aim, account |-> tab[t].account,
     token |-> TokenSent(t),
     tenant |-> IF kind \in {"actor"} \cup PageQueries THEN ReadSelectedTenant(stored)
                ELSE DefaultTenant,
     current |-> TRUE]

\* q asks what r, which is under way, will answer: r is used for both.
SharedBy(q, r) ==
    /\ r.current /\ <<r.tab, r.kind, r.aim>> = <<q.tab, q.kind, q.aim>>
    /\ q.kind = "actor" => r.account = q.account

Fetches(t, kinds) ==
    {q \in {NewRequest(t, k, IF k = "actor" THEN Selected(tab[t]) ELSE None) :
            k \in kinds} :
        ~\E r \in requests : SharedBy(q, r)}

\* Requests of the tab of these kinds no longer count: a newer transition
\* raised the revision, or the queries were cancelled or removed.  What a
\* query was for is then of no use; its answer's status still is.
Discarded(r) ==
    IF r.kind \in Queries
    THEN [r EXCEPT !.current = FALSE, !.aim = None, !.account = None]
    ELSE [r EXCEPT !.current = FALSE]

Superseding(t, kinds, rs) ==
    {IF r.tab = t /\ r.kind \in kinds THEN Discarded(r) ELSE r : r \in rs}

\* The Actor query has an answer for the selected Tenant of this Account.
ActorReady(s) ==
    s.actor.account = s.account /\ s.actor.tenant = Selected(s)

Workspace(s) == s.status = "authenticated" /\ s.mounted

SelectingFallback(s) ==
    Workspace(s) /\ s.catalog = "ready" /\ Selected(s) = None /\ s.options # {}

ActorLoading(s) ==
    /\ Workspace(s) /\ Selected(s) # None
    /\ ~ActorReady(s) /\ s.actorFailed = "no"

\* "Loading workspace", "Verifying your session" and "Loading your session".
Waiting(s) ==
    \/ s.status = "loading"
    \/ s.status = "authenticated" /\ ~s.mounted
    \/ Workspace(s) /\ s.catalog = "loading"
    \/ ActorLoading(s)
    \/ SelectingFallback(s)

\* The pages of the Tenant are on the screen.
Shows(s) ==
    /\ Workspace(s) /\ s.catalog = "ready" /\ Selected(s) # None
    /\ s.actorFailed = "no" /\ ActorReady(s)
    /\ s.actor.of = s.actor.tenant          \* no contextMismatch

\* AppShell is mounted anew: it reads the stored selection, and the catalog,
\* which is not kept while no component uses it, is loaded again.
Mounted(s, store) ==
    [s EXCEPT !.mounted = TRUE, !.requested = ReadSelectedTenant(store),
              !.catalog = "loading", !.options = {}, !.actorFailed = "no"]

\* Mutant: only the caller that sent the verification goes on.
ResumedNever(s, store) == s

\* Whoever awaited a shared verification goes on with the state it finds.
Resumed(s, store) ==
    IF s.status = "authenticated" /\ ~s.mounted THEN Mounted(s, store) ELSE s

Unmounted(s) ==
    [s EXCEPT !.mounted = FALSE, !.requested = DefaultTenant,
              !.catalog = "loading", !.options = {}, !.actorFailed = "no"]

SignedOut(s) ==
    [Unmounted(s) EXCEPT !.status = "anonymous", !.account = None, !.session = 0]

SignedIn(s, account, token) ==
    [s EXCEPT !.status = "authenticated", !.account = account, !.session = token]

\* Mutant: only the Actor's query is removed.
ClearedActorOnly(s) == [s EXCEPT !.actor = NoEntry]

Cleared(s) == [s EXCEPT !.cache = NoEntry, !.actor = NoEntry]

Reconciled(s, account) ==
    [tenant |-> IF s.account = account THEN s.tenant ELSE None,
     account |-> account]

-----------------------------------------------------------------------------
(* The server. *)

ContextsOf(a) ==
    {n \in Tenants : <<a, n>> \in Standing}
        \cup {n \in Tenants : <<a, n>> \in leased}

Serves(r) == r.token \in live /\ r.tenant \in ContextsOf(owner[r.token])

browser == <<transport, jar, stored, tab, requests>>

\* A session expires, or a password reset or an administrator revokes it.
SessionEnds(token) ==
    /\ token \in live
    /\ incidents < MaxIncidents /\ incidents' = incidents + 1
    /\ live' = live \ {token}
    /\ UNCHANGED <<owner, leased, browser>>

\* The Tenant's administrator approves a lease that is pending.
LeaseApproved(c) ==
    /\ c \notin leased
    /\ incidents < MaxIncidents /\ incidents' = incidents + 1
    /\ leased' = leased \cup {c}
    /\ UNCHANGED <<owner, live, browser>>

\* It is terminated, or its time has come.
LeaseEnds(c) ==
    /\ c \in leased
    /\ leased' = leased \ {c}
    /\ UNCHANGED <<owner, live, incidents, browser>>

Server ==
    \/ \E token \in live : SessionEnds(token)
    \/ \E c \in Leasable : LeaseApproved(c) \/ LeaseEnds(c)

-----------------------------------------------------------------------------
(* What the user and React's effects do. *)

server == <<owner, live, leased>>

\* A page that loads: what is not in browser storage starts anew.
NewTab(local) ==
    [status |-> "loading", account |-> None, session |-> 0, local |-> local,
     mounted |-> FALSE, requested |-> DefaultTenant, catalog |-> "loading",
     options |-> {}, actor |-> NoEntry, actorFailed |-> "no", cache |-> NoEntry]

\* main.tsx asks for the session.
FirstRequest(t, token) ==
    [tab |-> t, kind |-> "init", aim |-> None, account |-> None, token |-> token,
     tenant |-> DefaultTenant, current |-> TRUE]

\* The page is reloaded: no handler is left for the requests under way.  A
\* reload of a page that still loads would only begin the same loading again.
Reload(t) ==
    /\ ~Waiting(tab[t])
    /\ tab' = [tab EXCEPT ![t] = NewTab(@.local)]
    /\ requests' = {r \in requests : r.tab # t} \cup {FirstRequest(t, TokenSent(t))}
    /\ UNCHANGED <<transport, jar, stored, incidents, server>>

\* "Try again" on the session error page.
Initialize(t) ==
    /\ tab[t].status = "error"
    /\ tab' = [tab EXCEPT ![t].status = "loading"]
    /\ requests' = Superseding(t, Transitions, requests)
                      \cup {NewRequest(t, "init", None)}
    /\ UNCHANGED <<transport, jar, stored, incidents, server>>

\* /login shows its form while the first load still asks for the session.
Login(t, a) ==
    /\ tab[t].status # "authenticated"
    /\ ~\E r \in requests : r.tab = t /\ r.kind = "login"     \* submitting
    /\ Len(owner) < MaxLogins
    /\ tab' = [tab EXCEPT ![t].status = "loading"]
    /\ requests' = Superseding(t, Transitions, requests)
                      \cup {NewRequest(t, "login", a)}
    /\ UNCHANGED <<transport, jar, stored, incidents, server>>

Logout(t) ==
    /\ Workspace(tab[t]) /\ ~Waiting(tab[t])
    /\ requests' = Superseding(t, Transitions, requests)
                      \cup {NewRequest(t, "logout", None)}
    /\ UNCHANGED <<transport, jar, stored, tab, incidents, server>>

\* Another route: the page is suspended until the session is verified.
Navigate(t) ==
    /\ Workspace(tab[t]) /\ ~Waiting(tab[t])
    /\ tab' = [tab EXCEPT ![t] = Unmounted(@)]
    /\ requests' = requests \cup Fetches(t, {"revalidate"})
    /\ UNCHANGED <<transport, jar, stored, incidents, server>>

\* The window gets the focus: the session is verified behind an overlay.
\* The queries it refetches are the fetches below.
Focus(t) ==
    /\ Workspace(tab[t])
    /\ requests' = requests \cup Fetches(t, {"revalidate"})
    /\ UNCHANGED <<transport, jar, stored, tab, incidents, server>>

\* The selector is opened, or "Try again" on an error of the catalog or of
\* an Actor that is no longer available.  A failed first load loads again.
RefreshOptions(t) ==
    /\ Workspace(tab[t]) /\ ~Waiting(tab[t])
    /\ tab' = [tab EXCEPT ![t].catalog =
            IF @ = "failed" /\ tab[t].options = {} THEN "loading" ELSE @]
    /\ requests' = requests \cup Fetches(t, {"options"})
    /\ UNCHANGED <<transport, jar, stored, incidents, server>>

\* "Try again" on an Actor that failed, or the focus, which refetches it.
RetryActor(t) ==
    /\ Workspace(tab[t]) /\ tab[t].catalog = "ready" /\ Selected(tab[t]) # None
    /\ tab[t].actorFailed # "no"
    /\ tab' = [tab EXCEPT ![t].actorFailed = IF ActorReady(tab[t]) THEN @ ELSE "no"]
    /\ requests' = requests \cup Fetches(t, {"actor"})
    /\ UNCHANGED <<transport, jar, stored, incidents, server>>

FetchOptions(t) ==
    /\ Workspace(tab[t]) /\ tab[t].catalog = "loading"
    /\ requests' = requests \cup Fetches(t, {"options"})
    /\ UNCHANGED <<transport, jar, stored, tab, incidents, server>>

FetchActor(t) ==
    /\ ActorLoading(tab[t])
    /\ requests' = requests \cup Fetches(t, {"actor"})
    /\ UNCHANGED <<transport, jar, stored, tab, incidents, server>>

\* A page is opened, or its queries and the Actor are refetched.
FetchData(t) ==
    /\ Shows(tab[t])
    /\ \E k \in PageQueries \cup {"actor"} :
        requests' = requests \cup Fetches(t, {k})
    /\ UNCHANGED <<transport, jar, stored, tab, incidents, server>>

\* changeTenant: the queries are cancelled and removed, the selection is
\* stored, and the new route suspends the page.
Switch(t, n) ==
    /\ tab' = [tab EXCEPT ![t] = Unmounted(Cleared(@))]
    /\ stored' = [tenant |-> n, account |-> tab[t].account]
    /\ requests' = Superseding(t, Queries, requests) \cup Fetches(t, {"revalidate"})
    /\ UNCHANGED <<transport, jar, incidents, server>>

ChangeTenant(t, n) ==
    /\ Shows(tab[t])
    /\ n \in tab[t].options \ {Selected(tab[t])}
    /\ Switch(t, n)

SelectFallback(t) ==
    /\ SelectingFallback(tab[t])
    /\ \E n \in tab[t].options : Switch(t, n)

-----------------------------------------------------------------------------
(* Answers. *)

\* Mutant: every 401 counts.
SupersededNever(r) == FALSE

\* login has since installed another LOCAL token than the request carried.
Superseded(r) ==
    /\ transport = "local"
    /\ tab[r.tab].local \notin {0, r.token}

\* apiFetch ignores the 401 of a superseded response; apiFetchBlob does not
\* ask whether it is one.
Interrupts(r) == r.kind = "photo" \/ ~Superseded(r)

\* A 401 takes away the LOCAL token it was sent with, and no other.
TokenDropped(s, r) == [s EXCEPT !.local = IF @ = r.token THEN 0 ELSE @]

QueryFailed(s, r, how) ==
    IF ~r.current THEN s
    ELSE CASE r.kind = "options" -> [s EXCEPT !.catalog = "failed"]
           [] r.kind = "actor" /\ r.aim = Selected(s) /\ r.account = s.account
                -> [s EXCEPT !.actorFailed = how]
           [] OTHER -> s

\* 401 on a protected request.
Refused(r) ==
    LET t == r.tab
        s == TokenDropped(tab[t], r)
        signsOut == Interrupts(r) /\ s.status \in {"authenticated", "loading"}
    IN  /\ tab' = [tab EXCEPT ![t] =
                IF signsOut THEN SignedOut(s) ELSE QueryFailed(s, r, "other")]
        /\ requests' = IF signsOut THEN Superseding(t, Transitions, requests \ {r})
                       ELSE requests \ {r}
        /\ UNCHANGED <<transport, jar, stored, incidents, server>>

\* Mutant: nobody listens to tenant_actor_unavailable.
UnavailableIgnored(r) ==
    /\ tab' = [tab EXCEPT ![r.tab] = QueryFailed(@, r, "unavailable")]
    /\ requests' = requests \ {r}
    /\ UNCHANGED <<transport, jar, stored, incidents, server>>

\* 403 tenant_actor_unavailable: the catalog of a mounted shell is refetched.
Unavailable(r) ==
    /\ tab' = [tab EXCEPT ![r.tab] = QueryFailed(@, r, "unavailable")]
    /\ requests' = (requests \ {r})
            \cup (IF Workspace(tab[r.tab]) THEN Fetches(r.tab, {"options"}) ELSE {})
    /\ UNCHANGED <<transport, jar, stored, incidents, server>>

\* Mutant: the revision is not compared.
InitAnsweredAlways(r) ==
    LET s == SignedIn(tab[r.tab], owner[r.token], r.token)
    IN  /\ r.kind = "init" /\ r.token \in live
        /\ stored' = Reconciled(stored, owner[r.token])
        /\ tab' = [tab EXCEPT ![r.tab] = Mounted(s, stored')]
        /\ requests' = requests \ {r}
        /\ UNCHANGED <<transport, jar, incidents, server>>

\* A transition that a newer one superseded changes nothing.
InitAnswered(r) ==
    LET t == r.tab
        s == IF r.token \in live THEN tab[t] ELSE TokenDropped(tab[t], r)
        entered == r.current /\ r.token \in live
    IN  /\ r.kind = "init"
        /\ stored' = IF entered THEN Reconciled(stored, owner[r.token]) ELSE stored
        /\ tab' = [tab EXCEPT ![t] =
                IF entered THEN Mounted(SignedIn(s, owner[r.token], r.token), stored')
                ELSE IF r.current THEN SignedOut(s) ELSE s]
        /\ requests' = requests \ {r}
        /\ UNCHANGED <<transport, jar, incidents, server>>

\* The account is compared when there is a session, or none; a 401 is final.
RevalidateAnswered(r) ==
    LET t == r.tab
        same == tab[t].status = "authenticated" /\ tab[t].account = r.account
        found == same /\ r.token \in live
        s == SignedIn(tab[t], owner[r.token], r.token)
        stays == tab[t].mounted /\ s.account = tab[t].account
        session == tab[t].session = r.token
    IN  /\ r.kind = "revalidate"
        /\ stored' = IF found THEN Reconciled(stored, owner[r.token]) ELSE stored
        /\ tab' = [tab EXCEPT ![t] =
                IF found THEN
                    IF ~stays THEN Mounted(s, stored')
                    ELSE IF session THEN s
                    ELSE [s EXCEPT !.catalog = "loading", !.options = {}]
                ELSE IF r.token \in live \cup {0} /\ ~same THEN Resumed(@, stored)
                ELSE SignedOut(TokenDropped(@, r))]
        /\ requests' = IF found /\ ~(stays /\ session)
                       THEN Superseding(t, {"options"}, requests \ {r})
                       ELSE requests \ {r}
        /\ UNCHANGED <<transport, jar, incidents, server>>

\* LoginPage drops every query, even if the answer no longer counts.
LoginAnswered(r) ==
    LET t == r.tab
        token == Len(owner) + 1
        s == Cleared([tab[t] EXCEPT !.local = IF transport = "local" THEN token ELSE @])
    IN  /\ r.kind = "login"
        /\ Len(owner) < MaxLogins
        /\ owner' = Append(owner, r.aim)
        /\ live' = live \cup {token}
        /\ jar' = IF transport = "cookie" THEN token ELSE jar
        /\ stored' = IF r.current THEN Reconciled(stored, r.aim) ELSE stored
        /\ tab' = [tab EXCEPT ![t] =
                IF r.current THEN Mounted(SignedIn(s, r.aim, token), stored') ELSE s]
        /\ requests' = Superseding(t, Queries, requests \ {r})
        /\ UNCHANGED <<transport, leased, incidents>>

\* endAuthSession's finally, then the queries are dropped and /login opened,
\* from where a tab that is signed in again goes back to its workspace.
SignedOutBy(r, s) ==
    LET off == [Cleared(s) EXCEPT !.local = 0]
    IN  IF r.current THEN SignedOut(off)
        ELSE IF Workspace(s) THEN Mounted(off, stored) ELSE off

LogoutAnswered(r) ==
    /\ r.kind = "logout"
    /\ live' = live \ {r.token}
    /\ jar' = 0
    /\ tab' = [tab EXCEPT ![r.tab] = SignedOutBy(r, @)]
    /\ requests' = Superseding(r.tab, Queries, requests \ {r})
    /\ UNCHANGED <<transport, owner, leased, stored, incidents>>

\* The effect that stores the selection runs when a Tenant becomes selected.
OptionsAnswered(r) ==
    LET t == r.tab
        contexts == ContextsOf(owner[r.token])
        s == [tab[t] EXCEPT !.catalog = "ready", !.options = contexts]
        changed == Selected(s) # Selected(tab[t])
        used == r.current /\ Workspace(tab[t])
    IN  /\ r.kind = "options" /\ r.token \in live
        /\ tab' = [tab EXCEPT ![t] =
                IF ~used THEN @
                ELSE IF changed THEN [s EXCEPT !.actorFailed = "no"] ELSE s]
        /\ stored' = IF used /\ changed /\ Selected(s) # None
                     THEN [tenant |-> Selected(s), account |-> s.account]
                     ELSE stored
        /\ requests' = requests \ {r}
        /\ UNCHANGED <<transport, jar, incidents, server>>

ActorAnswered(r) ==
    LET s == tab[r.tab]
        shown == r.aim = Selected(s) /\ r.account = s.account
    IN  /\ r.kind = "actor" /\ Serves(r)
        /\ tab' = [tab EXCEPT ![r.tab] =
                IF ~r.current THEN s
                ELSE [s EXCEPT
                    !.actor = [account |-> r.account, tenant |-> r.aim, of |-> r.tenant],
                    !.actorFailed = IF shown THEN "no" ELSE s.actorFailed]]
        /\ requests' = requests \ {r}
        /\ UNCHANGED <<transport, jar, stored, incidents, server>>

DataAnswered(r) ==
    /\ r.kind \in PageQueries /\ Serves(r)
    /\ tab' = [tab EXCEPT ![r.tab].cache =
            IF r.current
            THEN [account |-> owner[r.token], tenant |-> r.tenant, of |-> r.tenant]
            ELSE @]
    /\ requests' = requests \ {r}
    /\ UNCHANGED <<transport, jar, stored, incidents, server>>

Answered(r) ==
    \/ InitAnswered(r)
    \/ RevalidateAnswered(r)
    \/ LoginAnswered(r)
    \/ LogoutAnswered(r)
    \/ OptionsAnswered(r)
    \/ ActorAnswered(r)
    \/ DataAnswered(r)
    \/ r.kind \in Queries /\ r.token \notin live /\ Refused(r)
    \/ /\ r.kind \in {"actor"} \cup PageQueries
       /\ r.token \in live /\ ~Serves(r)
       /\ Unavailable(r)

\* The network fails: a query after its retries, a logout with or without
\* its effect.  A login that was carried out leaves a session nobody holds.
SessionUnknown(s) == [SignedOut(s) EXCEPT !.status = "error"]

Lost(r) ==
    LET s == tab[r.tab]
        fails == \/ r.kind \in {"init", "login"} /\ r.current
                 \/ /\ r.kind = "revalidate"
                    /\ s.status = "authenticated" /\ s.account = r.account
    IN  /\ tab' = [tab EXCEPT ![r.tab] =
                IF fails THEN SessionUnknown(@)
                ELSE IF r.kind = "logout"
                     THEN IF r.current THEN SignedOut([@ EXCEPT !.local = 0])
                          ELSE [@ EXCEPT !.local = 0]
                ELSE IF r.kind = "revalidate" THEN Resumed(@, stored)
                ELSE QueryFailed(@, r, "other")]
        /\ live' \in {live} \cup
                (IF r.kind = "logout" THEN {live \ {r.token}} ELSE {})
        /\ requests' = requests \ {r}
        /\ UNCHANGED <<transport, owner, leased, jar, stored, incidents>>

-----------------------------------------------------------------------------
Init ==
    /\ transport \in Transports
    /\ owner = <<>> /\ live = {}
    /\ leased = {}
    /\ jar = 0
    /\ stored = [tenant |-> None, account |-> None]
    /\ tab = [t \in Tabs |-> NewTab(0)]
    /\ requests = {FirstRequest(t, 0) : t \in Tabs}
    /\ incidents = 0

UserActs(t) ==
    \/ Reload(t)
    \/ /\ Cardinality({r \in requests : r.tab = t}) < MaxRequests
       /\ \/ Initialize(t)
          \/ \E a \in Accounts : Login(t, a)
          \/ Logout(t)
          \/ Navigate(t)
          \/ Focus(t)
          \/ RefreshOptions(t)
          \/ RetryActor(t)
          \/ \E n \in Tenants : ChangeTenant(t, n)
          \/ FetchData(t)

Effects(t) == FetchOptions(t) \/ FetchActor(t) \/ SelectFallback(t)

Settles(r) == Lost(r) \/ Answered(r)

Next ==
    \/ \E t \in Tabs : UserActs(t) \/ Effects(t)
    \/ \E r \in requests : Settles(r)
    \/ Server

Spec == Init /\ [][Next]_vars

\* Every fetch settles, and React runs the effects of what it has rendered.
FairSpec ==
    /\ Spec
    /\ \A t \in Tabs, kinds \in {Transitions \cup {"revalidate"}, {"options"}, {"actor"}} :
        WF_vars(\E r \in requests :
            r.tab = t /\ r.kind \in kinds /\ r.current /\ Settles(r))
    /\ \A t \in Tabs : WF_vars(Effects(t))

-----------------------------------------------------------------------------
(* Properties. *)

\* What a Tenant page shows was served to the signed-in Account for the
\* selected Tenant: switching Tenant (AppShell.changeTenant) and signing in
\* (LoginPage.submit) drop what an earlier context left under the same key,
\* and a request that was under way meanwhile does not bring it back.
ShownDataMatchesContext ==
    \A t \in Tabs :
        LET s == tab[t]
        IN  Shows(s) /\ s.cache # NoEntry =>
                s.cache.account = s.account /\ s.cache.tenant = Selected(s)

\* A tab acts for the Account it shows: the session a request of its workspace
\* carries is one of that Account (authStore's revisions against client.ts's
\* tokens), whatever older answers arrive in between.
ActsAsShown ==
    \A r \in requests :
        r.kind \in Queries /\ r.current /\ r.token # 0 =>
            owner[r.token] = r.account

\* With the LOCAL transport, r was sent under an older session than the one
\* this tab has signed in to since, and is answered with a 401.
LateRefusal(r) ==
    /\ Settles(r)
    /\ r.kind \in Queries /\ r.token \notin live
    /\ transport = "local" /\ tab[r.tab].local \notin {0, r.token}

\* A late 401 takes no newer session's token, whatever request it answers,
\* and if apiFetch sent that request it does not sign the newer session out
\* either (client.ts, isSupersededLocalSessionResponse).  The 401 of a photo
\* does sign it out: apiFetchBlob lacks the check.
NewerSessionSurvives ==
    [][\A r \in requests : LateRefusal(r) =>
        /\ tab'[r.tab].local = tab[r.tab].local
        /\ r.kind # "photo" => tab'[r.tab].status = tab[r.tab].status]_vars

\* "Loading" and "verifying" end: with a page, an error or the sign-in page.
WaitingEnds == \A t \in Tabs : Waiting(tab[t]) ~> ~Waiting(tab[t])

\* A tab told that its Actor is unavailable leaves the Tenant, unless it gets
\* no catalog or the Tenant is available again (AppShell's listener, the
\* catalog it refetches and the fallback).
LostTenantIsLeft ==
    \A t \in Tabs :
        tab[t].actorFailed = "unavailable" ~>
            \/ tab[t].actorFailed # "unavailable"
            \/ tab[t].catalog = "failed"
            \/ Selected(tab[t]) \in ContextsOf(tab[t].account)
=============================================================================
