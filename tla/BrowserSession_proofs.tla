------------------------- MODULE BrowserSession_proofs -------------------------
(***************************************************************************)
(* Theorems about the browser side of a session, for every number of       *)
(* Accounts, Tenants, sessions and requests under way.                     *)
(***************************************************************************)
EXTENDS BrowserSession, TLAPS

(***************************************************************************)
(* Types.  Tokens are those of the n sessions there are; a login aims at   *)
(* an Account, an Actor request at a Tenant or at none.                    *)
(***************************************************************************)
Stores == [tenant : Tenants \cup {None}, account : Accounts \cup {None}]

TabTyped(s, n) == s \in AuthState /\ s.local <= n

RequestTyped(r, n) ==
    /\ r \in Request /\ r.token <= n
    /\ r.kind = "login" => r.aim \in Accounts
    /\ r.kind = "actor" => r.aim \in Tenants \cup {None}

ServerTypes ==
    /\ owner \in Seq(Accounts) /\ Len(owner) <= MaxLogins
    /\ live \subseteq 1..Len(owner)
    /\ leased \subseteq Leasable
    /\ incidents \in 0..MaxIncidents

BrowserTypes ==
    /\ transport \in Transports
    /\ jar \in Tokens /\ jar <= Len(owner)
    /\ stored \in Stores
    /\ DOMAIN tab = Tabs /\ tab = [t \in Tabs |-> tab[t]]
    /\ \A t \in Tabs : TabTyped(tab[t], Len(owner))
    /\ \A r \in requests : RequestTyped(r, Len(owner))

Types == ServerTypes /\ BrowserTypes

LEMMA TypesImply == Types => TypeOK
BY DEF Types, TypeOK, ServerTypes, BrowserTypes, TabTyped, RequestTyped, Stores

\* Sessions are added and never removed.
LEMMA TypedKept ==
    ASSUME NEW n \in Nat, NEW m \in Nat, n <= m
    PROVE  /\ \A s : TabTyped(s, n) => TabTyped(s, m)
           /\ \A r : RequestTyped(r, n) => RequestTyped(r, m)
BY DEF TabTyped, RequestTyped, AuthState, Request, Tokens

(***************************************************************************)
(* What handlers make of a tab.                                            *)
(***************************************************************************)
LEMMA ReadTyped == \A store \in Stores : ReadSelectedTenant(store) \in Tenants
BY SessionAssumption DEF ReadSelectedTenant, Stores

LEMMA SelectedTyped == \A s \in AuthState : Selected(s) \in Tenants \cup {None}
BY DEF Selected, AuthState

LEMMA TabsTyped ==
    ASSUME NEW n \in Nat, NEW s, TabTyped(s, n)
    PROVE  /\ \A store \in Stores : TabTyped(Mounted(s, store), n)
           /\ TabTyped(Unmounted(s), n) /\ TabTyped(SignedOut(s), n)
           /\ TabTyped(SessionUnknown(s), n) /\ TabTyped(Cleared(s), n)
           /\ \A store \in Stores : TabTyped(Resumed(s, store), n)
           /\ \A a \in Accounts, k \in Tokens : TabTyped(SignedIn(s, a, k), n)
           /\ \A k \in Tokens : k <= n => TabTyped([s EXCEPT !.local = k], n)
           /\ \A r : TabTyped(TokenDropped(s, r), n)
           /\ \A r : \A how \in {"unavailable", "other"} : TabTyped(QueryFailed(s, r, how), n)
           /\ TabTyped(NewTab(s.local), n)
<1>1. s \in AuthState /\ s.local <= n /\ 0 \in Tokens /\ NoEntry \in Entry
  BY SessionAssumption DEF TabTyped, Tokens, NoEntry, Entry
<1>2. \A store \in Stores : TabTyped(Mounted(s, store), n)
  BY <1>1, ReadTyped DEF TabTyped, Mounted, AuthState
<1>3. TabTyped(Unmounted(s), n)
  BY <1>1, SessionAssumption DEF TabTyped, Unmounted, AuthState
<1>4. TabTyped(SignedOut(s), n)
  BY <1>1, SessionAssumption DEF TabTyped, SignedOut, Unmounted, AuthState
<1>5. TabTyped(SessionUnknown(s), n)
  BY <1>4 DEF TabTyped, SessionUnknown, AuthState
<1>6. TabTyped(Cleared(s), n)
  BY <1>1 DEF TabTyped, Cleared, AuthState
<1>7. \A store \in Stores : TabTyped(Resumed(s, store), n)
  BY <1>2 DEF Resumed
<1>8. \A a \in Accounts, k \in Tokens : TabTyped(SignedIn(s, a, k), n)
  BY <1>1 DEF TabTyped, SignedIn, AuthState
<1>9. \A k \in Tokens : k <= n => TabTyped([s EXCEPT !.local = k], n)
  BY <1>1 DEF TabTyped, AuthState
<1>10. \A r : TabTyped(TokenDropped(s, r), n)
  BY <1>1 DEF TabTyped, TokenDropped, AuthState
<1>11. ASSUME NEW r, NEW how \in {"unavailable", "other"}
       PROVE  TabTyped(QueryFailed(s, r, how), n)
  BY <1>1 DEF TabTyped, QueryFailed, AuthState
<1>12. TabTyped(NewTab(s.local), n)
  BY <1>1, SessionAssumption DEF TabTyped, NewTab, AuthState
<1> QED BY <1>2, <1>3, <1>4, <1>5, <1>6, <1>7, <1>8, <1>9, <1>10, <1>11, <1>12

(***************************************************************************)
(* Requests.                                                               *)
(***************************************************************************)
LEMMA TokenTyped ==
    ASSUME Types, NEW t \in Tabs
    PROVE  TokenSent(t) \in Tokens /\ TokenSent(t) <= Len(owner)
BY DEF Types, BrowserTypes, TabTyped, AuthState, TokenSent

LEMMA NewRequestTyped ==
    ASSUME Types, NEW t \in Tabs, NEW kind \in Kinds, NEW aim,
           IF kind = "login" THEN aim \in Accounts ELSE aim \in Tenants \cup {None}
    PROVE  RequestTyped(NewRequest(t, kind, aim), Len(owner))
<1>1. TokenSent(t) \in Tokens /\ TokenSent(t) <= Len(owner)
  BY TokenTyped
<1>2. ReadSelectedTenant(stored) \in Tenants /\ DefaultTenant \in Tenants
  BY ReadTyped, SessionAssumption DEF Types, BrowserTypes
<1>3. tab[t].account \in Accounts \cup {None}
  BY DEF Types, BrowserTypes, TabTyped, AuthState
<1> QED BY <1>1, <1>2, <1>3 DEF NewRequest, RequestTyped, Request

LEMMA FirstRequestTyped ==
    ASSUME Types, NEW t \in Tabs
    PROVE  RequestTyped(FirstRequest(t, TokenSent(t)), Len(owner))
<1>1. TokenSent(t) \in Tokens /\ TokenSent(t) <= Len(owner)
  BY TokenTyped
<1> QED BY <1>1, SessionAssumption DEF FirstRequest, RequestTyped, Request, Kinds, Transitions

LEMMA FetchesTyped ==
    ASSUME Types, NEW t \in Tabs, NEW kinds \in SUBSET (Queries \cup {"revalidate"})
    PROVE  \A r \in Fetches(t, kinds) : RequestTyped(r, Len(owner))
<1>1. \A r \in Fetches(t, kinds) :
        \E k \in kinds : r = NewRequest(t, k, IF k = "actor" THEN Selected(tab[t]) ELSE None)
  BY DEF Fetches
<1>2. Selected(tab[t]) \in Tenants \cup {None}
  BY SelectedTyped DEF Types, BrowserTypes, TabTyped
<1>3. \A k \in kinds : k \in Kinds /\ k # "login"
  BY DEF Queries, PageQueries, Kinds
<1> QED BY <1>1, <1>2, <1>3, NewRequestTyped

\* A request that is superseded keeps its tab, kind and token.
LEMMA DiscardedKeeps ==
    ASSUME NEW n, NEW r, RequestTyped(r, n)
    PROVE  /\ RequestTyped(Discarded(r), n) /\ ~Discarded(r).current
           /\ Discarded(r).tab = r.tab /\ Discarded(r).kind = r.kind
           /\ Discarded(r).token = r.token
BY DEF Discarded, RequestTyped, Request, Queries, PageQueries

LEMMA SupersedingTyped ==
    ASSUME NEW n, NEW rs, \A r \in rs : RequestTyped(r, n), NEW t, NEW kinds
    PROVE  \A r \in Superseding(t, kinds, rs) : RequestTyped(r, n)
BY DiscardedKeeps DEF Superseding


(***************************************************************************)
(* Every step keeps the types.                                             *)
(***************************************************************************)
LEMMA TypesInit == Init => Types
<1> SUFFICES ASSUME Init PROVE Types
  OBVIOUS
<1>1. Len(owner) = 0 /\ ServerTypes
  BY SessionAssumption DEF Init, ServerTypes
<1>2. \A t \in Tabs : TabTyped(NewTab(0), 0) /\ RequestTyped(FirstRequest(t, 0), 0)
  BY SessionAssumption DEF TabTyped, NewTab, AuthState, NoEntry, Entry, Tokens,
     RequestTyped, FirstRequest, Request, Kinds, Transitions
<1>3. stored \in Stores /\ jar \in Tokens /\ jar <= Len(owner)
  BY <1>1, SessionAssumption DEF Init, Stores, Tokens
<1> QED BY <1>1, <1>2, <1>3 DEF Init, Types, BrowserTypes

\* A step of a tab that leaves the server and the cookie as they are.
LEMMA TabStepTyped ==
    ASSUME Types, UNCHANGED <<transport, jar, incidents, server>>,
           NEW t \in Tabs, NEW s, tab' = [tab EXCEPT ![t] = s], TabTyped(s, Len(owner)),
           stored' \in Stores, \A r \in requests' : RequestTyped(r, Len(owner))
    PROVE  Types'
<1>1. ServerTypes'
  BY DEF Types, ServerTypes, server
<1>2. Len(owner') = Len(owner)
  BY DEF server
<1>3. /\ DOMAIN tab' = Tabs /\ tab' = [u \in Tabs |-> tab'[u]]
      /\ \A u \in Tabs : TabTyped(tab'[u], Len(owner'))
  BY <1>2 DEF Types, BrowserTypes
<1> QED BY <1>1, <1>2, <1>3 DEF Types, BrowserTypes

\* As TabStepTyped, for a step that changes no tab.
LEMMA QuietStepTyped ==
    ASSUME Types, UNCHANGED <<transport, jar, stored, tab, incidents, server>>,
           \A r \in requests' : RequestTyped(r, Len(owner))
    PROVE  Types'
BY DEF Types, ServerTypes, BrowserTypes, server

LEMMA RequestsTyped ==
    ASSUME Types, NEW t \in Tabs
    PROVE  /\ TabTyped(tab[t], Len(owner)) /\ tab[t] \in AuthState
           /\ \A r \in requests : RequestTyped(r, Len(owner)) /\ r.tab \in Tabs
           /\ stored \in Stores /\ Len(owner) \in Nat
           /\ \A kinds : \A r \in Superseding(t, kinds, requests) :
                  RequestTyped(r, Len(owner))
<1>1. \A r \in requests : RequestTyped(r, Len(owner))
  BY DEF Types, BrowserTypes
<1>2. \A kinds : \A r \in Superseding(t, kinds, requests) : RequestTyped(r, Len(owner))
  <2> TAKE kinds
  <2> QED BY <1>1, SupersedingTyped
<1>3. TabTyped(tab[t], Len(owner)) /\ stored \in Stores /\ Len(owner) \in Nat
  BY DEF Types, BrowserTypes, ServerTypes
<1> QED BY <1>1, <1>2, <1>3 DEF TabTyped, RequestTyped, Request

LEMMA SwitchTyped ==
    ASSUME Types, NEW t \in Tabs, NEW m \in Tenants, Switch(t, m)
    PROVE  Types'
<1> USE RequestsTyped
<1>1. TabTyped(Unmounted(Cleared(tab[t])), Len(owner))
  BY TabsTyped
<1>2. stored' \in Stores
  BY DEF Switch, Stores, AuthState
<1>3. {"revalidate"} \in SUBSET (Queries \cup {"revalidate"})
  OBVIOUS
<1>4. \A r \in requests' : RequestTyped(r, Len(owner))
  BY <1>3, FetchesTyped DEF Switch
<1> QED BY <1>1, <1>2, <1>4, TabStepTyped DEF Switch

LEMMA UserTypes ==
    ASSUME Types, NEW t \in Tabs, UserActs(t)
    PROVE  Types'
<1> USE RequestsTyped
<1> DEFINE n == Len(owner)
<1>1. CASE Reload(t)
  <2>1. TabTyped(NewTab(tab[t].local), n) /\ RequestTyped(FirstRequest(t, TokenSent(t)), n)
    BY TabsTyped, FirstRequestTyped
  <2>2. \A r \in requests' : RequestTyped(r, n)
    BY <1>1, <2>1 DEF Reload
  <2> QED BY <1>1, <2>1, <2>2, TabStepTyped DEF Reload, server
<1>2. CASE Initialize(t)
  <2>1. RequestTyped(NewRequest(t, "init", None), n)
    BY NewRequestTyped DEF Kinds, Transitions
  <2>2. TabTyped([tab[t] EXCEPT !.status = "loading"], n)
    BY DEF TabTyped, AuthState
  <2>3. \A r \in requests' : RequestTyped(r, n)
    BY <1>2, <2>1 DEF Initialize
  <2> QED BY <1>2, <2>2, <2>3, TabStepTyped DEF Initialize
<1>3. CASE \E a \in Accounts : Login(t, a)
  <2>1. PICK a \in Accounts : Login(t, a)
    BY <1>3
  <2>2. RequestTyped(NewRequest(t, "login", a), n)
    BY NewRequestTyped DEF Kinds, Transitions
  <2>3. TabTyped([tab[t] EXCEPT !.status = "loading"], n)
    BY DEF TabTyped, AuthState
  <2>4. \A r \in requests' : RequestTyped(r, n)
    BY <2>1, <2>2 DEF Login
  <2> QED BY <2>1, <2>3, <2>4, TabStepTyped DEF Login
<1>4. CASE Logout(t)
  <2>1. RequestTyped(NewRequest(t, "logout", None), n)
    BY NewRequestTyped DEF Kinds, Transitions
  <2>2. \A r \in requests' : RequestTyped(r, n)
    BY <1>4, <2>1 DEF Logout
  <2> QED BY <1>4, <2>2, QuietStepTyped DEF Logout
<1>5. \A kinds \in SUBSET (Queries \cup {"revalidate"}) :
        \A r \in requests \cup Fetches(t, kinds) : RequestTyped(r, n)
  BY FetchesTyped
<1>6. {"revalidate"} \in SUBSET (Queries \cup {"revalidate"})
      /\ \A k \in Queries : {k} \in SUBSET (Queries \cup {"revalidate"})
  OBVIOUS
<1>7. {"options", "actor"} \cup PageQueries \subseteq Queries
  BY DEF Queries, PageQueries
<1>8. CASE Navigate(t)
  <2>1. \A r \in requests' : RequestTyped(r, n)
    BY <1>8, <1>5, <1>6 DEF Navigate
  <2>2. TabTyped(Unmounted(tab[t]), n)
    BY TabsTyped
  <2> QED BY <1>8, <2>1, <2>2, TabStepTyped DEF Navigate
<1>9. CASE Focus(t)
  <2>1. \A r \in requests' : RequestTyped(r, n)
    BY <1>9, <1>5, <1>6 DEF Focus
  <2> QED BY <1>9, <2>1, QuietStepTyped DEF Focus
<1>10. CASE RefreshOptions(t)
  <2>1. \A r \in requests' : RequestTyped(r, n)
    BY <1>10, <1>5, <1>6, <1>7 DEF RefreshOptions
  <2> DEFINE s == [tab[t] EXCEPT !.catalog =
            IF @ = "failed" /\ tab[t].options = {} THEN "loading" ELSE @]
  <2>2. TabTyped(s, n)
    BY DEF TabTyped, AuthState
  <2>3. tab' = [tab EXCEPT ![t] = s]
    BY <1>10 DEF RefreshOptions
  <2> QED BY <1>10, <2>1, <2>2, <2>3, TabStepTyped DEF RefreshOptions
<1>11. CASE RetryActor(t)
  <2>1. \A r \in requests' : RequestTyped(r, n)
    BY <1>11, <1>5, <1>6, <1>7 DEF RetryActor
  <2> DEFINE s == [tab[t] EXCEPT !.actorFailed = IF ActorReady(tab[t]) THEN @ ELSE "no"]
  <2>2. TabTyped(s, n)
    BY DEF TabTyped, AuthState
  <2>3. tab' = [tab EXCEPT ![t] = s]
    BY <1>11 DEF RetryActor
  <2> QED BY <1>11, <2>1, <2>2, <2>3, TabStepTyped DEF RetryActor
<1>12. CASE \E m \in Tenants : ChangeTenant(t, m)
  BY <1>12, SwitchTyped DEF ChangeTenant
<1>13. CASE FetchData(t)
  <2>1. PICK k \in PageQueries \cup {"actor"} : requests' = requests \cup Fetches(t, {k})
    BY <1>13 DEF FetchData
  <2>2. \A r \in requests' : RequestTyped(r, n)
    BY <2>1, <1>5, <1>6, <1>7
  <2> QED BY <1>13, <2>2, QuietStepTyped DEF FetchData
<1> QED BY <1>1, <1>2, <1>3, <1>4, <1>8, <1>9, <1>10, <1>11, <1>12, <1>13 DEF UserActs

LEMMA EffectsTypes ==
    ASSUME Types, NEW t \in Tabs, Effects(t)
    PROVE  Types'
<1> USE RequestsTyped
<1>1. ASSUME FetchOptions(t) \/ FetchActor(t)
      PROVE  Types'
  <2>1. \A k \in Queries : {k} \in SUBSET (Queries \cup {"revalidate"})
    OBVIOUS
  <2>2. \A r \in requests' : RequestTyped(r, Len(owner))
    BY <1>1, <2>1, FetchesTyped DEF FetchOptions, FetchActor, Queries, PageQueries
  <2> QED BY <1>1, <2>2, QuietStepTyped DEF FetchOptions, FetchActor
<1>2. CASE SelectFallback(t)
  <2>1. PICK m \in tab[t].options : Switch(t, m)
    BY <1>2 DEF SelectFallback
  <2>2. m \in Tenants
    BY DEF AuthState
  <2> QED BY <2>1, <2>2, SwitchTyped
<1> QED BY <1>1, <1>2 DEF Effects

\* Answers.
LEMMA AnswerTypes ==
    ASSUME Types, NEW r \in requests, Settles(r)
    PROVE  Types'
<1> DEFINE t == r.tab  n == Len(owner)
<1>1. /\ t \in Tabs /\ RequestTyped(r, n) /\ r \in Request /\ n \in Nat
      /\ TabTyped(tab[t], n) /\ tab[t] \in AuthState /\ stored \in Stores
  <2>1. RequestTyped(r, n)
    BY DEF Types, BrowserTypes
  <2>2. t \in Tabs /\ r \in Request
    BY <2>1 DEF RequestTyped, Request
  <2> QED BY <2>1, <2>2, RequestsTyped
<1>2. \A q \in requests \ {r} : RequestTyped(q, n)
  BY RequestsTyped, <1>1
<1>3. \A kinds : \A q \in Superseding(t, kinds, requests \ {r}) : RequestTyped(q, n)
  <2> TAKE kinds
  <2> QED BY <1>2, SupersedingTyped
<1>4. r.token \in live => r.token \in Tokens /\ owner[r.token] \in Accounts
  <2>1. owner \in Seq(Accounts) /\ n <= MaxLogins /\ live \subseteq 1..n /\ MaxLogins \in Nat
    BY SessionAssumption DEF Types, ServerTypes
  <2>2. \A k \in 1..n : k \in 0..MaxLogins /\ owner[k] \in Accounts
    BY <2>1, <1>1
  <2> QED BY <2>1, <2>2 DEF Tokens
<1>5. \A a \in Accounts : Reconciled(stored, a) \in Stores
  BY <1>1 DEF Reconciled, Stores
<1>6. TabTyped(TokenDropped(tab[t], r), n)
  BY <1>1, TabsTyped
<1>7. /\ \A how \in {"unavailable", "other"} : TabTyped(QueryFailed(tab[t], r, how), n)
      /\ \A store \in Stores : TabTyped(Resumed(tab[t], store), n)
      /\ TabTyped(SignedOut(tab[t]), n) /\ TabTyped(SessionUnknown(tab[t]), n)
  BY <1>1, TabsTyped
<1>8. ASSUME InitAnswered(r) PROVE Types'
  <2> DEFINE s == IF r.token \in live THEN tab[t] ELSE TokenDropped(tab[t], r)
             entered == r.current /\ r.token \in live
             next == IF entered THEN Mounted(SignedIn(s, owner[r.token], r.token), stored')
                     ELSE IF r.current THEN SignedOut(s) ELSE s
  <2>1. stored' \in Stores
    BY <1>8, <1>1, <1>4, <1>5 DEF InitAnswered
  <2>2. TabTyped(s, n) /\ (entered => TabTyped(SignedIn(s, owner[r.token], r.token), n))
    BY <1>1, <1>4, <1>6, TabsTyped
  <2>3. TabTyped(next, n)
    <3>1. CASE entered
      BY <3>1, <2>1, <2>2, <1>1, TabsTyped
    <3>2. CASE ~entered
      BY <3>2, <2>2, <1>1, TabsTyped
    <3> QED BY <3>1, <3>2
  <2>4. tab' = [tab EXCEPT ![t] = next]
    BY <1>8 DEF InitAnswered
  <2> HIDE DEF next
  <2>5. requests' = requests \ {r} /\ UNCHANGED <<transport, jar, incidents, server>>
    BY <1>8 DEF InitAnswered
  <2> QED BY <2>1, <2>3, <2>4, <2>5, <1>1, <1>2, TabStepTyped
<1>9. ASSUME RevalidateAnswered(r) PROVE Types'
  <2> DEFINE same == tab[t].status = "authenticated" /\ tab[t].account = r.account
             found == same /\ r.token \in live
             s == SignedIn(tab[t], owner[r.token], r.token)
             stays == tab[t].mounted /\ s.account = tab[t].account
             session == tab[t].session = r.token
             next == IF found THEN
                         IF ~stays THEN Mounted(s, stored')
                         ELSE IF session THEN s
                         ELSE [s EXCEPT !.catalog = "loading", !.options = {}]
                     ELSE IF r.token \in live \cup {0} /\ ~same THEN Resumed(tab[t], stored)
                     ELSE SignedOut(TokenDropped(tab[t], r))
  <2>1. stored' \in Stores
    BY <1>9, <1>1, <1>4, <1>5 DEF RevalidateAnswered
  <2>2. TabTyped(next, n)
    <3>1. CASE found
      <4>1. TabTyped(s, n)
        BY <3>1, <1>1, <1>4, TabsTyped
      <4>2. TabTyped([s EXCEPT !.catalog = "loading", !.options = {}], n)
        BY <4>1 DEF TabTyped, AuthState
      <4>3. TabTyped(Mounted(s, stored'), n)
        BY <4>1, <2>1, <1>1, TabsTyped
      <4> QED BY <3>1, <4>1, <4>2, <4>3
    <3>2. CASE ~found
      BY <3>2, <1>1, <1>6, <1>7, TabsTyped
    <3> QED BY <3>1, <3>2
  <2>3. tab' = [tab EXCEPT ![t] = next]
    BY <1>9 DEF RevalidateAnswered
  <2> HIDE DEF next
  <2>4. UNCHANGED <<transport, jar, incidents, server>>
        /\ \A q \in requests' : RequestTyped(q, n)
    BY <1>9, <1>2, <1>3 DEF RevalidateAnswered
  <2> QED BY <2>1, <2>2, <2>3, <2>4, <1>1, TabStepTyped
<1>10. ASSUME LoginAnswered(r) PROVE Types'
  <2> DEFINE token == n + 1
             u == [tab[t] EXCEPT !.local = IF transport = "local" THEN token ELSE @]
             s == Cleared(u)
             next == IF r.current THEN Mounted(SignedIn(s, r.aim, token), stored') ELSE s
  <2>1. r.aim \in Accounts /\ token \in Tokens /\ n < MaxLogins
    BY <1>10, <1>1, SessionAssumption DEF LoginAnswered, RequestTyped, Tokens
  <2>2. /\ ServerTypes' /\ Len(owner') = token
    <3>1. owner' = Append(owner, r.aim) /\ live' = live \cup {token}
          /\ UNCHANGED <<leased, incidents>>
      BY <1>10 DEF LoginAnswered
    <3>2. owner \in Seq(Accounts) /\ live \subseteq 1..n /\ leased \subseteq Leasable
          /\ incidents \in 0..MaxIncidents
      BY DEF Types, ServerTypes
    <3>3. owner' \in Seq(Accounts) /\ Len(owner') = token
      BY <3>1, <3>2, <2>1
    <3>4. live' \subseteq 1..token
      <4>1. n \in Nat /\ 1..n \subseteq 1..(n + 1) /\ n + 1 \in 1..(n + 1)
        BY <1>1
      <4> QED BY <3>1, <3>2, <4>1
    <3>5. token <= MaxLogins
      BY <2>1, <1>1, SessionAssumption
    <3> QED BY <3>1, <3>2, <3>3, <3>4, <3>5 DEF ServerTypes
  <2>3. stored' \in Stores
    BY <1>10, <2>1, <1>5, <1>1 DEF LoginAnswered
  <2>4. TabTyped(u, token)
    BY <1>1, <2>1 DEF TabTyped, AuthState, Tokens
  <2>5. TabTyped(s, token)
    BY <2>4, <2>1, TabsTyped DEF Tokens
  <2>6. TabTyped(SignedIn(s, r.aim, token), token)
    BY <2>5, <2>1, TabsTyped DEF Tokens
  <2>7. TabTyped(Mounted(SignedIn(s, r.aim, token), stored'), token)
    BY <2>6, <2>3, <2>1, TabsTyped DEF Tokens
  <2>8. TabTyped(next, token)
    BY <2>5, <2>7
  <2>9. tab' = [tab EXCEPT ![t] = next]
    BY <1>10 DEF LoginAnswered
  <2> HIDE DEF next
  <2>10. DOMAIN tab' = Tabs /\ tab' = [v \in Tabs |-> tab'[v]]
    BY <2>9 DEF Types, BrowserTypes
  <2>11. \A v \in Tabs : TabTyped(tab'[v], Len(owner'))
    <3> TAKE v \in Tabs
    <3>1. TabTyped(tab[v], token)
      BY <1>1, TypedKept DEF Types, BrowserTypes
    <3> QED BY <3>1, <2>2, <2>8, <2>9 DEF Types, BrowserTypes
  <2>12. \A q \in requests' : RequestTyped(q, Len(owner'))
    <3>1. requests' = Superseding(t, Queries, requests \ {r})
      BY <1>10 DEF LoginAnswered
    <3>2. \A q \in requests' : RequestTyped(q, n)
      BY <3>1, <1>3
    <3>3. n <= token /\ token \in Nat
      BY <1>1
    <3>4. \A q : RequestTyped(q, n) => RequestTyped(q, token)
      BY <3>3, <1>1, TypedKept
    <3> QED BY <3>2, <3>4, <2>2
  <2>13. transport' \in Transports /\ jar' \in Tokens /\ jar' <= Len(owner')
    <3>1. transport \in Transports /\ jar \in Tokens /\ jar <= n
      BY DEF Types, BrowserTypes
    <3> QED BY <3>1, <1>10, <2>1, <2>2, <1>1 DEF LoginAnswered, Tokens
  <2> QED BY <2>2, <2>3, <2>10, <2>11, <2>12, <2>13 DEF Types, BrowserTypes
<1>11. ASSUME NEW s, TabTyped(s, n), tab' = [tab EXCEPT ![t] = s],
              live' \subseteq live, jar' \in {0, jar},
              UNCHANGED <<transport, owner, leased, stored, incidents>>,
              \A q \in requests' : RequestTyped(q, n)
       PROVE  Types'
  <2>1. ServerTypes' /\ jar' \in Tokens /\ jar' <= n
    BY <1>11, <1>1, SessionAssumption DEF Types, ServerTypes, BrowserTypes, Tokens
  <2>2. DOMAIN tab' = Tabs /\ tab' = [v \in Tabs |-> tab'[v]]
        /\ \A v \in Tabs : TabTyped(tab'[v], n)
    BY <1>11 DEF Types, BrowserTypes
  <2> QED BY <1>11, <2>1, <2>2 DEF Types, BrowserTypes
<1>12. TabTyped([tab[t] EXCEPT !.local = 0], n)
       /\ TabTyped(SignedOut([tab[t] EXCEPT !.local = 0]), n)
  <2>1. TabTyped([tab[t] EXCEPT !.local = 0], n)
    BY <1>1, SessionAssumption DEF TabTyped, AuthState, Tokens
  <2> QED BY <2>1, <1>1, TabsTyped
<1>13. ASSUME LogoutAnswered(r) PROVE Types'
  <2>1. TabTyped([Cleared(tab[t]) EXCEPT !.local = 0], n)
    <3>1. TabTyped(Cleared(tab[t]), n) /\ 0 \in Tokens /\ 0 <= n
      BY <1>1, TabsTyped, SessionAssumption DEF Tokens
    <3> QED BY <3>1, <1>1, TabsTyped
  <2>2. TabTyped(SignedOutBy(r, tab[t]), n)
    BY <2>1, <1>1, TabsTyped DEF SignedOutBy
  <2>3. /\ tab' = [tab EXCEPT ![t] = SignedOutBy(r, tab[t])]
        /\ live' \subseteq live /\ jar' = 0
        /\ UNCHANGED <<transport, owner, leased, stored, incidents>>
        /\ \A q \in requests' : RequestTyped(q, n)
    BY <1>13, <1>3 DEF LogoutAnswered
  <2> QED BY <2>2, <2>3, <1>11
<1>14. ASSUME OptionsAnswered(r) PROVE Types'
  <2> DEFINE s == [tab[t] EXCEPT !.catalog = "ready",
                                 !.options = ContextsOf(owner[r.token])]
             changed == Selected(s) # Selected(tab[t])
             used == r.current /\ Workspace(tab[t])
             next == IF ~used THEN tab[t]
                     ELSE IF changed THEN [s EXCEPT !.actorFailed = "no"] ELSE s
  <2>1. TabTyped(s, n) /\ s \in AuthState
    BY <1>1 DEF TabTyped, AuthState, ContextsOf
  <2>2. TabTyped([s EXCEPT !.actorFailed = "no"], n)
    BY <2>1 DEF TabTyped, AuthState
  <2>3. TabTyped(next, n)
    BY <2>1, <2>2, <1>1
  <2>4. stored' \in Stores
    <3>1. Selected(s) # None => [tenant |-> Selected(s), account |-> s.account] \in Stores
      BY <2>1, SelectedTyped DEF Stores, AuthState
    <3>2. stored' \in {stored} \/ (Selected(s) # None
            /\ stored' = [tenant |-> Selected(s), account |-> s.account])
      BY <1>14 DEF OptionsAnswered
    <3> QED BY <3>1, <3>2, <1>1
  <2>5. tab' = [tab EXCEPT ![t] = next]
    BY <1>14 DEF OptionsAnswered
  <2> HIDE DEF next
  <2>6. requests' = requests \ {r} /\ UNCHANGED <<transport, jar, incidents, server>>
    BY <1>14 DEF OptionsAnswered
  <2> QED BY <2>3, <2>4, <2>5, <2>6, <1>1, <1>2, TabStepTyped
<1>15. ASSUME ActorAnswered(r) PROVE Types'
  <2> DEFINE s == tab[t]
             shown == r.aim = Selected(s) /\ r.account = s.account
             next == IF ~r.current THEN s
                     ELSE [s EXCEPT
                        !.actor = [account |-> r.account, tenant |-> r.aim, of |-> r.tenant],
                        !.actorFailed = IF shown THEN "no" ELSE s.actorFailed]
  <2>1. [account |-> r.account, tenant |-> r.aim, of |-> r.tenant] \in Entry
    BY <1>15, <1>1 DEF ActorAnswered, RequestTyped, Request, Entry
  <2>2. TabTyped(next, n)
    BY <1>1, <2>1 DEF TabTyped, AuthState
  <2>3. tab' = [tab EXCEPT ![t] = next]
    BY <1>15 DEF ActorAnswered
  <2>4. requests' = requests \ {r} /\ UNCHANGED <<transport, jar, stored, incidents, server>>
    BY <1>15 DEF ActorAnswered
  <2> HIDE DEF next
  <2> QED BY <2>2, <2>3, <2>4, <1>1, <1>2, TabStepTyped
<1>16. ASSUME DataAnswered(r) PROVE Types'
  <2> DEFINE next == [tab[t] EXCEPT !.cache =
            IF r.current
            THEN [account |-> owner[r.token], tenant |-> r.tenant, of |-> r.tenant]
            ELSE @]
  <2>1. [account |-> owner[r.token], tenant |-> r.tenant, of |-> r.tenant] \in Entry
    BY <1>16, <1>1, <1>4 DEF DataAnswered, Serves, Request, Entry
  <2>2. TabTyped(next, n)
    BY <1>1, <2>1 DEF TabTyped, AuthState
  <2>3. tab' = [tab EXCEPT ![t] = next]
    BY <1>16 DEF DataAnswered
  <2>4. requests' = requests \ {r} /\ UNCHANGED <<transport, jar, stored, incidents, server>>
    BY <1>16 DEF DataAnswered
  <2> HIDE DEF next
  <2> QED BY <2>2, <2>3, <2>4, <1>1, <1>2, TabStepTyped
<1>17. ASSUME Refused(r) PROVE Types'
  <2> DEFINE s == TokenDropped(tab[t], r)
             signsOut == Interrupts(r) /\ s.status \in {"authenticated", "loading"}
             next == IF signsOut THEN SignedOut(s) ELSE QueryFailed(s, r, "other")
  <2>1. TabTyped(next, n)
    BY <1>1, <1>6, TabsTyped
  <2>2. tab' = [tab EXCEPT ![t] = next]
        /\ UNCHANGED <<transport, jar, stored, incidents, server>>
    BY <1>17 DEF Refused
  <2>3. \A q \in requests' : RequestTyped(q, n)
    BY <1>17, <1>2, <1>3 DEF Refused
  <2> HIDE DEF next
  <2> QED BY <2>1, <2>2, <2>3, <1>1, TabStepTyped
<1>18. ASSUME Unavailable(r) PROVE Types'
  <2>1. {"options"} \in SUBSET (Queries \cup {"revalidate"})
    BY DEF Queries, PageQueries
  <2>2. \A q \in requests' : RequestTyped(q, n)
    BY <1>18, <2>1, <1>1, <1>2, FetchesTyped DEF Unavailable
  <2>3. tab' = [tab EXCEPT ![t] = QueryFailed(tab[t], r, "unavailable")]
        /\ UNCHANGED <<transport, jar, stored, incidents, server>>
    BY <1>18 DEF Unavailable
  <2> QED BY <2>2, <2>3, <1>1, <1>7, TabStepTyped
<1>19. ASSUME Lost(r) PROVE Types'
  <2>1. PICK s : tab' = [tab EXCEPT ![t] = s] /\ TabTyped(s, n)
    BY <1>19, <1>1, <1>7, <1>12 DEF Lost
  <2>2. live' \subseteq live
    BY <1>19 DEF Lost
  <2>3. requests' = requests \ {r}
        /\ UNCHANGED <<transport, owner, leased, jar, stored, incidents>>
    BY <1>19 DEF Lost
  <2> QED BY <2>1, <2>2, <2>3, <1>2, <1>11
<1> QED BY <1>8, <1>9, <1>10, <1>13, <1>14, <1>15, <1>16, <1>17, <1>18, <1>19
        DEF Settles, Answered

LEMMA ServerStepTypes == Types /\ Server => Types'
<1> SUFFICES ASSUME Types, Server PROVE Types'
  OBVIOUS
<1>1. ServerTypes' /\ UNCHANGED <<owner, browser>>
  <2>1. CASE \E token \in live : SessionEnds(token)
    BY <2>1, SessionAssumption DEF Types, ServerTypes, SessionEnds
  <2>2. CASE \E c \in Leasable : LeaseApproved(c)
    BY <2>2, SessionAssumption DEF Types, ServerTypes, LeaseApproved
  <2>3. CASE \E c \in Leasable : LeaseEnds(c)
    BY <2>3 DEF Types, ServerTypes, LeaseEnds
  <2> QED BY <2>1, <2>2, <2>3 DEF Server
<1> QED BY <1>1 DEF Types, BrowserTypes, browser

LEMMA TypesStep == Types /\ [Next]_vars => Types'
<1> SUFFICES ASSUME Types, [Next]_vars PROVE Types'
  OBVIOUS
<1>1. CASE Next
  BY <1>1, UserTypes, EffectsTypes, AnswerTypes, ServerStepTypes DEF Next
<1>2. CASE UNCHANGED vars
  BY <1>2 DEF vars, Types, ServerTypes, BrowserTypes
<1> QED BY <1>1, <1>2

\* The tabs, what they share and their requests stay of their types, and every
\* token is of a session there was.
THEOREM AlwaysTyped == Spec => []Types
BY TypesInit, TypesStep, PTL DEF Spec

\* TypeOK: whatever answers arrive in whatever order, the state of the tabs,
\* of what they share and of their requests keeps its types, and no token
\* is of a session that was never made.
THEOREM TypeCorrect == Spec => []TypeOK
BY AlwaysTyped, TypesImply, PTL

(***************************************************************************)
(* A late 401.                                                             *)
(***************************************************************************)
LEMMA QueryFailedKeeps ==
    ASSUME NEW s \in AuthState, NEW r, NEW how
    PROVE  /\ QueryFailed(s, r, how).local = s.local
           /\ QueryFailed(s, r, how).status = s.status
           /\ QueryFailed(s, r, how).account = s.account
           /\ QueryFailed(s, r, how).mounted = s.mounted
           /\ QueryFailed(s, r, how).requested = s.requested
           /\ QueryFailed(s, r, how).cache = s.cache
BY DEF QueryFailed, AuthState

LEMMA NewerKept ==
    ASSUME Types, NEW r \in requests, LateRefusal(r)
    PROVE  /\ tab'[r.tab].local = tab[r.tab].local
           /\ r.kind # "photo" => tab'[r.tab].status = tab[r.tab].status
<1> USE DEF LateRefusal
<1>1. r.tab \in Tabs /\ tab[r.tab] \in AuthState /\ DOMAIN tab = Tabs
  BY RequestsTyped DEF Types, BrowserTypes, RequestTyped, Request
<1>2. r.kind \notin {"init", "login", "logout", "revalidate"}
  BY DEF Queries, PageQueries
<1>3. Lost(r) \/ Refused(r)
  BY <1>2 DEF Settles, Answered, InitAnswered, RevalidateAnswered, LoginAnswered,
     LogoutAnswered, OptionsAnswered, ActorAnswered, DataAnswered, Serves
<1>4. CASE Lost(r)
  <2>1. tab' = [tab EXCEPT ![r.tab] = QueryFailed(tab[r.tab], r, "other")]
    BY <1>4, <1>2 DEF Lost
  <2> QED BY <2>1, <1>1, QueryFailedKeeps
<1>5. CASE Refused(r)
  <2>1. TokenDropped(tab[r.tab], r) = tab[r.tab]
    BY <1>1 DEF TokenDropped, AuthState
  <2>2. tab' = [tab EXCEPT ![r.tab] =
            IF Interrupts(r) /\ tab[r.tab].status \in {"authenticated", "loading"}
            THEN SignedOut(tab[r.tab]) ELSE QueryFailed(tab[r.tab], r, "other")]
    BY <1>5, <2>1 DEF Refused
  <2>3. SignedOut(tab[r.tab]).local = tab[r.tab].local
    BY <1>1 DEF SignedOut, Unmounted, AuthState
  <2>4. r.kind # "photo" => ~Interrupts(r)
    BY DEF Interrupts, Superseded
  <2> QED BY <2>2, <2>3, <2>4, <1>1, QueryFailedKeeps
<1> QED BY <1>3, <1>4, <1>5

\* NewerSessionSurvives: of any number of sessions and requests, a late 401
\* takes no newer session's LOCAL token, and one that answers apiFetch leaves
\* the newer session signed in (client.ts, isSupersededLocalSessionResponse).
THEOREM NewerSurvives == Spec => NewerSessionSurvives
<1>1. Types => \A r \in requests : LateRefusal(r) =>
        /\ tab'[r.tab].local = tab[r.tab].local
        /\ r.kind # "photo" => tab'[r.tab].status = tab[r.tab].status
  BY NewerKept
<1> QED BY <1>1, AlwaysTyped, PTL DEF Spec, NewerSessionSurvives

(***************************************************************************)
(* Whom a tab acts for.  Tabs that share no cookie, the tabs of the LOCAL  *)
(* transport or a single tab, are each on their own: Sound speaks of one   *)
(* tab, with the token k it would send.  A transition that may still sign  *)
(* in (Entering) is alone in its tab and finds nobody signed in there, so  *)
(* the session a tab's requests carry is the one of the Account it shows.  *)
(***************************************************************************)
Separate == transport = "local" \/ \A t, u \in Tabs : t = u

Entering(r) == r.kind = "login" \/ (r.kind = "init" /\ r.current)

Acting(r) == r.kind = "revalidate" \/ (r.kind \in Queries /\ r.current)

Sound(t, s, k, o, rs) ==
    /\ s.status = "authenticated" => k = 0 \/ o[k] = s.account
    /\ \A r \in rs : r.tab = t =>
        /\ Entering(r) => /\ s.status \in {"loading", "anonymous"}
                          /\ \A q \in rs : q.tab = t /\ Entering(q) => q = r
        /\ r.kind = "init" /\ r.current => k \in {0, r.token}
        /\ r.token # 0 /\ Acting(r) => o[r.token] = r.account

Acts == \A t \in Tabs : Sound(t, tab[t], TokenSent(t), owner, requests)

\* Fewer requests, no token, or nobody signed in: as sound as before.
LEMMA SoundKept ==
    ASSUME NEW t, NEW s, NEW k, NEW o, NEW rs, Sound(t, s, k, o, rs),
           NEW s2, NEW k2, NEW rs2 \in SUBSET rs,
           \/ s2.status = s.status /\ s2.account = s.account
           \/ s2.status = "anonymous",
           k2 \in {0, k}
    PROVE  Sound(t, s2, k2, o, rs2)
<1>1. s2.status = "authenticated" => s.status = "authenticated" /\ s2.account = s.account
  OBVIOUS
<1>2. s.status \in {"loading", "anonymous"} => s2.status \in {"loading", "anonymous"}
  OBVIOUS
<1> QED BY <1>1, <1>2 DEF Sound

\* Nothing is entering, so the tab may be in any state that is right itself.
LEMMA SoundAlone ==
    ASSUME NEW t, NEW s, NEW k, NEW o, NEW rs, Sound(t, s, k, o, rs),
           \A r \in rs : r.tab = t => ~Entering(r),
           NEW s2, NEW k2, s2.status = "authenticated" => k2 = 0 \/ o[k2] = s2.account
    PROVE  Sound(t, s2, k2, o, rs)
BY DEF Sound, Entering

LEMMA SoundSuperseding ==
    ASSUME NEW n, NEW rs, \A r \in rs : RequestTyped(r, n),
           NEW t, NEW s, NEW k, NEW o, Sound(t, s, k, o, rs), NEW kinds
    PROVE  Sound(t, s, k, o, Superseding(t, kinds, rs))
<1> DEFINE F(r) == IF r.tab = t /\ r.kind \in kinds THEN Discarded(r) ELSE r
<1>1. \A r \in rs : /\ F(r).tab = r.tab /\ F(r).kind = r.kind /\ F(r).token = r.token
                    /\ F(r).current => F(r) = r
  BY DiscardedKeeps
<1>2. \A r \in rs : (Entering(F(r)) => Entering(r)) /\ (Acting(F(r)) => Acting(r))
  BY <1>1 DEF Entering, Acting
<1>3. \A r \in rs : Acting(F(r)) => F(r).account = r.account
  BY <1>1 DEF Acting, Discarded, RequestTyped, Request, Queries, PageQueries
<1>4. Superseding(t, kinds, rs) = {F(r) : r \in rs}
  BY DEF Superseding
<1> HIDE DEF F
<1> QED BY <1>1, <1>2, <1>3, <1>4 DEF Sound

LEMMA SoundFetching ==
    ASSUME NEW t, NEW s, NEW k, NEW o, NEW rs, Sound(t, s, k, o, rs),
           s.status = "authenticated",
           NEW new, \A r \in new : /\ ~Entering(r) /\ r.kind # "init"
                                   /\ r.token = k /\ r.account = s.account
    PROVE  Sound(t, s, k, o, rs \cup new)
BY DEF Sound

\* A request that neither enters nor acts.
LEMMA SoundSending ==
    ASSUME NEW t, NEW s, NEW k, NEW o, NEW rs, Sound(t, s, k, o, rs),
           NEW r, ~Entering(r), ~Acting(r), r.kind # "init"
    PROVE  Sound(t, s, k, o, rs \cup {r})
BY DEF Sound

LEMMA SoundEntering ==
    ASSUME NEW t, NEW s, NEW k, NEW o, NEW rs, Sound(t, s, k, o, rs),
           \A r \in rs : r.tab = t => ~Entering(r),
           NEW s2, s2.status = "loading",
           NEW new, ~Acting(new), new.kind = "init" => new.token = k
    PROVE  Sound(t, s2, k, o, rs \cup {new})
BY DEF Sound, Entering

LEMMA FetchesShape ==
    ASSUME NEW t \in Tabs, NEW kinds \in SUBSET (Queries \cup {"revalidate"})
    PROVE  \A r \in Fetches(t, kinds) :
              /\ r.tab = t /\ r.kind \in kinds /\ r.current
              /\ r.token = TokenSent(t) /\ r.account = tab[t].account
              /\ r.kind \in {"actor"} \cup PageQueries => r.tenant = ReadSelectedTenant(stored)
              /\ ~Entering(r) /\ r.kind # "init"
BY DEF Fetches, NewRequest, Entering, Queries, PageQueries

(***************************************************************************)
(* A step of one tab leaves the others as they are.                        *)
(***************************************************************************)
LEMMA OthersAct ==
    ASSUME Types, Separate, Acts, NEW t \in Tabs,
           transport' = transport, NEW s, tab' = [tab EXCEPT ![t] = s],
           \A i \in 1..Len(owner) : owner'[i] = owner[i],
           \A r : r.tab # t => (r \in requests' <=> r \in requests),
           Sound(t, s, TokenSent(t)', owner', requests')
    PROVE  Acts'
<1> SUFFICES ASSUME NEW u \in Tabs, u # t
             PROVE  Sound(u, tab[u], TokenSent(u), owner, requests)'
  BY DEF Acts, Types, BrowserTypes
<1>1. tab'[u] = tab[u] /\ TokenSent(u)' = TokenSent(u)
  BY DEF Separate, TokenSent, Types, BrowserTypes
<1>2. Sound(u, tab[u], TokenSent(u), owner, requests)
  BY DEF Acts
<1>3. TokenSent(u) # 0 => owner'[TokenSent(u)] = owner[TokenSent(u)]
  BY TokenTyped DEF Tokens, Types, ServerTypes
<1>4. \A r \in requests : r.token # 0 => owner'[r.token] = owner[r.token]
  BY DEF Types, BrowserTypes, ServerTypes, RequestTyped, Request, Tokens
<1>5. \A r : r.tab = u => (r \in requests' <=> r \in requests)
  OBVIOUS
<1> QED BY <1>1, <1>2, <1>3, <1>4, <1>5 DEF Sound

\* Requests that a step of tab t leaves alone.
LEMMA OthersUnder ==
    ASSUME NEW t, NEW kinds, NEW n, NEW rs, \A r \in rs : RequestTyped(r, n)
    PROVE  \A r : r.tab # t => (r \in Superseding(t, kinds, rs) <=> r \in rs)
BY DiscardedKeeps DEF Superseding

\* As OthersAct, for a step that adds no session.
LEMMA OneActs ==
    ASSUME Types, Separate, Acts, NEW t \in Tabs, UNCHANGED <<transport, owner>>,
           NEW s, tab' = [tab EXCEPT ![t] = s],
           \A r : r.tab # t => (r \in requests' <=> r \in requests),
           NEW k, k = IF transport = "local" THEN s.local ELSE jar',
           Sound(t, s, k, owner, requests')
    PROVE  Acts'
<1>1. TokenSent(t)' = k
  BY DEF TokenSent, Types, BrowserTypes
<1> QED BY <1>1, OthersAct

LEMMA SoundHere ==
    ASSUME Types, Acts, NEW t \in Tabs
    PROVE  /\ Sound(t, tab[t], TokenSent(t), owner, requests)
           /\ TokenSent(t) = IF transport = "local" THEN tab[t].local ELSE jar
           /\ tab = [tab EXCEPT ![t] = tab[t]]
BY DEF Acts, TokenSent, Types, BrowserTypes

LEMMA FetchingActs ==
    ASSUME Types, Separate, Acts, NEW t \in Tabs,
           UNCHANGED <<transport, jar, owner>>,
           NEW s, tab' = [tab EXCEPT ![t] = s], s.local = tab[t].local,
           s.status = tab[t].status, s.account = tab[t].account,
           tab[t].status = "authenticated",
           NEW kinds, NEW rs, rs = Superseding(t, kinds, requests),
           NEW wanted \in SUBSET (Queries \cup {"revalidate"}),
           requests' = rs \cup Fetches(t, wanted)
    PROVE  Acts'
<1>1. \A r \in requests : RequestTyped(r, Len(owner))
  BY RequestsTyped
<1>2. Sound(t, tab[t], TokenSent(t), owner, rs)
  BY <1>1, SoundHere, SoundSuperseding
<1>3. Sound(t, s, TokenSent(t), owner, rs)
  BY <1>2, SoundKept
<1>4. \A r \in Fetches(t, wanted) : /\ ~Entering(r) /\ r.kind # "init" /\ r.tab = t
                                    /\ r.token = TokenSent(t) /\ r.account = s.account
  BY FetchesShape
<1>5. Sound(t, s, TokenSent(t), owner, rs \cup Fetches(t, wanted))
  BY <1>3, <1>4, SoundFetching
<1>6. \A r : r.tab # t => (r \in requests' <=> r \in requests)
  BY <1>1, <1>4, OthersUnder
<1>7. TokenSent(t) = IF transport = "local" THEN s.local ELSE jar'
  BY SoundHere
<1> QED BY <1>5, <1>6, <1>7, OneActs

LEMMA SupersedingNone == \A t : Superseding(t, {}, requests) = requests
BY DEF Superseding

LEMMA SwitchActs ==
    ASSUME Types, Separate, Acts, NEW t \in Tabs, NEW m, Switch(t, m),
           tab[t].status = "authenticated"
    PROVE  Acts'
<1> DEFINE s == Unmounted(Cleared(tab[t]))
<1>1. s.status = tab[t].status /\ s.account = tab[t].account /\ s.local = tab[t].local
  BY RequestsTyped DEF Unmounted, Cleared, AuthState
<1>2. UNCHANGED <<transport, jar, owner>> /\ tab' = [tab EXCEPT ![t] = s]
      /\ requests' = Superseding(t, Queries, requests) \cup Fetches(t, {"revalidate"})
  BY DEF Switch, server
<1>3. {"revalidate"} \in SUBSET (Queries \cup {"revalidate"})
  OBVIOUS
<1> HIDE DEF s
<1>4. PICK rs : /\ rs = Superseding(t, Queries, requests)
                /\ requests' = rs \cup Fetches(t, {"revalidate"})
  BY <1>2
<1> QED BY <1>1, <1>2, <1>3, <1>4, FetchingActs

\* What a tab does while somebody is signed in there, without a transition.
LEMMA WorkActs ==
    ASSUME Types, Separate, Acts, NEW t \in Tabs,
           \/ Navigate(t) \/ Focus(t) \/ RefreshOptions(t) \/ RetryActor(t)
           \/ FetchData(t) \/ FetchOptions(t) \/ FetchActor(t)
    PROVE  Acts'
<1>1. tab[t].status = "authenticated"
  BY DEF Navigate, Focus, RefreshOptions, RetryActor, FetchData, FetchOptions,
     FetchActor, Workspace, Shows, ActorLoading
<1>2. UNCHANGED <<transport, jar, owner>>
  BY DEF Navigate, Focus, RefreshOptions, RetryActor, FetchData, FetchOptions,
     FetchActor, server
<1>3. PICK wanted \in SUBSET (Queries \cup {"revalidate"}) :
        requests' = requests \cup Fetches(t, wanted)
  BY DEF Navigate, Focus, RefreshOptions, RetryActor, FetchData, FetchOptions,
     FetchActor, Queries, PageQueries
<1>4. \E s : /\ tab' = [tab EXCEPT ![t] = s] /\ s.local = tab[t].local
             /\ s.status = tab[t].status /\ s.account = tab[t].account
  <2>1. tab[t] \in AuthState /\ tab = [tab EXCEPT ![t] = tab[t]]
    BY RequestsTyped, SoundHere
  <2>2. CASE Navigate(t)
    <3> DEFINE s == Unmounted(tab[t])
    <3>1. tab' = [tab EXCEPT ![t] = s]
      BY <2>2 DEF Navigate
    <3>2. s.local = tab[t].local /\ s.status = tab[t].status /\ s.account = tab[t].account
      BY <2>1 DEF Unmounted, AuthState
    <3> HIDE DEF s
    <3> QED BY <3>1, <3>2
  <2>3. CASE tab' = tab
    BY <2>1, <2>3
  <2>4. CASE RefreshOptions(t)
    <3> DEFINE s == [tab[t] EXCEPT !.catalog =
              IF @ = "failed" /\ tab[t].options = {} THEN "loading" ELSE @]
    <3>1. tab' = [tab EXCEPT ![t] = s]
      BY <2>4 DEF RefreshOptions
    <3>2. s.local = tab[t].local /\ s.status = tab[t].status /\ s.account = tab[t].account
      BY <2>1 DEF AuthState
    <3> HIDE DEF s
    <3> QED BY <3>1, <3>2
  <2>5. CASE RetryActor(t)
    <3> DEFINE s == [tab[t] EXCEPT !.actorFailed = IF ActorReady(tab[t]) THEN @ ELSE "no"]
    <3>1. tab' = [tab EXCEPT ![t] = s]
      BY <2>5 DEF RetryActor
    <3>2. s.local = tab[t].local /\ s.status = tab[t].status /\ s.account = tab[t].account
      BY <2>1 DEF AuthState
    <3> HIDE DEF s
    <3> QED BY <3>1, <3>2
  <2> QED BY <2>2, <2>3, <2>4, <2>5 DEF Focus, FetchData, FetchOptions, FetchActor
<1> QED BY <1>1, <1>2, <1>3, <1>4, SupersedingNone, FetchingActs

LEMMA UserActsSound ==
    ASSUME Types, Separate, Acts, NEW t \in Tabs, UserActs(t) \/ Effects(t)
    PROVE  Acts'
<1> DEFINE sent == TokenSent(t)
<1> USE SoundHere
<1>1. /\ \A r \in requests : RequestTyped(r, Len(owner))
      /\ tab[t] \in AuthState
  BY RequestsTyped
<1>2. \A kinds : Sound(t, tab[t], sent, owner, Superseding(t, kinds, requests))
  BY <1>1, SoundSuperseding
<1>3. \A kinds : \A r : r.tab # t => (r \in Superseding(t, kinds, requests) <=> r \in requests)
  BY <1>1, OthersUnder
<1>4. \A r \in Superseding(t, Transitions, requests) : r.tab = t =>
        r.kind = "login" \/ ~Entering(r)
  <2>1. \A r \in requests : ~Discarded(r).current
    BY <1>1, DiscardedKeeps
  <2> QED BY <1>1, <2>1, DiscardedKeeps DEF Superseding, Entering, Transitions
<1>5. CASE Reload(t)
  <2> DEFINE s == NewTab(tab[t].local)  q == FirstRequest(t, sent)
             rs == {r \in requests : r.tab # t}
  <2>1. s.status = "loading" /\ s.local = tab[t].local
    BY DEF NewTab
  <2>2. q.tab = t /\ q.kind = "init" /\ q.token = sent /\ ~Acting(q)
    BY DEF FirstRequest, Acting, Queries, PageQueries
  <2>3. Sound(t, tab[t], sent, owner, rs)
    BY SoundKept
  <2>4. Sound(t, s, sent, owner, rs \cup {q})
    BY <2>1, <2>2, <2>3, SoundEntering
  <2> HIDE DEF s, q
  <2>5. tab' = [tab EXCEPT ![t] = s] /\ requests' = rs \cup {q}
        /\ UNCHANGED <<transport, jar, owner>>
    BY <1>5 DEF Reload, s, q, server
  <2>6. \A r : r.tab # t => (r \in requests' <=> r \in requests)
    BY <2>2, <2>5
  <2>7. sent = IF transport = "local" THEN s.local ELSE jar'
    BY <2>1, <2>5
  <2> HIDE DEF rs
  <2> QED BY <2>4, <2>5, <2>6, <2>7, OneActs
<1>6. CASE Initialize(t) \/ \E a \in Accounts : Login(t, a)
  <2> DEFINE rs == Superseding(t, Transitions, requests)
             s == [tab[t] EXCEPT !.status = "loading"]
  <2>1. PICK q : /\ requests' = rs \cup {q}
                 /\ q.tab = t /\ ~Acting(q) /\ (q.kind = "init" => q.token = sent)
    <3> DEFINE new(kind, aim) == NewRequest(t, kind, aim)
    <3>1. \A aim : \A kind \in {"init", "login"} :
            /\ new(kind, aim).tab = t /\ ~Acting(new(kind, aim))
            /\ new(kind, aim).token = sent
      BY DEF NewRequest, Acting, Queries, PageQueries
    <3>2. \E aim : \E kind \in {"init", "login"} : requests' = rs \cup {new(kind, aim)}
      BY <1>6 DEF Initialize, Login
    <3> HIDE DEF new, rs
    <3> QED BY <3>1, <3>2
  <2>2. \A r \in rs : r.tab = t => ~Entering(r)
    <3>1. CASE Initialize(t)
      BY <3>1, <1>2 DEF Initialize, Sound
    <3>2. CASE \E a \in Accounts : Login(t, a)
      <4>1. \A r \in requests : ~(r.tab = t /\ r.kind = "login")
        BY <3>2 DEF Login
      <4>2. \A r \in requests : Discarded(r).tab = r.tab /\ Discarded(r).kind = r.kind
        BY <1>1, DiscardedKeeps
      <4>3. \A r \in rs : ~(r.tab = t /\ r.kind = "login")
        BY <4>1, <4>2 DEF Superseding
      <4> QED BY <4>3, <1>4
    <3> QED BY <1>6, <3>1, <3>2
  <2>3. s.status = "loading" /\ s.local = tab[t].local
    BY <1>1 DEF AuthState
  <2>4. Sound(t, s, sent, owner, rs \cup {q})
    BY <1>2, <2>1, <2>2, <2>3, SoundEntering
  <2>5. tab' = [tab EXCEPT ![t] = s] /\ UNCHANGED <<transport, jar, owner>>
    BY <1>6 DEF Initialize, Login, server
  <2> HIDE DEF s, rs
  <2>6. \A r : r.tab # t => (r \in requests' <=> r \in requests)
    BY <1>3, <2>1 DEF rs
  <2>7. sent = IF transport = "local" THEN s.local ELSE jar'
    BY <2>3, <2>5
  <2>8. Sound(t, s, sent, owner, requests')
    BY <2>1, <2>4
  <2> QED BY <2>5, <2>6, <2>7, <2>8, OneActs
<1>7. CASE Logout(t)
  <2> DEFINE rs == Superseding(t, Transitions, requests)
             q == NewRequest(t, "logout", None)
  <2>1. q.tab = t /\ q.kind = "logout" /\ ~Entering(q) /\ ~Acting(q)
    BY DEF NewRequest, Entering, Acting, Queries, PageQueries
  <2>2. Sound(t, tab[t], sent, owner, rs \cup {q})
    BY <1>2, <2>1, SoundSending
  <2>3. tab' = [tab EXCEPT ![t] = tab[t]] /\ UNCHANGED <<transport, jar, owner>>
        /\ requests' = rs \cup {q}
    BY <1>7 DEF Logout, server
  <2> HIDE DEF q, rs
  <2>4. \A r : r.tab # t => (r \in requests' <=> r \in requests)
    BY <1>3, <2>1, <2>3 DEF rs
  <2> QED BY <2>2, <2>3, <2>4, OneActs
<1>8. CASE \E m \in Tenants : ChangeTenant(t, m)
  BY <1>8, SwitchActs DEF ChangeTenant, Shows, Workspace
<1>9. CASE SelectFallback(t)
  BY <1>9, SwitchActs DEF SelectFallback, SelectingFallback, Workspace
<1> QED BY <1>5, <1>6, <1>7, <1>8, <1>9, WorkActs DEF UserActs, Effects

\* An answer, or a failure, that leaves who is signed in as it is or signs
\* out, and the token as it is or takes it away.
LEMMA LeavingActs ==
    ASSUME Types, Separate, Acts, NEW t \in Tabs, UNCHANGED <<transport, owner>>,
           NEW s, tab' = [tab EXCEPT ![t] = s],
           \/ s.status = tab[t].status /\ s.account = tab[t].account
           \/ s.status = "anonymous",
           s.local \in {0, tab[t].local}, jar' \in {0, jar},
           NEW rs \in SUBSET requests, \A r \in requests \ rs : r.tab = t,
           NEW kinds, requests' = Superseding(t, kinds, rs)
    PROVE  Acts'
<1> DEFINE k == IF transport = "local" THEN s.local ELSE jar'
<1>1. \A r \in rs : RequestTyped(r, Len(owner))
  BY RequestsTyped
<1>2. k \in {0, TokenSent(t)}
  BY SoundHere
<1>3. Sound(t, s, k, owner, rs)
  BY <1>2, SoundHere, SoundKept
<1>4. Sound(t, s, k, owner, requests')
  BY <1>1, <1>3, SoundSuperseding
<1>5. \A r : r.tab # t => (r \in requests' <=> r \in rs)
  BY <1>1, OthersUnder
<1>6. \A r : r.tab # t => (r \in requests' <=> r \in requests)
  BY <1>5
<1> HIDE DEF k
<1>7. k = IF transport = "local" THEN s.local ELSE jar'
  BY DEF k
<1> QED BY <1>4, <1>6, <1>7, OneActs

\* What the answers make of the fields that count here.
LEMMA DroppedFields ==
    ASSUME NEW s \in AuthState, NEW r
    PROVE  /\ TokenDropped(s, r).status = s.status
           /\ TokenDropped(s, r).account = s.account
           /\ TokenDropped(s, r).local \in {0, s.local}
           /\ TokenDropped(s, r) \in AuthState
<1>1. 0 \in Tokens
  BY SessionAssumption DEF Tokens
<1> QED BY <1>1 DEF TokenDropped, AuthState

LEMMA MountedFields ==
    ASSUME NEW s \in AuthState, NEW store
    PROVE  /\ Mounted(s, store).status = s.status
           /\ Mounted(s, store).account = s.account
           /\ Mounted(s, store).local = s.local
           /\ Mounted(s, store).cache = s.cache
           /\ Mounted(s, store).requested = ReadSelectedTenant(store)
           /\ Resumed(s, store).status = s.status
           /\ Resumed(s, store).account = s.account
           /\ Resumed(s, store).local = s.local
           /\ Resumed(s, store).cache = s.cache
           /\ Resumed(s, store).requested \in {s.requested, ReadSelectedTenant(store)}
BY DEF Resumed, Mounted, AuthState

LEMMA SignedOutFields ==
    ASSUME NEW s \in AuthState
    PROVE  /\ SignedOut(s).status = "anonymous" /\ SignedOut(s).local = s.local
           /\ SessionUnknown(s).status = "error" /\ SessionUnknown(s).local = s.local
           /\ SignedOut(s).cache = s.cache /\ SessionUnknown(s).cache = s.cache
BY DEF SessionUnknown, SignedOut, Unmounted, AuthState

LEMMA SignedInFields ==
    ASSUME NEW s \in AuthState, NEW a, NEW k
    PROVE  /\ SignedIn(s, a, k).status = "authenticated"
           /\ SignedIn(s, a, k).account = a
           /\ SignedIn(s, a, k).local = s.local
           /\ SignedIn(s, a, k).mounted = s.mounted
           /\ SignedIn(s, a, k).cache = s.cache
           /\ SignedIn(s, a, k).requested = s.requested
           /\ a \in Accounts /\ k \in Tokens => SignedIn(s, a, k) \in AuthState
BY DEF SignedIn, AuthState

LEMMA ClearedFields ==
    ASSUME NEW s \in AuthState
    PROVE  /\ Cleared(s).status = s.status /\ Cleared(s).account = s.account
           /\ Cleared(s).local = s.local /\ Cleared(s).cache = NoEntry
           /\ Cleared(s) \in AuthState
BY SessionAssumption DEF Cleared, AuthState, NoEntry, Entry

LEMMA TabOf ==
    ASSUME Types, NEW r \in requests
    PROVE  /\ RequestTyped(r, Len(owner)) /\ r \in Request /\ r.tab \in Tabs
           /\ TabTyped(tab[r.tab], Len(owner)) /\ tab[r.tab] \in AuthState
BY DEF Types, BrowserTypes, RequestTyped, Request, TabTyped

\* Nothing else is entering where r was.
LEMMA EnteredAlone ==
    ASSUME Types, Acts, NEW r \in requests, Entering(r)
    PROVE  \A q \in requests \ {r} : q.tab = r.tab => ~Entering(q)
BY TabOf DEF Acts, Sound

\* A settled request that leaves the tab in a state that is right by itself.
LEMMA EnteringActs ==
    ASSUME Types, Separate, Acts, NEW r \in requests, UNCHANGED <<transport, owner>>,
           \A q \in requests \ {r} : q.tab = r.tab => ~Entering(q),
           NEW s, tab' = [tab EXCEPT ![r.tab] = s], requests' = requests \ {r},
           NEW k, k = IF transport = "local" THEN s.local ELSE jar',
           s.status = "authenticated" => k = 0 \/ owner[k] = s.account
    PROVE  Acts'
<1>1. r.tab \in Tabs
  BY TabOf
<1>2. Sound(r.tab, tab[r.tab], TokenSent(r.tab), owner, requests \ {r})
  BY <1>1, SoundHere, SoundKept
<1>3. Sound(r.tab, s, k, owner, requests \ {r})
  BY <1>2, SoundAlone
<1>4. \A q : q.tab # r.tab => (q \in requests' <=> q \in requests)
  OBVIOUS
<1> QED BY <1>1, <1>3, <1>4, OneActs

LEMMA AnswerToken ==
    ASSUME Types, NEW r \in requests, r.token \in live
    PROVE  /\ owner[r.token] \in Accounts /\ r.token # 0
           /\ SignedIn(tab[r.tab], owner[r.token], r.token) \in AuthState
<1>1. r.token \in 1..Len(owner) /\ owner[r.token] \in Accounts /\ r.token \in Tokens
  <2>1. owner \in Seq(Accounts) /\ live \subseteq 1..Len(owner)
    BY DEF Types, ServerTypes
  <2>2. Len(owner) \in Nat /\ r.token \in Tokens
    BY <2>1, TabOf DEF Request
  <2>3. \A k \in 1..Len(owner) : owner[k] \in Accounts
    BY <2>1
  <2>4. r.token \in 1..Len(owner)
    BY <2>1
  <2> QED BY <2>2, <2>3, <2>4
<1> QED BY <1>1, TabOf, SignedInFields

LEMMA AnswerActs ==
    ASSUME Types, Separate, Acts, NEW r \in requests, Settles(r)
    PROVE  Acts'
<1> DEFINE t == r.tab  n == Len(owner)  sent == TokenSent(t)
<1>1. /\ t \in Tabs /\ RequestTyped(r, n) /\ tab[t] \in AuthState
      /\ tab = [tab EXCEPT ![t] = tab[t]]
  BY TabOf, SoundHere
<1>2. /\ Sound(t, tab[t], sent, owner, requests)
      /\ sent = IF transport = "local" THEN tab[t].local ELSE jar
  BY <1>1, SoundHere
<1>3. requests \ {r} \in SUBSET requests
      /\ \A q \in requests \ (requests \ {r}) : q.tab = t
      /\ requests \ {r} = Superseding(t, {}, requests \ {r})
  BY DEF Superseding
<1>4. Entering(r) => \A q \in requests \ {r} : q.tab = t => ~Entering(q)
  BY EnteredAlone
<1>5. ASSUME tab[t].status \notin {"loading", "anonymous"}
      PROVE  \A q \in requests \ {r} : q.tab = t => ~Entering(q)
  BY <1>2, <1>5 DEF Sound
<1>6. ASSUME InitAnswered(r) PROVE Acts'
  <2> DEFINE s == IF r.token \in live THEN tab[t] ELSE TokenDropped(tab[t], r)
             entered == r.current /\ r.token \in live
             signed == SignedIn(s, owner[r.token], r.token)
  <2>1. UNCHANGED <<transport, owner, jar>> /\ requests' = requests \ {r}
        /\ r.kind = "init"
    BY <1>6 DEF InitAnswered, server
  <2>2. /\ s.status = tab[t].status /\ s.account = tab[t].account
        /\ s.local \in {0, tab[t].local} /\ s \in AuthState
    BY <1>1, DroppedFields
  <2>3. CASE entered
    <3> DEFINE next == Mounted(signed, stored')
    <3>1. tab' = [tab EXCEPT ![t] = next]
      BY <1>6, <2>3 DEF InitAnswered
    <3>2. s = tab[t] /\ signed \in AuthState
      BY <2>3, <1>1, AnswerToken DEF Types
    <3>3. next.status = "authenticated" /\ next.account = owner[r.token]
          /\ next.local = tab[t].local
      BY <3>2, <1>1, MountedFields, SignedInFields
    <3>4. sent \in {0, r.token} /\ Entering(r)
      BY <1>2, <2>1, <2>3 DEF Sound, Entering
    <3> HIDE DEF next, entered, signed
    <3>5. sent = IF transport = "local" THEN next.local ELSE jar'
      BY <1>2, <2>1, <3>3
    <3> QED BY <1>4, <2>1, <3>1, <3>3, <3>4, <3>5, EnteringActs
  <2>4. CASE ~entered
    <3> DEFINE next == IF r.current THEN SignedOut(s) ELSE s
    <3>1. tab' = [tab EXCEPT ![t] = next]
      BY <1>6, <2>4 DEF InitAnswered
    <3>2. /\ \/ next.status = tab[t].status /\ next.account = tab[t].account
             \/ next.status = "anonymous"
          /\ next.local \in {0, tab[t].local}
      BY <2>2, SignedOutFields
    <3> HIDE DEF next
    <3> QED BY <1>1, <1>3, <2>1, <3>1, <3>2, LeavingActs
  <2> QED BY <2>3, <2>4
<1>7. ASSUME RevalidateAnswered(r) PROVE Acts'
  <2> DEFINE same == tab[t].status = "authenticated" /\ tab[t].account = r.account
             found == same /\ r.token \in live
             s == SignedIn(tab[t], owner[r.token], r.token)
             stays == tab[t].mounted /\ s.account = tab[t].account
             session == tab[t].session = r.token
             reloaded == [s EXCEPT !.catalog = "loading", !.options = {}]
             next == IF found THEN
                         IF ~stays THEN Mounted(s, stored')
                         ELSE IF session THEN s ELSE reloaded
                     ELSE IF r.token \in live \cup {0} /\ ~same THEN Resumed(tab[t], stored)
                     ELSE SignedOut(TokenDropped(tab[t], r))
  <2>1. tab' = [tab EXCEPT ![t] = next] /\ UNCHANGED <<transport, owner, jar>>
        /\ r.kind = "revalidate"
    BY <1>7 DEF RevalidateAnswered, server
  <2>2. \E kinds : requests' = Superseding(t, kinds, requests \ {r})
    BY <1>7, <1>3 DEF RevalidateAnswered
  <2>3. /\ \/ next.status = tab[t].status /\ next.account = tab[t].account
           \/ next.status = "anonymous"
        /\ next.local \in {0, tab[t].local}
    <3>1. CASE found
      <4>1. s.status = tab[t].status /\ s.local = tab[t].local /\ s.account = owner[r.token]
        BY <3>1, <1>1, SignedInFields
      <4>2. s \in AuthState
        BY <3>1, <1>1, AnswerToken
      <4>3. r.token # 0
        BY <3>1, AnswerToken
      <4>4. owner[r.token] = r.account
        <5>1. Acting(r)
          <6>1. r.kind = "revalidate"
            BY <2>1
          <6> QED BY <6>1 DEF Acting
        <5> QED BY <5>1, <4>3, <1>2 DEF Sound
      <4>5. reloaded.status = s.status /\ reloaded.account = s.account
            /\ reloaded.local = s.local
        BY <4>2 DEF AuthState
      <4>6. LET m == Mounted(s, stored') IN
            m.status = s.status /\ m.account = s.account /\ m.local = s.local
        BY <4>2, MountedFields
      <4> QED BY <3>1, <4>1, <4>4, <4>5, <4>6
    <3>2. CASE ~found
      BY <3>2, <1>1, MountedFields, DroppedFields, SignedOutFields
    <3> QED BY <3>1, <3>2
  <2> HIDE DEF next
  <2> QED BY <1>1, <1>3, <2>1, <2>2, <2>3, LeavingActs
<1>8. ASSUME LoginAnswered(r) PROVE Acts'
  <2> DEFINE token == n + 1
             u == [tab[t] EXCEPT !.local = IF transport = "local" THEN token ELSE @]
             s == Cleared(u)
             signed == SignedIn(s, r.aim, token)
             next == IF r.current THEN Mounted(signed, stored') ELSE s
             rs == requests \ {r}
  <2>1. /\ r.kind = "login" /\ n < MaxLogins /\ n \in Nat
        /\ owner' = Append(owner, r.aim) /\ transport' = transport
        /\ jar' = IF transport = "cookie" THEN token ELSE jar
        /\ tab' = [tab EXCEPT ![t] = next]
        /\ requests' = Superseding(t, Queries, rs)
    BY <1>8 DEF LoginAnswered, Types, ServerTypes
  <2>2. r.aim \in Accounts /\ token \in Tokens
    BY <1>1, <2>1, SessionAssumption DEF RequestTyped, Tokens
  <2>3. u.status = tab[t].status /\ u \in AuthState
        /\ u.local = IF transport = "local" THEN token ELSE tab[t].local
    BY <1>1, <2>2 DEF AuthState
  <2>4. s.status = tab[t].status /\ s.local = u.local /\ s \in AuthState
    BY <2>3, ClearedFields
  <2>5. signed \in AuthState
    BY <2>2, <2>4, SignedInFields
  <2>6. next.local = u.local
        /\ \/ next.status = tab[t].status
           \/ next.status = "authenticated" /\ next.account = r.aim
    BY <2>4, <2>5, MountedFields, SignedInFields
  <2>7. /\ \A i \in 1..n : owner'[i] = owner[i]
        /\ owner'[token] = r.aim
    BY <2>1 DEF Types, ServerTypes
  <2>8. Entering(r) /\ tab[t].status # "authenticated"
    <3>1. Entering(r)
      <4>1. r.kind = "login"
        BY <2>1
      <4> QED BY <4>1 DEF Entering
    <3> QED BY <3>1, <1>2 DEF Sound
  <2> HIDE DEF next
  <2>9. TokenSent(t)' = token
    <3>1. transport \in {"cookie", "local"}
      BY SessionAssumption DEF Types, BrowserTypes
    <3>2. tab'[t] = next
      BY <1>1, <2>1 DEF Types, BrowserTypes
    <3> QED BY <3>1, <3>2, <2>1, <2>3, <2>6 DEF TokenSent
  <2>10. \A q \in rs : q.tab = t => ~Entering(q)
    BY <1>4, <2>8
  <2>11. Sound(t, next, token, owner', rs)
    <3>1. \A q \in rs : q.token # 0 => owner'[q.token] = owner[q.token]
      BY <2>7 DEF Types, BrowserTypes, RequestTyped, Request, Tokens
    <3>2. \A q \in rs : q.tab = t =>
            ~(q.kind = "init" /\ q.current)
            /\ (q.token # 0 /\ Acting(q) => owner'[q.token] = q.account)
      BY <3>1, <1>2, <2>10 DEF Sound, Entering
    <3>3. next.status = "authenticated" => owner'[token] = next.account
      BY <2>6, <2>7, <2>8
    <3> QED BY <3>2, <3>3, <2>10 DEF Sound
  <2>12. \A q \in rs : RequestTyped(q, n)
    BY TabOf
  <2>13. Sound(t, next, token, owner', requests')
    BY <2>1, <2>11, <2>12, SoundSuperseding
  <2>14. \A q : q.tab # t => (q \in requests' <=> q \in requests)
    <3>1. \A q : q.tab # t => (q \in requests' <=> q \in rs)
      BY <2>1, <2>12, OthersUnder
    <3> QED BY <3>1
  <2> QED BY <1>1, <2>1, <2>7, <2>9, <2>13, <2>14, OthersAct
<1>9. ASSUME LogoutAnswered(r) PROVE Acts'
  <2> DEFINE off == [Cleared(tab[t]) EXCEPT !.local = 0]
             next == SignedOutBy(r, tab[t])
  <2>1. /\ tab' = [tab EXCEPT ![t] = next] /\ UNCHANGED <<transport, owner>> /\ jar' = 0
        /\ requests' = Superseding(t, Queries, requests \ {r})
    BY <1>9 DEF LogoutAnswered
  <2>2. off \in AuthState /\ off.local = 0
        /\ off.status = tab[t].status /\ off.account = tab[t].account
    <3>1. Cleared(tab[t]) \in AuthState /\ 0 \in Tokens
      BY <1>1, ClearedFields, SessionAssumption DEF Tokens
    <3> QED BY <3>1, <1>1, ClearedFields DEF AuthState
  <2>3. /\ \/ next.status = tab[t].status /\ next.account = tab[t].account
           \/ next.status = "anonymous"
        /\ next.local = 0
    BY <2>2, MountedFields, SignedOutFields DEF SignedOutBy
  <2> HIDE DEF next
  <2> QED BY <1>1, <1>3, <2>1, <2>3, LeavingActs
<1>10. ASSUME NEW s, s \in AuthState, tab' = [tab EXCEPT ![t] = s],
              s.status = tab[t].status, s.account = tab[t].account,
              s.local = tab[t].local,
              UNCHANGED <<transport, owner, jar>>, requests' = requests \ {r}
       PROVE  Acts'
  BY <1>1, <1>3, <1>10, LeavingActs
<1>11. ASSUME OptionsAnswered(r) PROVE Acts'
  <2> DEFINE s == [tab[t] EXCEPT !.catalog = "ready",
                                 !.options = ContextsOf(owner[r.token])]
             changed == Selected(s) # Selected(tab[t])
             used == r.current /\ Workspace(tab[t])
             next == IF ~used THEN tab[t]
                     ELSE IF changed THEN [s EXCEPT !.actorFailed = "no"] ELSE s
  <2>1. s \in AuthState /\ s.local = tab[t].local
        /\ s.status = tab[t].status /\ s.account = tab[t].account
    BY <1>1 DEF AuthState, ContextsOf
  <2>2. next \in AuthState /\ next.local = tab[t].local
        /\ next.status = tab[t].status /\ next.account = tab[t].account
    <3> HIDE DEF s
    <3>1. LET m == [s EXCEPT !.actorFailed = "no"] IN
          /\ m \in AuthState /\ m.local = s.local
          /\ m.status = s.status /\ m.account = s.account
      BY <2>1 DEF AuthState
    <3> QED BY <2>1, <3>1, <1>1
  <2>3. tab' = [tab EXCEPT ![t] = next]
    BY <1>11 DEF OptionsAnswered
  <2> HIDE DEF next
  <2>4. requests' = requests \ {r} /\ UNCHANGED <<transport, owner, jar>>
    BY <1>11 DEF OptionsAnswered, server
  <2> QED BY <2>2, <2>3, <2>4, <1>10
<1>12. ASSUME ActorAnswered(r) PROVE Acts'
  <2> DEFINE s == tab[t]
             shown == r.aim = Selected(s) /\ r.account = s.account
             next == IF ~r.current THEN s
                     ELSE [s EXCEPT
                        !.actor = [account |-> r.account, tenant |-> r.aim, of |-> r.tenant],
                        !.actorFailed = IF shown THEN "no" ELSE s.actorFailed]
  <2>1. [account |-> r.account, tenant |-> r.aim, of |-> r.tenant] \in Entry
    BY <1>12, <1>1 DEF ActorAnswered, RequestTyped, Request, Entry
  <2>2. next \in AuthState /\ next.local = tab[t].local
        /\ next.status = tab[t].status /\ next.account = tab[t].account
    BY <2>1, <1>1 DEF AuthState
  <2>3. tab' = [tab EXCEPT ![t] = next]
    BY <1>12 DEF ActorAnswered
  <2> HIDE DEF next
  <2>4. requests' = requests \ {r} /\ UNCHANGED <<transport, owner, jar>>
    BY <1>12 DEF ActorAnswered, server
  <2> QED BY <2>2, <2>3, <2>4, <1>10
<1>13. ASSUME DataAnswered(r) PROVE Acts'
  <2> DEFINE next == [tab[t] EXCEPT !.cache =
            IF r.current
            THEN [account |-> owner[r.token], tenant |-> r.tenant, of |-> r.tenant]
            ELSE @]
  <2>1. [account |-> owner[r.token], tenant |-> r.tenant, of |-> r.tenant] \in Entry
    BY <1>13, <1>1, AnswerToken DEF DataAnswered, Serves, Request, RequestTyped, Entry
  <2>2. next \in AuthState /\ next.local = tab[t].local
        /\ next.status = tab[t].status /\ next.account = tab[t].account
    BY <2>1, <1>1 DEF AuthState
  <2>3. tab' = [tab EXCEPT ![t] = next]
    BY <1>13 DEF DataAnswered
  <2> HIDE DEF next
  <2>4. requests' = requests \ {r} /\ UNCHANGED <<transport, owner, jar>>
    BY <1>13 DEF DataAnswered, server
  <2> QED BY <2>2, <2>3, <2>4, <1>10
<1>14. ASSUME Refused(r) PROVE Acts'
  <2> DEFINE s == TokenDropped(tab[t], r)
             signsOut == Interrupts(r) /\ s.status \in {"authenticated", "loading"}
             next == IF signsOut THEN SignedOut(s) ELSE QueryFailed(s, r, "other")
  <2>1. tab' = [tab EXCEPT ![t] = next] /\ UNCHANGED <<transport, owner, jar>>
    BY <1>14 DEF Refused, server
  <2>2. \E kinds : requests' = Superseding(t, kinds, requests \ {r})
    BY <1>14, <1>3 DEF Refused
  <2>3. /\ \/ next.status = tab[t].status /\ next.account = tab[t].account
           \/ next.status = "anonymous"
        /\ next.local \in {0, tab[t].local}
    BY <1>1, DroppedFields, SignedOutFields, QueryFailedKeeps
  <2> HIDE DEF next
  <2> QED BY <1>1, <1>3, <2>1, <2>2, <2>3, LeavingActs
<1>15. ASSUME Unavailable(r) PROVE Acts'
  <2> DEFINE s == QueryFailed(tab[t], r, "unavailable")  rs == requests \ {r}
             new == IF Workspace(tab[t]) THEN Fetches(t, {"options"}) ELSE {}
  <2>1. tab' = [tab EXCEPT ![t] = s] /\ UNCHANGED <<transport, owner, jar>>
        /\ requests' = rs \cup new
    BY <1>15 DEF Unavailable, server
  <2>2. s.local = tab[t].local /\ s.status = tab[t].status /\ s.account = tab[t].account
    BY <1>1, QueryFailedKeeps
  <2>3. Sound(t, s, sent, owner, rs)
    BY <1>2, <1>3, <2>2, SoundKept
  <2>4. Sound(t, s, sent, owner, rs \cup new)
        /\ \A q \in new : q.tab = t
    <3>1. CASE Workspace(tab[t])
      <4>1. {"options"} \in SUBSET (Queries \cup {"revalidate"})
        BY DEF Queries, PageQueries
      <4>2. \A q \in new : /\ ~Entering(q) /\ q.kind # "init" /\ q.tab = t
                           /\ q.token = sent /\ q.account = s.account
        BY <3>1, <4>1, <1>1, <2>2, FetchesShape
      <4>3. s.status = "authenticated"
        BY <3>1, <2>2 DEF Workspace
      <4> HIDE DEF new, s
      <4> QED BY <2>3, <4>2, <4>3, SoundFetching
    <3>2. CASE ~Workspace(tab[t])
      BY <3>2, <2>3
    <3> QED BY <3>1, <3>2
  <2> HIDE DEF s, new
  <2>5. sent = IF transport = "local" THEN s.local ELSE jar'
    BY <1>2, <2>1, <2>2
  <2>6. \A q : q.tab # t => (q \in requests' <=> q \in requests)
    BY <2>1, <2>4
  <2> QED BY <1>1, <2>1, <2>4, <2>5, <2>6, OneActs
<1>16. ASSUME Lost(r) PROVE Acts'
  <2> DEFINE fails == \/ r.kind \in {"init", "login"} /\ r.current
                      \/ /\ r.kind = "revalidate"
                         /\ tab[t].status = "authenticated" /\ tab[t].account = r.account
             off == [tab[t] EXCEPT !.local = 0]
             next == IF fails THEN SessionUnknown(tab[t])
                     ELSE IF r.kind = "logout" THEN IF r.current THEN SignedOut(off) ELSE off
                     ELSE IF r.kind = "revalidate" THEN Resumed(tab[t], stored)
                     ELSE QueryFailed(tab[t], r, "other")
  <2>1. tab' = [tab EXCEPT ![t] = next] /\ UNCHANGED <<transport, owner, jar>>
        /\ requests' = requests \ {r}
    BY <1>16 DEF Lost
  <2>2. CASE fails
    <3>1. next.status = "error" /\ next.local = tab[t].local
      BY <2>2, <1>1, SignedOutFields
    <3>2. \A q \in requests \ {r} : q.tab = t => ~Entering(q)
      BY <2>2, <1>4, <1>5 DEF Entering
    <3> HIDE DEF next, fails
    <3> QED BY <2>1, <3>1, <3>2, EnteringActs
  <2>3. CASE ~fails
    <3>1. off \in AuthState /\ off.local = 0 /\ off.status = tab[t].status
          /\ off.account = tab[t].account
      BY <1>1, SessionAssumption DEF AuthState, Tokens
    <3>2. /\ \/ next.status = tab[t].status /\ next.account = tab[t].account
             \/ next.status = "anonymous"
          /\ next.local \in {0, tab[t].local}
      <4>1. CASE r.kind = "logout"
        BY <2>3, <3>1, <4>1, SignedOutFields
      <4>2. CASE r.kind = "revalidate"
        BY <2>3, <1>1, <4>2, MountedFields
      <4>3. CASE r.kind \notin {"logout", "revalidate"}
        BY <2>3, <1>1, <4>3, QueryFailedKeeps
      <4> QED BY <4>1, <4>2, <4>3
    <3> HIDE DEF next, fails
    <3> QED BY <1>1, <1>3, <2>1, <3>2, LeavingActs
  <2> QED BY <2>2, <2>3
<1> QED BY <1>6, <1>7, <1>8, <1>9, <1>11, <1>12, <1>13, <1>14, <1>15, <1>16
        DEF Settles, Answered

LEMMA ActsInit == Init => Acts
<1> SUFFICES ASSUME Init, NEW t \in Tabs
             PROVE  Sound(t, tab[t], TokenSent(t), owner, requests)
  BY DEF Acts
<1>1. tab[t].status = "loading" /\ tab[t].local = 0 /\ jar = 0
  BY DEF Init, NewTab
<1>2. \A r \in requests : r.kind = "init" /\ (r.tab = t => r = FirstRequest(t, 0))
  BY DEF Init, FirstRequest
<1>3. TokenSent(t) = 0 /\ \A r \in requests : ~Acting(r)
  BY <1>1, <1>2 DEF TokenSent, Acting, Queries, PageQueries
<1> QED BY <1>1, <1>2, <1>3 DEF Sound

LEMMA ActsStep == Types /\ Separate /\ Acts /\ [Next]_vars => Separate' /\ Acts'
<1> SUFFICES ASSUME Types, Separate, Acts, [Next]_vars PROVE Separate' /\ Acts'
  OBVIOUS
<1>1. transport' = transport
  <2>1. CASE \E t \in Tabs : UserActs(t) \/ Effects(t)
    BY <2>1 DEF UserActs, Effects, Reload, Initialize, Login, Logout, Navigate, Focus,
       RefreshOptions, RetryActor, ChangeTenant, Switch, FetchData, FetchOptions,
       FetchActor, SelectFallback
  <2>2. CASE \E r \in requests : Settles(r)
    BY <2>2 DEF Settles, Lost, Answered, InitAnswered, RevalidateAnswered, LoginAnswered,
       LogoutAnswered, OptionsAnswered, ActorAnswered, DataAnswered, Refused, Unavailable
  <2>3. CASE Server
    BY <2>3 DEF Server, SessionEnds, LeaseApproved, LeaseEnds, browser
  <2> QED BY <2>1, <2>2, <2>3 DEF Next, vars
<1>2. ASSUME UNCHANGED <<transport, owner, jar, tab, requests>> PROVE Acts'
  BY <1>2 DEF Acts, TokenSent
<1>3. ASSUME Server PROVE Acts'
  BY <1>2, <1>3 DEF Server, SessionEnds, LeaseApproved, LeaseEnds, browser
<1>4. ASSUME UNCHANGED vars PROVE Acts'
  BY <1>2, <1>4 DEF vars
<1>5. Acts'
  BY <1>3, <1>4, UserActsSound, AnswerActs DEF Next
<1> QED BY <1>1, <1>5 DEF Separate

\* ActsAsShown: tabs that share no cookie act for the Account they show, for
\* every number of tabs, sessions and requests.  Of two tabs that share one,
\* the first may show an Account whose cookie the second has replaced.
THEOREM TabsActAsShown == Spec /\ Separate => []ActsAsShown
<1>1. Types /\ Acts => ActsAsShown
  <2> SUFFICES ASSUME Types, Acts, NEW r \in requests, r.kind \in Queries, r.current,
                      r.token # 0
               PROVE  owner[r.token] = r.account
    BY DEF ActsAsShown
  <2>1. Sound(r.tab, tab[r.tab], TokenSent(r.tab), owner, requests)
    BY TabOf, SoundHere
  <2> QED BY <2>1 DEF Sound, Acting
<1> QED BY <1>1, ActsInit, ActsStep, AlwaysTyped, PTL DEF Spec

(***************************************************************************)
(* What a tab that is alone shows.  All that could reach its pages, an     *)
(* entry of the cache or a query that counts, is of one Account, which is  *)
(* also the Account of the stored selection, of the token it would send    *)
(* and of every session that is still asked for (OfOne), and of the stored *)
(* Tenant, which is the one its workspace requested.                       *)
(***************************************************************************)
Single == \A t, u \in Tabs : t = u

OfOne(a, st, k, o, rs) ==
    /\ st.account = a
    /\ k = 0 \/ o[k] = a
    /\ \A r \in rs : r.kind = "init" /\ r.current /\ r.token # 0 => o[r.token] = a

Counts(r) == r.kind \in Queries /\ r.current /\ r.token # 0

Matches(s, st, k, o, rs) ==
    /\ s.status = "authenticated" => st.account = s.account
    /\ \A r \in rs : Counts(r) =>
        /\ OfOne(r.account, st, k, o, rs)
        /\ r.kind \in PageQueries => r.tenant = ReadSelectedTenant(st)
    /\ s.cache # NoEntry =>
        /\ OfOne(s.cache.account, st, k, o, rs)
        /\ s.cache.tenant = ReadSelectedTenant(st)
    /\ Workspace(s) => s.requested = ReadSelectedTenant(st)

Matching == \A t \in Tabs : Matches(tab[t], stored, TokenSent(t), owner, requests)

\* s2 is what s became: nobody else is signed in, nothing is in the cache
\* that was not, and a workspace is for the stored Tenant or as it was.
Follows(s2, s, st) ==
    /\ \/ s2.status = s.status /\ s2.account = s.account
       \/ s2.status # "authenticated"
    /\ s2.cache \in {s.cache, NoEntry}
    /\ Workspace(s2) => \/ s2.requested = ReadSelectedTenant(st)
                        \/ Workspace(s) /\ s2.requested = s.requested

LEMMA FollowsOn ==
    ASSUME NEW st, NEW s, NEW s1, NEW s2, Follows(s1, s, st), Follows(s2, s1, st)
    PROVE  Follows(s2, s, st)
BY DEF Follows, Workspace

LEMMA TabsFollow ==
    ASSUME NEW s \in AuthState, NEW st
    PROVE  /\ Follows(s, s, st)
           /\ \A r : Follows(TokenDropped(s, r), s, st)
           /\ Follows(Mounted(s, st), s, st) /\ Follows(Resumed(s, st), s, st)
           /\ Follows(SignedOut(s), s, st) /\ Follows(SessionUnknown(s), s, st)
           /\ Follows(Unmounted(s), s, st) /\ Follows(Cleared(s), s, st)
           /\ \A r, how : Follows(QueryFailed(s, r, how), s, st)
           /\ \A k : Follows([s EXCEPT !.local = k], s, st)
<1>1. Follows(s, s, st)
  BY DEF Follows
<1>2. \A r : Follows(TokenDropped(s, r), s, st)
  BY DEF TokenDropped, Follows, AuthState, Workspace
<1>3. Follows(Mounted(s, st), s, st)
  BY DEF Mounted, Follows, AuthState
<1>4. Follows(Resumed(s, st), s, st)
  BY <1>1, <1>3 DEF Resumed
<1>5. Follows(SignedOut(s), s, st) /\ Follows(SessionUnknown(s), s, st)
  BY SignedOutFields DEF Follows, Workspace
<1>6. Follows(Unmounted(s), s, st)
  BY DEF Unmounted, Follows, AuthState, Workspace
<1>7. Follows(Cleared(s), s, st)
  BY DEF Cleared, Follows, AuthState, Workspace
<1>8. ASSUME NEW r, NEW how PROVE Follows(QueryFailed(s, r, how), s, st)
  BY QueryFailedKeeps DEF Follows, Workspace
<1>9. \A k : Follows([s EXCEPT !.local = k], s, st)
  BY DEF Follows, AuthState, Workspace
<1> QED BY <1>1, <1>2, <1>3, <1>4, <1>5, <1>6, <1>7, <1>8, <1>9

LEMMA MatchesKept ==
    ASSUME NEW s, NEW st, NEW k, NEW o, NEW rs, Matches(s, st, k, o, rs),
           NEW s2, NEW st2, NEW k2, NEW rs2 \in SUBSET rs,
           st2.account = st.account, ReadSelectedTenant(st2) = ReadSelectedTenant(st),
           k2 \in {0, k}, Follows(s2, s, st2)
    PROVE  Matches(s2, st2, k2, o, rs2)
<1>1. \A a : OfOne(a, st, k, o, rs) => OfOne(a, st2, k2, o, rs2)
  BY DEF OfOne
<1> QED BY <1>1 DEF Matches, Follows

LEMMA MatchesSuperseding ==
    ASSUME NEW n, NEW rs, \A r \in rs : RequestTyped(r, n), NEW t, NEW kinds,
           NEW s, NEW st, NEW k, NEW o, Matches(s, st, k, o, rs)
    PROVE  Matches(s, st, k, o, Superseding(t, kinds, rs))
<1>1. \A r \in rs : ~Discarded(r).current
  BY DiscardedKeeps
<1>2. \A r \in Superseding(t, kinds, rs) : r.current => r \in rs
  BY <1>1 DEF Superseding
<1>3. \A a : OfOne(a, st, k, o, rs) => OfOne(a, st, k, o, Superseding(t, kinds, rs))
  BY <1>2 DEF OfOne
<1> QED BY <1>2, <1>3 DEF Matches, Counts

\* Neither an entry nor a query that counts: what is stored is free.
LEMMA MatchesFresh ==
    ASSUME NEW s, NEW st, NEW k, NEW o, NEW rs,
           \A r \in rs : ~Counts(r), s.cache = NoEntry,
           s.status = "authenticated" => st.account = s.account,
           Workspace(s) => s.requested = ReadSelectedTenant(st)
    PROVE  Matches(s, st, k, o, rs)
BY DEF Matches

LEMMA NoneCounts ==
    ASSUME NEW n, NEW rs, \A r \in rs : RequestTyped(r, n), NEW t,
           \A r \in rs : r.tab = t
    PROVE  \A r \in Superseding(t, Queries, rs) : ~Counts(r)
BY DiscardedKeeps DEF Superseding, Counts

\* A request added for the Account and the Tenant that all is of.
LEMMA MatchesSending ==
    ASSUME NEW s, NEW st, NEW k, NEW o, NEW rs, Matches(s, st, k, o, rs),
           NEW new,
           \A r \in new : /\ Counts(r) => OfOne(r.account, st, k, o, rs)
                          /\ Counts(r) /\ r.kind \in PageQueries => r.tenant = ReadSelectedTenant(st)
                          /\ r.kind = "init" => r.token = k
    PROVE  Matches(s, st, k, o, rs \cup new)
<1>1. \A a : OfOne(a, st, k, o, rs) => OfOne(a, st, k, o, rs \cup new)
  BY DEF OfOne
<1> QED BY <1>1 DEF Matches

LEMMA OneMatches ==
    ASSUME Types, Single, NEW t \in Tabs, transport' = transport,
           NEW s, tab' = [tab EXCEPT ![t] = s],
           NEW k, k = IF transport = "local" THEN s.local ELSE jar',
           Matches(s, stored', k, owner', requests')
    PROVE  Matching'
<1>1. tab'[t] = s /\ TokenSent(t)' = k
  BY DEF TokenSent, Types, BrowserTypes
<1>2. \A u \in Tabs : u = t
  BY DEF Single
<1> QED BY <1>1, <1>2 DEF Matching

LEMMA MatchesHere ==
    ASSUME Types, Single, Matching, NEW t \in Tabs
    PROVE  /\ Matches(tab[t], stored, TokenSent(t), owner, requests)
           /\ \A r \in requests : r.tab = t
BY TabOf DEF Matching, Single

\* A step that leaves, or takes away, what is shown.
LEMMA LeavingMatches ==
    ASSUME Types, Single, Matching, NEW t \in Tabs, UNCHANGED <<transport, owner>>,
           NEW s, tab' = [tab EXCEPT ![t] = s], Follows(s, tab[t], stored'),
           stored'.account = stored.account,
           ReadSelectedTenant(stored') = ReadSelectedTenant(stored),
           s.local \in {0, tab[t].local}, jar' \in {0, jar},
           NEW rs \in SUBSET requests, NEW kinds, requests' = Superseding(t, kinds, rs)
    PROVE  Matching'
<1> DEFINE k == IF transport = "local" THEN s.local ELSE jar'
<1>1. \A r \in rs : RequestTyped(r, Len(owner))
  BY RequestsTyped
<1>2. k \in {0, TokenSent(t)}
  BY DEF TokenSent
<1>3. Matches(s, stored', k, owner, rs)
  BY <1>2, MatchesHere, MatchesKept
<1>4. Matches(s, stored', k, owner, requests')
  BY <1>1, <1>3, MatchesSuperseding
<1> HIDE DEF k
<1>5. k = IF transport = "local" THEN s.local ELSE jar'
  BY DEF k
<1> QED BY <1>4, <1>5, OneMatches

LEMMA FetchingMatches ==
    ASSUME Types, Single, Acts, Matching, NEW t \in Tabs,
           UNCHANGED <<transport, jar, owner, stored>>,
           NEW s, tab' = [tab EXCEPT ![t] = s], Follows(s, tab[t], stored),
           s.local = tab[t].local, tab[t].status = "authenticated",
           NEW rs \in SUBSET requests, NEW wanted \in SUBSET (Queries \cup {"revalidate"}),
           requests' = rs \cup Fetches(t, wanted)
    PROVE  Matching'
<1> DEFINE sent == TokenSent(t)  a == tab[t].account
<1>1. Matches(tab[t], stored, sent, owner, requests)
      /\ Sound(t, tab[t], sent, owner, requests)
      /\ \A r \in requests : r.tab = t
  BY MatchesHere, SoundHere
<1>2. OfOne(a, stored, sent, owner, rs)
  <2>1. \A r \in rs : ~(r.kind = "init" /\ r.current)
    BY <1>1 DEF Sound, Entering
  <2> QED BY <1>1, <2>1 DEF Matches, Sound, OfOne
<1>3. Matches(s, stored, sent, owner, rs)
  BY <1>1, MatchesKept
<1>4. \A r \in Fetches(t, wanted) :
        /\ r.account = a /\ r.kind # "init"
        /\ r.kind \in PageQueries => r.tenant = ReadSelectedTenant(stored)
  BY FetchesShape
<1>5. Matches(s, stored, sent, owner, rs \cup Fetches(t, wanted))
  BY <1>2, <1>3, <1>4, MatchesSending
<1>6. sent = IF transport = "local" THEN s.local ELSE jar'
  BY DEF TokenSent
<1> HIDE DEF sent
<1> QED BY <1>5, <1>6, OneMatches

LEMMA WorkMatches ==
    ASSUME Types, Single, Acts, Matching, NEW t \in Tabs,
           \/ Navigate(t) \/ Focus(t) \/ RefreshOptions(t) \/ RetryActor(t)
           \/ FetchData(t) \/ FetchOptions(t) \/ FetchActor(t)
    PROVE  Matching'
<1>1. tab[t].status = "authenticated"
  BY DEF Navigate, Focus, RefreshOptions, RetryActor, FetchData, FetchOptions,
     FetchActor, Workspace, Shows, ActorLoading
<1>2. UNCHANGED <<transport, jar, owner, stored>>
  BY DEF Navigate, Focus, RefreshOptions, RetryActor, FetchData, FetchOptions,
     FetchActor, server
<1>3. PICK wanted \in SUBSET (Queries \cup {"revalidate"}) :
        requests' = requests \cup Fetches(t, wanted)
  BY DEF Navigate, Focus, RefreshOptions, RetryActor, FetchData, FetchOptions,
     FetchActor, Queries, PageQueries
<1>4. \E s : /\ tab' = [tab EXCEPT ![t] = s] /\ s.local = tab[t].local
             /\ Follows(s, tab[t], stored)
  <2>1. tab[t] \in AuthState /\ tab = [tab EXCEPT ![t] = tab[t]]
    BY RequestsTyped, SoundHere
  <2>2. CASE Navigate(t)
    <3> DEFINE s == Unmounted(tab[t])
    <3>1. tab' = [tab EXCEPT ![t] = s]
      BY <2>2 DEF Navigate
    <3>2. s.local = tab[t].local
      BY <2>1 DEF Unmounted, AuthState
    <3>3. Follows(s, tab[t], stored)
      BY <2>1, TabsFollow
    <3> HIDE DEF s
    <3> QED BY <3>1, <3>2, <3>3
  <2>3. CASE tab' = tab
    BY <2>1, <2>3, TabsFollow
  <2>4. CASE RefreshOptions(t)
    <3> DEFINE s == [tab[t] EXCEPT !.catalog =
              IF @ = "failed" /\ tab[t].options = {} THEN "loading" ELSE @]
    <3>1. tab' = [tab EXCEPT ![t] = s]
      BY <2>4 DEF RefreshOptions
    <3>2. s.local = tab[t].local /\ Follows(s, tab[t], stored)
      BY <2>1 DEF AuthState, Follows, Workspace
    <3> HIDE DEF s
    <3> QED BY <3>1, <3>2
  <2>5. CASE RetryActor(t)
    <3> DEFINE s == [tab[t] EXCEPT !.actorFailed = IF ActorReady(tab[t]) THEN @ ELSE "no"]
    <3>1. tab' = [tab EXCEPT ![t] = s]
      BY <2>5 DEF RetryActor
    <3>2. s.local = tab[t].local /\ Follows(s, tab[t], stored)
      BY <2>1 DEF AuthState, Follows, Workspace
    <3> HIDE DEF s
    <3> QED BY <3>1, <3>2
  <2> QED BY <2>2, <2>3, <2>4, <2>5 DEF Focus, FetchData, FetchOptions, FetchActor
<1> QED BY <1>1, <1>2, <1>3, <1>4, FetchingMatches

LEMMA SwitchMatches ==
    ASSUME Types, Single, Matching, NEW t \in Tabs, NEW m, Switch(t, m)
    PROVE  Matching'
<1> DEFINE s == Unmounted(Cleared(tab[t]))
           rs == Superseding(t, Queries, requests)
           new == Fetches(t, {"revalidate"})
<1>1. s.account = tab[t].account /\ s.cache = NoEntry /\ ~s.mounted
  BY RequestsTyped DEF Unmounted, Cleared, AuthState
<1>2. UNCHANGED <<transport, jar, owner>> /\ tab' = [tab EXCEPT ![t] = s]
      /\ requests' = rs \cup new
      /\ stored' = [tenant |-> m, account |-> tab[t].account]
  BY DEF Switch, server
<1>3. \A r \in rs : ~Counts(r)
  BY MatchesHere, RequestsTyped, NoneCounts
<1>4. \A r \in new : ~Counts(r)
  BY FetchesShape DEF Counts, Queries, PageQueries
<1> HIDE DEF s, rs, new
<1>5. PICK k : k = IF transport = "local" THEN s.local ELSE jar'
  OBVIOUS
<1>6. Matches(s, stored', k, owner', requests')
  BY <1>1, <1>2, <1>3, <1>4, MatchesFresh DEF Workspace
<1> QED BY <1>2, <1>5, <1>6, OneMatches

LEMMA UserMatches ==
    ASSUME Types, Single, Acts, Matching, NEW t \in Tabs, UserActs(t) \/ Effects(t)
    PROVE  Matching'
<1> DEFINE sent == TokenSent(t)
<1>1. /\ \A r \in requests : RequestTyped(r, Len(owner)) /\ r.tab = t
      /\ tab[t] \in AuthState
      /\ Matches(tab[t], stored, sent, owner, requests)
  BY RequestsTyped, MatchesHere
<1>2. \A kinds : Matches(tab[t], stored, sent, owner, Superseding(t, kinds, requests))
  BY <1>1, MatchesSuperseding
<1>3. sent = IF transport = "local" THEN tab[t].local ELSE jar
  BY DEF TokenSent
<1>4. CASE Reload(t)
  <2> DEFINE s == NewTab(tab[t].local)  q == FirstRequest(t, sent)
  <2>1. s.status = "loading" /\ s.local = tab[t].local /\ s.cache = NoEntry
    BY DEF NewTab
  <2>2. ~Counts(q)
    BY DEF FirstRequest, Counts, Queries, PageQueries
  <2> HIDE DEF s, q
  <2>3. tab' = [tab EXCEPT ![t] = s] /\ requests' = {q} /\ UNCHANGED <<transport, jar, owner, stored>>
    BY <1>1, <1>4 DEF Reload, s, q, server
  <2>4. Matches(s, stored', sent, owner', requests')
    BY <2>1, <2>2, <2>3, MatchesFresh DEF Workspace
  <2>5. sent = IF transport = "local" THEN s.local ELSE jar'
    BY <1>3, <2>1, <2>3
  <2> QED BY <2>3, <2>4, <2>5, OneMatches
<1>5. ASSUME NEW s, tab' = [tab EXCEPT ![t] = s], s.local = tab[t].local,
             Follows(s, tab[t], stored), UNCHANGED <<transport, jar, owner, stored>>,
             NEW q, ~Counts(q), q.kind = "init" => q.token = sent,
             NEW rs, rs = Superseding(t, Transitions, requests), requests' = rs \cup {q}
      PROVE  Matching'
  <2>1. Matches(s, stored, sent, owner, rs)
    BY <1>2, <1>5, MatchesKept
  <2>2. Matches(s, stored, sent, owner, rs \cup {q})
    BY <2>1, <1>5, MatchesSending
  <2>3. sent = IF transport = "local" THEN s.local ELSE jar'
    BY <1>3, <1>5
  <2> HIDE DEF sent
  <2> QED BY <1>5, <2>2, <2>3, OneMatches
<1>6. CASE Initialize(t) \/ \E a \in Accounts : Login(t, a)
  <2> DEFINE s == [tab[t] EXCEPT !.status = "loading"]
             new(kind, aim) == NewRequest(t, kind, aim)
  <2>1. \A aim : \A kind \in {"init", "login"} :
          ~Counts(new(kind, aim)) /\ new(kind, aim).token = sent
    BY DEF NewRequest, Counts, Queries, PageQueries
  <2>2. \E aim : \E kind \in {"init", "login"} :
          requests' = Superseding(t, Transitions, requests) \cup {new(kind, aim)}
    BY <1>6 DEF Initialize, Login
  <2>3. s.local = tab[t].local /\ Follows(s, tab[t], stored)
    BY <1>1 DEF AuthState, Follows, Workspace
  <2>4. tab' = [tab EXCEPT ![t] = s] /\ UNCHANGED <<transport, jar, owner, stored>>
    BY <1>6 DEF Initialize, Login, server
  <2> HIDE DEF s, new
  <2> QED BY <2>1, <2>2, <2>3, <2>4, <1>5
<1>7. CASE Logout(t)
  <2> DEFINE q == NewRequest(t, "logout", None)
  <2>1. ~Counts(q) /\ q.kind = "logout"
    BY DEF NewRequest, Counts, Queries, PageQueries
  <2>2. tab' = [tab EXCEPT ![t] = tab[t]] /\ UNCHANGED <<transport, jar, owner, stored>>
        /\ requests' = Superseding(t, Transitions, requests) \cup {q}
    BY <1>7, SoundHere DEF Logout, server
  <2>3. Follows(tab[t], tab[t], stored)
    BY <1>1, TabsFollow
  <2> HIDE DEF q
  <2> QED BY <2>1, <2>2, <2>3, <1>5
<1>8. CASE \E m \in Tenants : ChangeTenant(t, m)
  BY <1>8, SwitchMatches DEF ChangeTenant
<1>9. CASE SelectFallback(t)
  BY <1>9, SwitchMatches DEF SelectFallback
<1> QED BY <1>4, <1>6, <1>7, <1>8, <1>9, WorkMatches DEF UserActs, Effects

\* The session an answer is for, when there is something it could change.
LEMMA AnswerOwner ==
    ASSUME Types, Single, Acts, Matching, NEW r \in requests, r.token \in live,
           \/ r.kind = "init" /\ r.current /\ \/ tab[r.tab].cache # NoEntry
                                              \/ \E q \in requests : Counts(q)
           \/ r.kind = "revalidate" /\ tab[r.tab].status = "authenticated"
                /\ tab[r.tab].account = r.account
    PROVE  Reconciled(stored, owner[r.token]) = stored
<1> DEFINE t == r.tab
<1>1. t \in Tabs /\ r.token # 0 /\ stored \in Stores
  BY TabOf, AnswerToken DEF Types, BrowserTypes
<1>2. Matches(tab[t], stored, TokenSent(t), owner, requests)
      /\ Sound(t, tab[t], TokenSent(t), owner, requests)
  BY <1>1, MatchesHere, SoundHere
<1>3. stored.account = owner[r.token]
  <2>1. CASE r.kind = "init" /\ r.current
    <3>1. \E a : OfOne(a, stored, TokenSent(t), owner, requests)
      BY <2>1, <1>2 DEF Matches
    <3> QED BY <3>1, <2>1, <1>1 DEF OfOne
  <2>2. CASE r.kind = "revalidate"
    <3>1. owner[r.token] = r.account
      BY <2>2, <1>1, <1>2 DEF Sound, Acting
    <3> QED BY <2>2, <3>1, <1>2 DEF Matches
  <2> QED BY <2>1, <2>2
<1> QED BY <1>1, <1>3 DEF Reconciled, Stores

LEMMA AnswerMatches ==
    ASSUME Types, Single, Acts, Matching, NEW r \in requests, Settles(r)
    PROVE  Matching'
<1> DEFINE t == r.tab  n == Len(owner)  sent == TokenSent(t)  rs == requests \ {r}
<1>1. /\ t \in Tabs /\ RequestTyped(r, n) /\ tab[t] \in AuthState
      /\ Matches(tab[t], stored, sent, owner, requests)
      /\ Sound(t, tab[t], sent, owner, requests)
  BY TabOf, SoundHere, MatchesHere
<1>2. \A q \in requests : RequestTyped(q, n) /\ q.tab = t
  BY <1>1, TabOf, MatchesHere
<1>3. sent = IF transport = "local" THEN tab[t].local ELSE jar
  BY DEF TokenSent
<1>4. rs \in SUBSET requests /\ rs = Superseding(t, {}, rs)
  BY DEF Superseding
<1>5. ASSUME NEW s, tab' = [tab EXCEPT ![t] = s], Follows(s, tab[t], stored),
             s.local \in {0, tab[t].local}, jar' \in {0, jar},
             UNCHANGED <<transport, owner, stored>>,
             \E kinds : requests' = Superseding(t, kinds, rs)
      PROVE  Matching'
  BY <1>1, <1>4, <1>5, LeavingMatches
<1>6. ASSUME InitAnswered(r) PROVE Matching'
  <2> DEFINE s == IF r.token \in live THEN tab[t] ELSE TokenDropped(tab[t], r)
             entered == r.current /\ r.token \in live
             signed == SignedIn(s, owner[r.token], r.token)
  <2>1. UNCHANGED <<transport, owner, jar>> /\ requests' = rs
        /\ r.kind = "init"
    BY <1>6 DEF InitAnswered, server
  <2>2. s.local \in {0, tab[t].local} /\ s \in AuthState /\ Follows(s, tab[t], stored)
    BY <1>1, DroppedFields, TabsFollow
  <2>3. CASE entered
    <3> DEFINE next == Mounted(signed, stored')
    <3>1. tab' = [tab EXCEPT ![t] = next] /\ stored' = Reconciled(stored, owner[r.token])
      BY <1>6, <2>3 DEF InitAnswered
    <3>2. s = tab[t] /\ signed \in AuthState
      BY <2>3, <1>1, AnswerToken
    <3>3. next.status = "authenticated" /\ next.account = owner[r.token]
          /\ next.local = tab[t].local /\ next.cache = tab[t].cache
          /\ next.requested = ReadSelectedTenant(stored')
      BY <3>2, <1>1, MountedFields, SignedInFields
    <3>4. stored'.account = owner[r.token]
      BY <3>1 DEF Reconciled
    <3> HIDE DEF next, signed
    <3>5. sent = IF transport = "local" THEN next.local ELSE jar'
      BY <1>3, <2>1, <3>3
    <3>6. Matches(next, stored', sent, owner, rs)
      <4>1. CASE next.cache = NoEntry /\ \A q \in rs : ~Counts(q)
        BY <4>1, <3>3, <3>4, MatchesFresh
      <4>2. CASE next.cache # NoEntry \/ \E q \in rs : Counts(q)
        <5>1. stored' = stored
          BY <4>2, <2>1, <2>3, <3>1, <3>3, AnswerOwner
        <5>2. Matches(tab[t], stored, sent, owner, rs)
          <6>1. Follows(tab[t], tab[t], stored)
            BY <1>1, TabsFollow
          <6> QED BY <6>1, <1>1, <1>4, MatchesKept
        <5> QED BY <5>1, <5>2, <3>3, <3>4 DEF Matches, Workspace
      <4> QED BY <4>1, <4>2
    <3> HIDE DEF sent
    <3> QED BY <1>1, <2>1, <3>1, <3>5, <3>6, OneMatches
  <2>4. CASE ~entered
    <3> DEFINE next == IF r.current THEN SignedOut(s) ELSE s
    <3>1. tab' = [tab EXCEPT ![t] = next] /\ stored' = stored
      BY <1>6, <2>4 DEF InitAnswered
    <3>2. Follows(next, tab[t], stored)
      <4>1. Follows(SignedOut(s), s, stored)
        BY <2>2, TabsFollow
      <4> QED BY <4>1, <2>2, FollowsOn
    <3>3. next.local \in {0, tab[t].local}
      BY <2>2, SignedOutFields
    <3> HIDE DEF next
    <3> QED BY <1>4, <1>5, <2>1, <3>1, <3>2, <3>3
  <2> QED BY <2>3, <2>4
<1>7. ASSUME RevalidateAnswered(r) PROVE Matching'
  <2> DEFINE same == tab[t].status = "authenticated" /\ tab[t].account = r.account
             found == same /\ r.token \in live
             s == SignedIn(tab[t], owner[r.token], r.token)
             stays == tab[t].mounted /\ s.account = tab[t].account
             session == tab[t].session = r.token
             reloaded == [s EXCEPT !.catalog = "loading", !.options = {}]
             next == IF found THEN
                         IF ~stays THEN Mounted(s, stored')
                         ELSE IF session THEN s ELSE reloaded
                     ELSE IF r.token \in live \cup {0} /\ ~same THEN Resumed(tab[t], stored)
                     ELSE SignedOut(TokenDropped(tab[t], r))
  <2>1. tab' = [tab EXCEPT ![t] = next] /\ UNCHANGED <<transport, owner, jar>>
    BY <1>7 DEF RevalidateAnswered, server
  <2>2. r.kind = "revalidate"
        /\ stored' = IF found THEN Reconciled(stored, owner[r.token]) ELSE stored
    BY <1>7 DEF RevalidateAnswered
  <2>3. \E kinds : requests' = Superseding(t, kinds, rs)
    BY <1>7, <1>4 DEF RevalidateAnswered
  <2>4. /\ Follows(next, tab[t], stored) /\ next.local \in {0, tab[t].local}
        /\ stored' = stored
    <3>1. CASE found
      <4>1. stored' = stored
        BY <3>1, <2>2, AnswerOwner
      <4>2. stored.account = owner[r.token] /\ stored.account = tab[t].account
        <5>1. stored.account = owner[r.token]
          BY <3>1, <2>2, <4>1 DEF Reconciled
        <5> QED BY <5>1, <3>1, <1>1 DEF Matches
      <4>3. s \in AuthState /\ s.local = tab[t].local
        BY <3>1, <1>1, AnswerToken, SignedInFields
      <4>4. Follows(s, tab[t], stored)
        BY <3>1, <1>1, <4>2, SignedInFields DEF Follows, Workspace
      <4>5. Follows(reloaded, s, stored) /\ reloaded.local = s.local
        BY <4>3 DEF Follows, AuthState, Workspace
      <4>6. Follows(Mounted(s, stored), s, stored) /\ Mounted(s, stored).local = s.local
        BY <4>3, TabsFollow, MountedFields
      <4>7. Follows(reloaded, tab[t], stored) /\ Follows(Mounted(s, stored), tab[t], stored)
        BY <4>4, <4>5, <4>6, FollowsOn
      <4> HIDE DEF s, reloaded
      <4> QED BY <3>1, <4>1, <4>3, <4>4, <4>5, <4>6, <4>7
    <3>2. CASE ~found
      <4> DEFINE u == TokenDropped(tab[t], r)
      <4>1. u \in AuthState /\ Follows(u, tab[t], stored) /\ u.local \in {0, tab[t].local}
        BY <1>1, TabsFollow, DroppedFields
      <4>2. Follows(SignedOut(u), u, stored) /\ SignedOut(u).local = u.local
        BY <4>1, TabsFollow, SignedOutFields
      <4>3. Follows(SignedOut(u), tab[t], stored)
        BY <4>1, <4>2, FollowsOn
      <4>4. Follows(Resumed(tab[t], stored), tab[t], stored)
            /\ Resumed(tab[t], stored).local = tab[t].local
        BY <1>1, TabsFollow, MountedFields
      <4> QED BY <3>2, <2>2, <4>1, <4>2, <4>3, <4>4
    <3> QED BY <3>1, <3>2
  <2> HIDE DEF next
  <2> QED BY <1>5, <2>1, <2>3, <2>4
<1>8. ASSUME LoginAnswered(r) PROVE Matching'
  <2> DEFINE token == n + 1
             u == [tab[t] EXCEPT !.local = IF transport = "local" THEN token ELSE @]
             s == Cleared(u)
             signed == SignedIn(s, r.aim, token)
             next == IF r.current THEN Mounted(signed, stored') ELSE s
  <2>1. tab' = [tab EXCEPT ![t] = next] /\ transport' = transport
    BY <1>8 DEF LoginAnswered
  <2>2. /\ r.kind = "login" /\ n < MaxLogins /\ n \in Nat
        /\ requests' = Superseding(t, Queries, rs)
        /\ stored' = IF r.current THEN Reconciled(stored, r.aim) ELSE stored
    BY <1>8 DEF LoginAnswered, Types, ServerTypes
  <2>3. r.aim \in Accounts /\ token \in Tokens
    BY <1>1, <2>2, SessionAssumption DEF RequestTyped, Tokens
  <2>4. u.status = tab[t].status /\ u \in AuthState
    BY <1>1, <2>3 DEF AuthState
  <2>5. s.status = tab[t].status /\ s.cache = NoEntry /\ s \in AuthState
    BY <2>4, ClearedFields
  <2>6. signed \in AuthState
    BY <2>3, <2>5, SignedInFields
  <2>7. tab[t].status # "authenticated"
    <3>1. Entering(r)
      BY <2>2 DEF Entering
    <3> QED BY <3>1, <1>1 DEF Sound
  <2>8. /\ next.cache = NoEntry
        /\ next.status = "authenticated" => stored'.account = next.account
        /\ Workspace(next) => next.requested = ReadSelectedTenant(stored')
    <3>1. CASE r.current
      <4>1. next.cache = NoEntry /\ next.account = r.aim
            /\ next.requested = ReadSelectedTenant(stored')
        BY <3>1, <2>5, <2>6, MountedFields, SignedInFields
      <4>2. stored'.account = r.aim
        BY <3>1, <2>2 DEF Reconciled
      <4> QED BY <4>1, <4>2
    <3>2. CASE ~r.current
      BY <3>2, <2>5, <2>7 DEF Workspace
    <3> QED BY <3>1, <3>2
  <2> HIDE DEF next
  <2>9. \A q \in requests' : ~Counts(q)
    BY <2>2, <1>2, NoneCounts
  <2>10. PICK k : k = IF transport = "local" THEN next.local ELSE jar'
    OBVIOUS
  <2>11. Matches(next, stored', k, owner', requests')
    BY <2>8, <2>9, MatchesFresh
  <2> QED BY <1>1, <2>1, <2>10, <2>11, OneMatches
<1>9. ASSUME LogoutAnswered(r) PROVE Matching'
  <2> DEFINE c == Cleared(tab[t])  off == [c EXCEPT !.local = 0]
             next == SignedOutBy(r, tab[t])
  <2>1. /\ tab' = [tab EXCEPT ![t] = next] /\ UNCHANGED <<transport, owner, stored>>
        /\ jar' = 0
        /\ requests' = Superseding(t, Queries, rs)
    BY <1>9 DEF LogoutAnswered
  <2>2. c \in AuthState /\ Follows(c, tab[t], stored) /\ 0 \in Tokens
    BY <1>1, ClearedFields, TabsFollow, SessionAssumption DEF Tokens
  <2>3. off \in AuthState /\ off.local = 0 /\ Follows(off, c, stored)
    <3> HIDE DEF c
    <3>1. off \in AuthState /\ off.local = 0
      BY <2>2 DEF AuthState
    <3> QED BY <3>1, <2>2, TabsFollow
  <2>4. Follows(off, tab[t], stored)
    BY <2>2, <2>3, FollowsOn
  <2>5. /\ Follows(SignedOut(off), off, stored) /\ Follows(Mounted(off, stored), off, stored)
        /\ SignedOut(off).local = 0 /\ Mounted(off, stored).local = 0
    BY <2>3, TabsFollow, SignedOutFields, MountedFields
  <2>6. Follows(SignedOut(off), tab[t], stored) /\ Follows(Mounted(off, stored), tab[t], stored)
    BY <2>4, <2>5, FollowsOn
  <2>7. Follows(next, tab[t], stored) /\ next.local = 0
    <3>1. next \in {SignedOut(off), Mounted(off, stored), off}
      BY DEF SignedOutBy
    <3> QED BY <3>1, <2>3, <2>4, <2>5, <2>6
  <2> HIDE DEF next
  <2> QED BY <1>5, <2>1, <2>7
<1>10. ASSUME OptionsAnswered(r) PROVE Matching'
  <2> DEFINE s == [tab[t] EXCEPT !.catalog = "ready",
                                 !.options = ContextsOf(owner[r.token])]
             changed == Selected(s) # Selected(tab[t])
             used == r.current /\ Workspace(tab[t])
             next == IF ~used THEN tab[t]
                     ELSE IF changed THEN [s EXCEPT !.actorFailed = "no"] ELSE s
  <2>1. s \in AuthState /\ s.local = tab[t].local /\ s.account = tab[t].account
        /\ s.requested = tab[t].requested /\ s.status = tab[t].status
        /\ s.mounted = tab[t].mounted /\ s.cache = tab[t].cache
    BY <1>1 DEF AuthState, ContextsOf
  <2>2. tab' = [tab EXCEPT ![t] = next]
    BY <1>10 DEF OptionsAnswered
  <2>3. requests' = rs /\ UNCHANGED <<transport, owner, jar>>
    BY <1>10 DEF OptionsAnswered, server
  <2>4. stored' = stored \/ /\ Workspace(tab[t]) /\ Selected(s) # None
                            /\ stored' = [tenant |-> Selected(s), account |-> s.account]
    BY <1>10 DEF OptionsAnswered
  <2>5. stored'.account = stored.account
        /\ ReadSelectedTenant(stored') = ReadSelectedTenant(stored)
    <3>1. ASSUME Workspace(tab[t]), Selected(s) # None,
                 stored' = [tenant |-> Selected(s), account |-> s.account]
          PROVE  stored'.account = stored.account
                 /\ ReadSelectedTenant(stored') = ReadSelectedTenant(stored)
      <4>1. Selected(s) = tab[t].requested
        BY <3>1, <2>1 DEF Selected
      <4>2. ReadSelectedTenant(stored') = Selected(s)
        BY <3>1 DEF ReadSelectedTenant
      <4>3. tab[t].requested = ReadSelectedTenant(stored) /\ stored.account = tab[t].account
        BY <3>1, <1>1 DEF Matches, Workspace
      <4>4. stored'.account = stored.account
        BY <3>1, <4>3, <2>1
      <4> QED BY <4>1, <4>2, <4>3, <4>4
    <3> QED BY <2>4, <3>1
  <2>6. Follows(next, tab[t], stored') /\ next.local = tab[t].local
    <3> HIDE DEF s
    <3>1. LET m == [s EXCEPT !.actorFailed = "no"] IN
          /\ m.local = s.local /\ m.status = s.status /\ m.account = s.account
          /\ m.mounted = s.mounted /\ m.cache = s.cache /\ m.requested = s.requested
      BY <2>1 DEF AuthState
    <3> QED BY <2>1, <3>1 DEF Follows, Workspace
  <2> HIDE DEF next
  <2> QED BY <1>1, <1>4, <2>2, <2>3, <2>5, <2>6, LeavingMatches
<1>11. ASSUME ActorAnswered(r) PROVE Matching'
  <2> DEFINE s == tab[t]
             shown == r.aim = Selected(s) /\ r.account = s.account
             next == IF ~r.current THEN s
                     ELSE [s EXCEPT
                        !.actor = [account |-> r.account, tenant |-> r.aim, of |-> r.tenant],
                        !.actorFailed = IF shown THEN "no" ELSE s.actorFailed]
  <2>1. tab' = [tab EXCEPT ![t] = next]
    BY <1>11 DEF ActorAnswered
  <2>2. Follows(next, tab[t], stored) /\ next.local = tab[t].local
    BY <1>1 DEF AuthState, Follows, Workspace
  <2> HIDE DEF next
  <2>3. requests' = rs /\ UNCHANGED <<transport, owner, jar, stored>>
    BY <1>11 DEF ActorAnswered, server
  <2> QED BY <1>4, <1>5, <2>1, <2>2, <2>3
<1>12. ASSUME DataAnswered(r) PROVE Matching'
  <2> DEFINE fetched == [account |-> owner[r.token], tenant |-> r.tenant, of |-> r.tenant]
             next == [tab[t] EXCEPT !.cache = IF r.current THEN fetched ELSE @]
  <2>1. tab' = [tab EXCEPT ![t] = next]
    BY <1>12 DEF DataAnswered
  <2>2. requests' = rs /\ UNCHANGED <<transport, owner, jar, stored>>
    BY <1>12 DEF DataAnswered, server
  <2>3. r.kind \in PageQueries /\ r.token \in live
    BY <1>12 DEF DataAnswered, Serves
  <2>4. /\ next.local = tab[t].local /\ next.status = tab[t].status
        /\ next.account = tab[t].account /\ next.mounted = tab[t].mounted
        /\ next.requested = tab[t].requested
        /\ next.cache = IF r.current THEN fetched ELSE tab[t].cache
    BY <1>1 DEF AuthState
  <2>5. Matches(tab[t], stored, sent, owner, rs)
    <3>1. Follows(tab[t], tab[t], stored)
      BY <1>1, TabsFollow
    <3> QED BY <3>1, <1>1, <1>4, MatchesKept
  <2>6. r.current =>
          /\ OfOne(fetched.account, stored, sent, owner, rs)
          /\ fetched.tenant = ReadSelectedTenant(stored)
    <3> SUFFICES ASSUME r.current
                 PROVE  /\ OfOne(fetched.account, stored, sent, owner, rs)
                        /\ fetched.tenant = ReadSelectedTenant(stored)
      OBVIOUS
    <3>1. r.token # 0 /\ r.kind \in Queries
      BY <2>3, AnswerToken DEF Queries, PageQueries
    <3>2. Counts(r) /\ Acting(r)
      BY <3>1 DEF Counts, Acting
    <3>3. owner[r.token] = r.account
      BY <3>1, <3>2, <1>1 DEF Sound
    <3>4. OfOne(r.account, stored, sent, owner, requests)
          /\ r.tenant = ReadSelectedTenant(stored)
      BY <3>2, <2>3, <1>1 DEF Matches
    <3>5. OfOne(r.account, stored, sent, owner, rs)
      BY <3>4 DEF OfOne
    <3> QED BY <3>3, <3>4, <3>5
  <2> HIDE DEF next, fetched
  <2>7. Matches(next, stored, sent, owner, rs)
    BY <2>4, <2>5, <2>6 DEF Matches, Workspace
  <2>8. sent = IF transport = "local" THEN next.local ELSE jar'
    BY <1>3, <2>2, <2>4
  <2> HIDE DEF sent
  <2> QED BY <1>1, <2>1, <2>2, <2>7, <2>8, OneMatches
<1>13. ASSUME Refused(r) PROVE Matching'
  <2> DEFINE s == TokenDropped(tab[t], r)
             signsOut == Interrupts(r) /\ s.status \in {"authenticated", "loading"}
             next == IF signsOut THEN SignedOut(s) ELSE QueryFailed(s, r, "other")
  <2>1. tab' = [tab EXCEPT ![t] = next] /\ UNCHANGED <<transport, owner, jar, stored>>
    BY <1>13 DEF Refused, server
  <2>2. \E kinds : requests' = Superseding(t, kinds, rs)
    BY <1>13, <1>4 DEF Refused
  <2>3. s \in AuthState /\ Follows(s, tab[t], stored) /\ s.local \in {0, tab[t].local}
    BY <1>1, TabsFollow, DroppedFields
  <2> HIDE DEF s
  <2>4. next.local = s.local /\ Follows(next, s, stored)
    <3>1. next \in {SignedOut(s), QueryFailed(s, r, "other")}
      OBVIOUS
    <3>2. SignedOut(s).local = s.local /\ Follows(SignedOut(s), s, stored)
      BY <2>3, TabsFollow, SignedOutFields
    <3>3. QueryFailed(s, r, "other").local = s.local
          /\ Follows(QueryFailed(s, r, "other"), s, stored)
      <4>1. QueryFailed(s, r, "other").local = s.local
        BY <2>3, QueryFailedKeeps
      <4>2. Follows(QueryFailed(s, r, "other"), s, stored)
        BY <2>3, TabsFollow
      <4> QED BY <4>1, <4>2
    <3> QED BY <3>1, <3>2, <3>3
  <2> HIDE DEF next
  <2>5. Follows(next, tab[t], stored)
    BY <2>3, <2>4, FollowsOn
  <2> QED BY <1>5, <2>1, <2>2, <2>3, <2>4, <2>5
<1>14. ASSUME Unavailable(r) PROVE Matching'
  <2> DEFINE s == QueryFailed(tab[t], r, "unavailable")
  <2>1. tab' = [tab EXCEPT ![t] = s] /\ UNCHANGED <<transport, owner, jar, stored>>
    BY <1>14 DEF Unavailable, server
  <2>2. Follows(s, tab[t], stored) /\ s.local = tab[t].local
    BY <1>1, TabsFollow, QueryFailedKeeps
  <2> HIDE DEF s
  <2>3. CASE Workspace(tab[t])
    <3>1. requests' = rs \cup Fetches(t, {"options"})
      BY <2>3, <1>14 DEF Unavailable
    <3>2. {"options"} \in SUBSET (Queries \cup {"revalidate"})
      BY DEF Queries, PageQueries
    <3>3. tab[t].status = "authenticated"
      BY <2>3 DEF Workspace
    <3> QED BY <1>1, <1>4, <2>1, <2>2, <3>1, <3>2, <3>3, FetchingMatches
  <2>4. CASE ~Workspace(tab[t])
    <3>1. requests' = rs
      BY <2>4, <1>14 DEF Unavailable
    <3> QED BY <1>4, <1>5, <2>1, <2>2, <3>1
  <2> QED BY <2>3, <2>4
<1>15. ASSUME Lost(r) PROVE Matching'
  <2> DEFINE fails == \/ r.kind \in {"init", "login"} /\ r.current
                      \/ /\ r.kind = "revalidate"
                         /\ tab[t].status = "authenticated" /\ tab[t].account = r.account
             off == [tab[t] EXCEPT !.local = 0]
             next == IF fails THEN SessionUnknown(tab[t])
                     ELSE IF r.kind = "logout" THEN IF r.current THEN SignedOut(off) ELSE off
                     ELSE IF r.kind = "revalidate" THEN Resumed(tab[t], stored)
                     ELSE QueryFailed(tab[t], r, "other")
  <2>1. tab' = [tab EXCEPT ![t] = next] /\ UNCHANGED <<transport, owner, jar, stored>>
        /\ requests' = rs
    BY <1>15 DEF Lost
  <2>2. off \in AuthState /\ off.local = 0 /\ Follows(off, tab[t], stored)
    <3>1. off \in AuthState /\ off.local = 0
      BY <1>1, SessionAssumption DEF AuthState, Tokens
    <3> QED BY <3>1, <1>1, TabsFollow
  <2>3. Follows(SignedOut(off), tab[t], stored) /\ SignedOut(off).local = 0
    <3>1. Follows(SignedOut(off), off, stored) /\ SignedOut(off).local = 0
      BY <2>2, TabsFollow, SignedOutFields
    <3> QED BY <3>1, <2>2, FollowsOn
  <2>4. \A x \in {SessionUnknown(tab[t]), Resumed(tab[t], stored),
                  QueryFailed(tab[t], r, "other")} :
          Follows(x, tab[t], stored) /\ x.local = tab[t].local
    BY <1>1, TabsFollow, SignedOutFields, MountedFields, QueryFailedKeeps
  <2>5. Follows(next, tab[t], stored) /\ next.local \in {0, tab[t].local}
    BY <2>2, <2>3, <2>4
  <2> HIDE DEF next
  <2> QED BY <1>4, <1>5, <2>1, <2>5
<1> QED BY <1>6, <1>7, <1>8, <1>9, <1>10, <1>11, <1>12, <1>13, <1>14, <1>15
        DEF Settles, Answered

LEMMA MatchingInit == Init => Matching
<1> SUFFICES ASSUME Init, NEW t \in Tabs
             PROVE  Matches(tab[t], stored, TokenSent(t), owner, requests)
  BY DEF Matching
<1>1. tab[t].status = "loading" /\ tab[t].cache = NoEntry
  BY DEF Init, NewTab
<1>2. \A r \in requests : ~Counts(r)
  BY DEF Init, FirstRequest, Counts, Queries, PageQueries
<1> QED BY <1>1, <1>2, MatchesFresh DEF Workspace

LEMMA MatchingStep ==
    ASSUME Types, Single, Acts, Matching, [Next]_vars
    PROVE  Matching'
<1>1. ASSUME UNCHANGED <<transport, owner, jar, stored, tab, requests>> PROVE Matching'
  BY <1>1 DEF Matching, TokenSent
<1>2. CASE Server
  BY <1>1, <1>2 DEF Server, SessionEnds, LeaseApproved, LeaseEnds, browser
<1>3. CASE UNCHANGED vars
  BY <1>1, <1>3 DEF vars
<1> QED BY <1>2, <1>3, UserMatches, AnswerMatches DEF Next

\* ShownDataMatchesContext: what the only tab of a browser shows under a
\* Tenant-neutral key was served to the signed-in Account for the selected
\* Tenant, for every number of Accounts, Tenants, sessions and requests under
\* way.  Two tabs share the stored selection: the run two_tabs shows that one
\* then renders what was served for the Tenant of the other.
THEOREM ShownDataMatches ==
    ASSUME Single
    PROVE  Spec => []ShownDataMatchesContext
<1>1. Matching /\ Types => ShownDataMatchesContext
  <2> SUFFICES ASSUME Matching, Types, NEW t \in Tabs,
                      Shows(tab[t]), tab[t].cache # NoEntry
               PROVE  tab[t].cache.account = tab[t].account
                      /\ tab[t].cache.tenant = Selected(tab[t])
    BY DEF ShownDataMatchesContext
  <2>1. Matches(tab[t], stored, TokenSent(t), owner, requests)
    BY DEF Matching
  <2>2. Workspace(tab[t]) /\ Selected(tab[t]) # None
    BY DEF Shows
  <2>3. Selected(tab[t]) = tab[t].requested
    BY <2>2 DEF Selected
  <2> QED BY <2>1, <2>2, <2>3 DEF Matches, OfOne, Workspace
<1>2. Separate
  BY DEF Separate, Single
<1>3. Types /\ Acts /\ Matching /\ [Next]_vars => Matching'
  BY MatchingStep
<1>4. Types /\ Acts /\ [Next]_vars => Acts'
  BY <1>2, ActsStep
<1> QED BY <1>1, <1>3, <1>4, ActsInit, MatchingInit, AlwaysTyped, PTL DEF Spec
=============================================================================
