# EnterpriseRemoteSystems: verification project

ERS keeps the people, the work periods and the money of remote mining sites. A
*Collaborator Journey* is one stay of one person at a site; what the person earns
and spends there is a ledger per Journey and value unit (BRL, grams of gold),
which is paid out, receipted on paper or in-app, and brought to zero before the
Journey is closed. A Go server over one SQLite file keeps all this; a React
application in the browser is how it is used, over remote links that delay and
lose answers. This directory holds TLA+ models of both sides, the TLC runs that
check them and TLAPS proofs about them. Paths are relative to
`src/backend/internal` or, if they start with `api`, `app`, `components`,
`features` or `types`, to `src/frontend/src`.

## The system

### The server

The backend is one Go process (Fiber) over one SQLite file. Requests run in
concurrent goroutines. `db/db.go:44` sets `SetMaxOpenConns(1)`: a single
connection, so every statement outside a transaction, and every
`Transaction(func ...)` as a whole, is atomic with respect to all others. What is
*not* atomic is a service operation: it reads what it decides on in separate
statements and writes in a later transaction, and other requests run in between.
What then still holds is what the writing transaction checks itself: unique
indexes, triggers, `WHERE` clauses, gorm hooks. All models of the server are built
on this: **one statement or one transaction is one step; a worker (or a request)
is a goroutine whose `pc` (or `step`) says which statement is next, and which
holds what it has read.**

| Part | State | Operations | What is hard | What must hold |
|---|---|---|---|---|
| Current accounts (`currentaccounts`) | `ledger_entries` (append-only), `journey_settlements`, `ledger_receipts`, `closed_at` | PartialPayout, ZeroGold, final payments, CloseJourney, ReverseEntry, ReplaceEntry, Print/Return/AcceptReceipt | balances read before the write; retried request ids; four separate reads before closing | one settlement per request; corrections cancel exactly; closed only when settled; receipts obliged and discharged lawfully; no overdraft |
| Database integrity (`db`) | hook and triggers on the rows above | AfterCreate of a ledger entry, closure and receipt guards | one hook for the rows of every other part | exactly the debits and final settlements oblige a receipt |
| Expenses (`expenses`) | `expenses`, their debits and receipts | Create, Update, Cancel, Deactivate, recreate, Canteen batch | chain of reversals and replacements, "latest" by a clock read earlier | charged exactly once; a cancellation is complete and final |
| Collaborators (`collaborators`) | Journeys, extension requests, bonus awards | assign, update, extend, accept/reject, award, approve | whole-row saves of rows read earlier | projected end = default end + days granted; one award posting |
| Accruals (`accruals`) | runs, items | calculate, recalculate, post, void | recalculation against posting; keys of postings | an item is credited once; a posted run stays posted |
| Work periods, assignments, gold production | period status, plans, production | inform, close, reopen, bulk plan | status written by three services | nothing is recorded on a closed period |
| People, tenants | persons, memberships, administrators | activate, inactivate, suspend, assign administrator | two independent reasons for inactivity | active only when neither holds |
| Authentication (`authentication`) | accounts, sessions, reset tokens | login, reset, change password, deactivate | sessions created after a revocation | no session survives the end of what it was based on |
| Authorization (`authz`) | actors, grants, support leases | grant, revoke, request/approve/use/terminate a lease | count-then-write; expiry against use | an Application Administrator remains; a lease acts only while approved and unexpired |
| Backup, restore, off-host | files, manifests, `-wal` | backup, prune, apply | a crash between two file-system steps | after a crash one good database is there |
| Price lists, reference data, importer, HTTP layer, deployment | | | little or no protocol of their own | |

The parts meet in the database: expenses, accruals and awards *post to the
ledger* of `currentaccounts`, through the same `AfterCreate` hook; current-account
corrections *reverse entries* that expenses posted; closing a Journey *reads* the
pending accruals, extensions, awards and receipts of all of them; accruals *read*
the plan and the production, and *write* the status of the Work Period.

### The browser

The frontend keeps almost no state of its own. What it shows is the cache of
TanStack Query, filled by queries and brought up to date by what each mutation's
`onSuccess` invalidates or stores; what it offers is decided from that cache; and
which Account and Tenant it all belongs to is decided by the session, the stored
Tenant selection and the headers of each request.

| Part | State | Operations | What is hard | What must hold |
|---|---|---|---|---|
| Session, Tenant selection, HTTP client (`app/authStore.ts`, `api/client.ts`, `api/tenantSelection.ts`, `RequireAuth`, `AppShell`, `LoginPage`) | authentication state, cookie or LOCAL token, selected Tenant, catalog, effective Actor | sign in and out, revalidate, switch Tenant, react to 401 and 403 | answers of an earlier session or Tenant arrive late; two tabs share storage; waits that nobody ends | what is shown belongs to what is signed in and selected; every wait ends |
| Query cache, mutations, routing (the `use*` hooks) | an answer and a fetch per query; pending mutations | fetch, invalidate, cancel, `setQueryData`, navigate | fetches that started before a mutation end after it; forms left while pending | the page at rest is current; no form hangs; late successes do no harm |
| Pages of 25 areas (`features/*`) | open panels, what is rendered as pending | every mutation they send | buttons decided from old answers; double clicks; server and page list statuses separately | what is offered on a current answer is accepted; one submission at a time |
| Work Period pages (`features/planning`) | the plan form, the tab | edit and save the plan, inform it, mark outcomes, create, recalculate and post runs | requests that the server executes as many statements, interleaved with those of other operators | paid once, posted means paid, the page at rest is current |
| Pages that only read, translations, formats, layout | | | no state of consequence | |

## Modules

### `CurrentAccount.tla`

| Variable | Code |
|---|---|
| `ledger` | rows of `ledger_entries`. A row's `key` stands for its id; `related` is `related_entry_id` |
| `receipts` | `ledger_receipts`, keyed by the entry (`ledger_entry_id` is unique) |
| `settlements` | `journey_settlements`, the `CLOSE_JOURNEY` audit row included |
| `closed` | Journeys with `closed_at` set |
| `accrual`, `extensions`, `awards` | the state of other parts that a closure looks at: accrual items by status (none, some PENDING, else some READY), a PENDING extension request, a PENDING_APPROVAL award |
| `pc`, `job` | the handlers in progress |

| Action | Code |
|---|---|
| `BeginPartialPayout`, `BeginZeroGold`, `BeginFinalPayment` | the service up to the look-up of the request id |
| `ReadBalances` | `ListBalances` and the decision taken on it |
| `CommitSettlement` | `CreateSettlementWithEntries`: the settlement, its entries and the hook's receipts, or nothing when the unique index on the request refuses |
| `BeginCloseJourney`, `PreviewBalances`, `PreviewAccruals`, `PreviewReceipts` | the four reads of `SettlementPreview`, in its order |
| `CommitCloseJourney` | `CloseJourneyWithAudit`: `WHERE closed_at IS NULL`, the zero-balance trigger, the audit row |
| `BeginReverseEntry`, `BeginReplaceEntry`, `CommitCorrection` | `corrections.go`: `requireCorrectableEntry`, then one transaction under `ux_ledger_entries_single_reversal` |
| `PrintReceipt`, `ReturnReceipt`, `AcceptReceipt` | the receipt services; each reads, decides and writes the status in one transaction |
| `BeginCreateExpense`, `CommitCreateExpense`, `CalculateAccruals`, `BeginPostRun`, `CommitPostRun`, the extension and award actions | what the other parts do to the same rows, with their own read/write split |

### `Expenses.tla`

The life of an expense and its chain of postings in detail: creation (also as the
recreation of a cancelled expense), `Update` (reverse the latest debit, post a
replacement), `Cancel` (reverse it, cancel every outstanding receipt of the
chain) and `Deactivate`. `expenses` are the rows, `debits` and `reversals` the
ledger entries of the chains, `receipts` their receipts, and `clock` is
`time.Now()`, because `latestExpenseLedgerEntry` orders by a `created_at` that the
service took *before* its transaction. `CorrectEntry`, `ReturnReceipt` and
`CloseJourney` are the current account's effect on the same rows, one transaction
each, at any time and next to the two workers.
`CurrentAccount` sees of an expense only that it posts a debit on a Journey read
as open; `Expenses` sees of the account only these three effects. Each module
so abstracts the other to what it can observe of it.

### `ImmutableLedger.tla`

What a ledger promises to all who read it: entries are added and never changed or
removed, and an entry is undone by at most one other, of the same account and the
opposite value. `CurrentAccount` implements it under
the mapping `LedgerEntries` (`Ledger == INSTANCE ImmutableLedger WITH entries <-
LedgerEntries`), and `LedgerIsImmutable == Ledger!Spec` is a PROPERTY of
`correction_races`. The mapping keeps of a row its id, account and signed value,
and what it reverses; a replacement is, to the abstract ledger, just an entry.

### `WorkPeriod.tla` and `PlanningPage.tla`

`WorkPeriod` is the server side of one Work Period; `PlanningPage` EXTENDS it with
the page in the browser and composes both in its `Next`.

| Variable | Code |
|---|---|
| `period`, `plan`, `produced` | `work_periods.status`; its active `work_period_assignments`; whether its gold production is recorded |
| `runs`, `items`, `made` | `accrual_runs`, `accrual_items`; `made` makes the ids of a new calculation fresh, as ULIDs do |
| `ledger` | the ledger entries posted for this Work Period, by what their ids are made of |
| `requests` | the handlers at work: which statement is next and what they have read |
| `tab`, `rows` | the tab of `WorkPeriodDetailPage`, the form of `PlanTab` |
| `seen`, `fetch` | the cache of the four queries, the fetches under way |
| `unsure`, `overwritten` | history: a request failed or someone else wrote; an outcome put an older row back |
| `budget` | bound: how often the users may still do each thing |

The server's actions are `BulkRead`, `BulkSave`, `BulkCover` (BulkPlan reads the
plan once and saves row by row, without a transaction), `OutcomeRead/Save`,
`RefineSave`, `InformRead/Save`, `CreateRun`, `Calculate`, `ReplaceItems`,
`PostRead`, `PostReadyItems`, `RecordProduction`, and `Breaks`, a handler that
fails half-way. `LinesFor` is the calculation of one Collaborator's lines with
the replacement rules of gold commission; `EntryId` is how `accrualLedgerEntry`
keys them, and `Fresh` the silent `ON CONFLICT DO NOTHING`. The page's actions are
the edits of `PlanTab`, what it sends, `Receive` (the `onSuccess` of each hook),
`FetchRead`/`FetchDelivered` and `OpenTab`.

### `BrowserSession.tla`

The tabs of one browser over a server reduced to sessions, standing contexts and
support leases. A request is a record of the token and Tenant it was sent with; it
is answered, on both sides, in one later step, so a late answer is a late step,
and `Lost(r)` is a request or answer that never arrives. `current` is the revision
or cancellation flag the code compares. The pages' queries come in two kinds,
`PageQueries`: those of `apiFetch` ("data") and those of `apiFetchBlob` ("photo": a
Person's photo, and the CSV export with it), which differ in `Interrupts`, that is, in
whether a 401 that belongs to an earlier LOCAL session is ignored. `tab[t]` holds what `authStore`, `AppShell`
and the query cache keep; `jar` and `stored` are shared by the tabs. Actions:
`Reload`, `Initialize`, `Login`, `Logout`, `Navigate`, `Focus`, `RefreshOptions`,
`RetryActor`, `ChangeTenant`, `FetchData`; React's effects `FetchOptions`,
`FetchActor`, `SelectFallback`; one action per kind of answer; and the server's
`SessionEnds`, `LeaseApproved`, `LeaseEnds`. Both transports of `client.ts` are one
module with `transport` chosen at `Init`.

### `Screens.tla` and the tables of the areas

All other pages do the same things with different data, so `Screens` is *the
engine*: fetching, joining and restarting fetches, giving them up, mutations with
their four stages (sent, refused, done, refreshing), panels, the render that comes
after a click, navigation. *The tables* say what each page and each mutation
is: one definition per page or hook, with the hook's `onSuccess` as fields
(`changes`, `sets`, `refreshes`, `awaits`, `leaves`, `cancels`), the form's
conditions (`reads`, `offered`, `disabledBy`, `once`, `kept`, `escapable`,
`forgets`), where it leads (`goesTo`, `alsoLate`), and in `becomes` the statuses
the *server's handler* accepts and what it makes of them, read from the Go code.

| Module | Areas |
|---|---|
| `ExpenseScreens` | creation and Canteen batch; cancellation and re-creation; receipts |
| `JourneyScreens` | creation; both edit forms; extension requests; bonus awards; settlement and closure |
| `PeopleScreens` | registration; Membership; the form and the Authentication Account; the photo |
| `AdminScreens` | Tenants; Tenant Administrators; price list; reference data; gold prices; mine production; approval policy |
| `AuthzScreens` | Actors; Tenant roles; lease requests; lease review; accounts and their reactivation |

A query's answer is not its content but which mutations it offers (`Old(offers)`),
or that it is as the server has it (`Current`). `behind` collects the queries that
*the code itself* leaves behind the server: a refetch that failed, an answer that
was lost after the server acted, a query an older fetch overtakes, and what a
hook knowingly does not touch (`leaves`). `blind` marks statuses in which a button
is offered though the handler refuses, because the page cannot tell them apart.
Both are the exceptions that the properties name instead of hiding; each is
explained below.

### Abstractions, and what they cost

* Amounts are small naturals, and in the pages no amounts at all. The code's REAL
  amounts, the tolerance of `1e-9` and the rounding are left out: no property is
  about them.
* One tenant on the server's side. Every query filters by tenant, and the models
  do not look for a query that forgets to.
* Validation of texts and dates, permissions and the second-approval policy
  are left out; they only refuse requests, and `Refused` and `Lost` are there.
* The look-up of a used request id is one step with the handler's first read. The
  unique index decides again at the commit, and that is a step of its own.
* In `CurrentAccount` a receipt never becomes CANCELLED (only `Expenses.Cancel`
  does that: `Expenses`), and accruals and awards are one status per Journey.
* In `Expenses` the clock ticks at every look, so no two handlers read the same
  time. Creating an expense reads Journey, source and clock in one step: what
  closes a Journey and what cancels a source are independent of each other. The
  price calculation and the Canteen batch (several creations in one transaction)
  are left out.
* `WorkPeriod`: gold commission only (the method with the replacement rules);
  sector, location and task are left out. So each item posts one entry, and its id
  drops the unit (`EntryId`). Gold production is recorded or not: an update changes an
  amount or a place, and the handlers that deactivate and delete a record, which no
  page calls, are left out. CLOSED, ACCRUAL_OPEN and VOIDED are
  set by no code, so guards on them are left out.
* `BrowserSession`: the pages that change or reset a password are left out; the
  retries of a query are one `Lost`; a lease is approved or not.
* `Screens`: one user in one area; what others do there meanwhile is left to
  the server's modules. A handler is one step here. Expiry of the cache and stale
  times are left out (each visit fetches), and so is what a form is filled in with.

## Runs

| Run | What it asks | Result |
|---|---|---|
| `settlement_races` | Two workers settle and close one Journey in two value units, with retried request ids and the other parts' postings in between | `SettlementsPostOnce`, `ClosedOnce`, `ClosesOnlySettled`, `TypeOK` hold (540,628 states) |
| `correction_races` | Two workers correct the same entries, chains of replacements included, and discharge the receipts | `CorrectionsCancel`, `ReceiptObligations`, `ReceiptsDischarged`, `DischargeIsFinal` and the refinement `LedgerIsImmutable` hold (174,482 states) |
| `serial_requests` | One request at a time, two Journeys, every operation | `PayoutsCovered`, `FinalPaymentsSettle`, `ClosesUnblocked` hold (510,996 states) |
| `payout_race` | The same `PayoutsCovered` with two workers | violated: finding 1 |
| `closure_race` | `FinalReceiptsAcceptedBeforeClose` with two workers | violated: finding 2 |
| `closed_journey_posting` | `ClosedTakesNoNewWork` | violated: finding 3 |
| `expense_races` | Two workers create, update, cancel, deactivate and recreate three expenses while debits are corrected, receipts come back and the Journey closes | `ChargedOnce`, `CancelledOwesNoReceipt`, `RecreatedOnce`, `CancelIsFinal`, `ReturnedIsEvidence`, `CancelSucceedsInOrder`, `TypeOK` hold (2,122,206 states) |
| `expense_stuck` | `ActiveCanBeCancelled`, without the exceptions of `CancelSucceedsInOrder` | violated: finding 4 |
| `planning_races` | The Work Period page over its server: saves that break off, outcomes, the informing of the plan, and runs created, recalculated and posted by two operators | `EarningPaidOnce`, `PostedMeansPaid`, `PostedIsKept`, `OneReplacementPerTarget`, `QuietIsCurrent`, `TypeOK` hold (1,270,229 states) |
| `browser_session` | One tab, either transport, two Accounts and Tenants, a session that ends or a lease that comes and goes | `ShownDataMatchesContext`, `ActsAsShown`, `NewerSessionSurvives`, and under fairness `WaitingEnds` and `LostTenantIsLeft`, hold (355,569 states) |
| `two_tabs` | `ShownDataMatchesContext` with a second tab | violated: finding 5 |
| `screens` | Each of the 25 areas, by a user who clicks, leaves and comes back | `SettledPageIsCurrent`, `OfferedIsAccepted`, `OneSubmission`, `AwaitedIsUnderWay`, `SuccessIsFresh`, `LateSuccessStays`, `TypeOK` hold (247,618 states) |

**Bounds.** Two workers are enough for every race on the server: each property
relates one handler's stale read to one foreign commit, or two commits of the same
kind. Three ledger transactions (`MaxTransactions`) let one entry be earned, settled
twice or settled and closed, or corrected, corrected again and receipted; the serial
run has two Journeys. One amount suffices where
only zero matters; `correction_races` and `expense_races` use two, so that a replaced
amount can differ. Two units appear wherever netting of units could matter. Four
readings of the clock (`MaxTime`) let an expense be created, updated twice out of
order and cancelled; three expenses let one be recreated twice.

`planning_races` has three Collaborators, because a replacement relates two and a
second claim on the same target needs a third, and two requests at a time. What the
users may do is a `budget`, one scenario each for planning with broken saves, two
operators posting, one operator recalculating, planning across the tabs, and
informing; each gives enough of the actions it is about for two of them to overlap
and for one more to follow. When a budget is spent and all is answered the system stops, hence
`CHECK_DEADLOCK FALSE` there and only there. `browser_session` has two sign-ins
(the later one makes every answer to the earlier one late), one incident on the
server (`MaxIncidents`: a session that ends, or a lease approved that may end again),
and up to two requests under way in a tab when the user asks for more; what
React's effects and answers send comes on top. `screens` has two mutations under way at a
time in the areas where a double submission or an overlap is the question
(`atOnce = 2`) and one elsewhere, which still leaves the refetches of the last
mutation running; two Tenant Administrators (`MaxAdmins`).

Journeys, request ids, expenses, workers and slots of `WorkPeriod` are symmetric: no
definition compares them but for equality. Symmetry is used only in runs of
invariants and action properties, for which it is sound; `LedgerIsImmutable` is an
initial condition and a step property, and so is among them. The run with liveness
(`browser_session`) uses none.

**Fairness.** `BrowserSession.FairSpec` assumes two things: a request that is still
current settles, with an answer or an error (`fetch` and the query's bounded retries
promise that); and React runs the effects of what it has rendered. Both are weak
fairness. Nothing is assumed of users, of the server's sessions and leases, or of
requests that no longer count. The first is stated for the transitions and
verifications of the session together, for the catalog and for the Actor, and not
for each request: the code replaces a request by a newer one, and only the last has
to settle. `WaitingEnds` is the promise of `RequireAuth` and `AppShell` that
"loading" and "verifying" end; `LostTenantIsLeft` has as its only ways out that no
catalog can be loaded (an error page) or that the Tenant is available again.
In `screens`, that no form waits for ever is stated as the invariant
`AwaitedIsUnderWay`, what a mutation waits for is being fetched, which together
with the settling of fetches gives the liveness at a fraction of its cost. On the
server no fairness is assumed and no liveness claimed: a handler waits for no other
handler, and whether clients call is promised by nothing in the code. "An expense can
be cancelled" is stated as what a cancellation does when it runs
(`CancelSucceedsInOrder`).

## Findings

1. **Payouts overdraw** (`payout_race`). `payout.go:50` reads the balances;
   `payout.go:108` writes in a later transaction that reads none and that no
   trigger guards. Two payouts with different request ids both pass, although
   `ErrPayoutExceedsAvailableBalance` exists to refuse the second. ZeroGold
   and the final payments read and write in the same two steps; the run names
   only the payout, whose refusal the code states.
2. **A Journey closes with an unaccepted final receipt** (`closure_race`). The
   preview counts the outstanding receipts; the triggers behind `closed_at` check
   balances, extensions and awards but no receipts.
   `docs/bite-30g2-bidirectional-final-settlement-direction-aware-receipts.md:31-33`
   requires acceptance before the Journey may close.
3. **A closed Journey is credited** (`closed_journey_posting`). `PostRun` does not
   ask whether the Journeys of its READY items are open, and the preview counts
   only PENDING ones. `docs/02-Architecture/27. Final Relational Schema.md:585`:
   closed Journeys should not accept new expenses or accruals.
4. **An active expense that can no longer be cancelled** (`expense_stuck`). Two
   overlapping updates commit in the other order than they read the clock. The
   live debit is then older than a reversed one; `latestExpenseLedgerEntry`
   returns the reversed one from then on, and the unique index makes every later
   Cancel, Update and Deactivate fail and roll back.

5. **One tab shows another tab's Tenant** (`two_tabs`). `api/client.ts:192` reads
   the Tenant of a request from `localStorage`, which all tabs share, while
   `AppShell` keeps the Tenant it shows in its own state and hears no storage
   event. After another tab switches, this one sends its next refetch for the new
   Tenant and renders the answer in the workspace of the old.
   `components/layout/AppShell.tsx:81-84` says this can never be rendered.

One disagreement is in the model without a run of its own, as the exception that
`NewerSessionSurvives` names: **a late photo signs the newer session out**. `apiFetch`
ignores the 401 of a response that an earlier LOCAL session asked for
(`api/client.ts:94-101`); `apiFetchBlob` (`api/client.ts:68-70`) reports every 401
(`Interrupts`). A Person's photo, or the CSV export, requested before a logout and
answered after the next login ends that session in the tab, though its token is
kept. `api/client.ts:336-339` says that such a response "must not sign out the newer
session that replaced it". Without its `r.kind # "photo"` the property fails in
`browser_session` with just this behaviour.

`settlement_races` and `expense_races` show how much survives: the same races never
post a request twice, close a Journey with a balance, or charge an expense
twice. `CancelSucceedsInOrder` shows that finding 4 (or a correction by the account,
which lifts the charge) is the *only* way an active expense resists cancellation.
`browser_session` shows that with one tab nothing like finding 5 happens, and
`planning_races` that no order of creating, recalculating and posting runs pays an
assignment's earning twice.

### What the models make visible without a document that says otherwise

These are not findings (nothing in the repository promises the contrary); the models
contain them, as the exceptions the properties name.

* Expenses: Update and Deactivate leave the receipt of the debit they reverse
  outstanding; Cancel, Deactivate and the reversal of Update never ask whether the
  Journey is closed.
* Work Periods: a *transfer* between a Collaborator and the one who replaced him is
  keyed by its item, so two runs calculated before either is posted pay it twice
  (`EarningPaidOnce` is about earnings only, which are keyed by assignment).
  An outcome saves the whole assignment row it read over a plan saved since
  (`overwritten`). Inform writes INFORMED over a status that PostRun has set.
  A failed BulkPlan or CreateRun leaves what it wrote and refetches nothing (`unsure`).
  Unselecting a Collaborator that was saved is never sent (`PlanTab` 207-214).
* Session: a late 401 of a verification is final even for a newer session
  (`app/authStore.ts:86-92`), cookie mode never recognises a superseded request
  (`api/client.ts:332`), and a late logout answer clears a newer LOCAL token
  (`api/auth.api.ts:27-29`); this is why `NewerSessionSurvives` speaks of the LOCAL
  transport and of the queries of the workspace: that none takes the newer token, and
  that none sent by `apiFetch` ends the newer session. A verification shared with an
  earlier account is handed to the later one (`app/authStore.ts:71`).
* Pages that stay behind (`behind`): a stored answer is overtaken by an older
  fetch or by the answer of an earlier mutation (`useCancelExpense`,
  `useUpdateCollaborator`, receipts); approving an award leaves the settlement preview;
  saving a Person as inactive leaves the authentication section and Reactivate
  the list; granting a role cancels the refetch an earlier mutation is waiting for and
  refetches nothing when the grant fails; a lost answer leaves the page with what it
  had, so that a cancelled expense keeps no button for its re-creation.
* Buttons that cannot tell (`blind`): the copy form of an expense re-created
  elsewhere; a partial payout of a Journey with nothing to pay; password reset and
  enabling of an account for a discontinued member; approval of a reactivation whose
  suspension was cleared; a price-list form whose row was deactivated.
* Forms: the settlement panel, closed while its request is pending, forgets it, and
  each submission has a fresh request id; five pages await a mutation and navigate
  even when they have been left (`alsoLate`); `PersonForm` keeps the status it was filled in with,
  so that saving after Reactivate makes the Person inactive again, and a Membership can go
  from INACTIVE over DISCONTINUED to ACTIVE past Reactivate.

## Proofs

Eight modules prove theorems for *every* value of the constants: any number of
Journeys, expenses, workers, tabs, requests and mutations, any tables of pages, and
no bound on the length of a run but those named in the guards. Of the 38 properties
that the passing runs check, 36 are theorems; the other two are liveness.

| Module | Theorem | Property |
|---|---|---|
| `CurrentAccount_proofs` | `TypeCorrect` | `[]TypeOK` |
| | `SettlementsPostedOnce` | `[]SettlementsPostOnce` |
| | `CorrectionsHold` | `[]CorrectionsCancel` |
| | `ObligationsHold`, `DischargesLawful` | `[]ReceiptObligations`, `[]ReceiptsDischarged` |
| | `DischargesFinal` | `DischargeIsFinal` |
| | `ClosuresSettled` | `ClosesOnlySettled` |
| | `ClosedExactlyOnce` | `[]ClosedOnce` |
| `Ledger_proofs` | `LedgerImplemented` | `LedgerIsImmutable`: `CurrentAccount` implements `ImmutableLedger` |
| | `PayoutsStayCovered` | `PayoutsCovered`, when no two requests about one Journey overlap |
| | `FinalPaymentsExact` | `FinalPaymentsSettle`, likewise |
| | `FinalPaymentsAccepted` | `FinalReceiptsAcceptedBeforeClose`, likewise |
| | `ClosuresUnblocked` | `ClosesUnblocked`, likewise, and if no accrual of a Journey is calculated during its closure |
| | `SerialRequests` | `PayoutsCovered`, `FinalPaymentsSettle`, `ClosesUnblocked` of a single worker |
| `Expenses_proofs` | `TypeCorrect` | `[]TypeOK` |
| | `ChargedExactlyOnce` | `[]ChargedOnce` |
| | `CancelledOwesNothing`, `ReturnedStays` | `[]CancelledOwesNoReceipt`, `ReturnedIsEvidence` |
| | `CancellationFinal`, `CancellationSucceeds` | `CancelIsFinal`, `CancelSucceedsInOrder` |
| | `RecreatedAtMostOnce` | `[]RecreatedOnce` |
| `PlanningPage_proofs` | `TypeCorrect` | `[]TypeOK` |
| `Accrual_proofs` | `EarnedOnce` | `[]EarningPaidOnce` |
| | `PostedIsPaid`, `PostedStays` | `[]PostedMeansPaid`, `PostedIsKept` |
| `Planning_proofs` | `ReplacedOnce` | `[]OneReplacementPerTarget` |
| | `QuietShowsCurrent` | `[]QuietIsCurrent` |
| `BrowserSession_proofs` | `TypeCorrect` | `[]TypeOK` |
| | `NewerSurvives` | `NewerSessionSurvives`: the token for every query, the session for those of `apiFetch` |
| | `TabsActAsShown` | `[]ActsAsShown`, of tabs that share no cookie |
| | `ShownDataMatches` | `[]ShownDataMatchesContext`, of a single tab |
| `Screens_proofs` | `TypeCorrect` | `[]TypeOK` |
| | `SubmittedOnce`, `LateStays` | `[]OneSubmission`, `LateSuccessStays` |
| | `AwaitedFetched` | `[]AwaitedIsUnderWay` |
| | `RestIsCurrent` | `[]SettledPageIsCurrent`, of tables that cover what they change |
| | `ClosesFresh` | `SuccessIsFresh`, of such tables with one awaited mutation at a time |
| | `OffersAccepted` | `[]OfferedIsAccepted`, of tables in which buttons and handlers agree |

All rest on the assumptions of their modules about the constants, and nothing else
but the hypotheses named in the table. Those of `CurrentAccount`, `Expenses` and
`BrowserSession` say that the bounds are naturals, the operations known ones and the
values that stand for nothing no others (so does that of `WorkPeriod`);
`PlanningAssumption` that the Collaborators come in some order and that the plans a
scenario begins with replace nobody twice; `CatalogAssumption` that the tables of
the pages refer to pages, queries and mutations of their own area, and that what
one `ref` locks locks each other. TLC evaluates each of them in every run of its
module.

**Current accounts.**

* `TypeOK` is inductive; one lemma per group of actions. The other invariants need
  it because a worker's `job` is what its commit writes.
* `StepKinds` sorts the actions by what they do to the ledger: nothing, post a
  settlement, post a correction, post another part's entry. Each invariant is then
  proved against these four kinds and not against every action.
* `CorrectionsCancel` is not inductive: the commit of a correction writes what the
  handler read some steps before. `CorrectsLedger` adds that this original is an
  entry of the ledger and not a reversal, which no other worker can undo since
  entries are only added (`LedgerGrows`). That it has no reversal yet is *not* kept
  from the read to the commit; there the unique index decides.
* `SettlementsPostOnce` is inductive because its third part says that no settlement
  entry exists without its settlement: a fresh request id therefore has no entries
  yet, and those posted with it are exactly its amounts.
* `ReceiptObligations` and `ReceiptsDischarged` are proved together with
  `PurposesMatch`, which ties a receipt's purpose, that the code branches on, to the
  kind of the entry, that the properties speak of.
* `ClosesOnlySettled` needs no invariant: the closing step is guarded by the
  trigger, whatever the handler read before it. That is why it survives the races
  that break finding 2.
* `LedgerImplemented`: every step either leaves the mapped ledger or posts entries
  with at most one reversal of an entry that stands (`LedgerStep`). The abstract
  ledger names an entry by its key, so the mapping needs that a key names one entry
  (`KeysName`), which is inductive with a bound on the keys in use (`KeysUsed`).

**Balances, and requests that do not overlap.** A settlement is derived from balances
read some steps before it is written, and a closure from blockers read before it; that
this is a race is what findings 1 and 2 show. The theorems say how much of the
account depends on it: all that is needed is that no two requests *about one Journey*
overlap (`OneRequestPerJourney`), which a lock on the Journey would give and the code
does not have. Requests about other Journeys, receipts, extensions and calculations
may interleave as they like. For `ClosesUnblocked` the accrual of a Journey must
besides not be calculated between the preview of its accruals and its closure
(`AccrualsWait`): a calculation is not a request about a Journey, and takes no such
lock. A single worker meets both conditions, which is the case that the run
`serial_requests` checks; `SerialRequests` says so for any Journeys, units and
request ids. The runs `payout_race` and `closure_race` show that the first condition
cannot be dropped.

* *Sums.* A balance is `MapThenSumSet` over the ledger, a recursive function on the
  subsets of a set. That the function exists, sums in any order and takes an entry
  more as one would think (`SumAdds`) is proved by taking the least cardinality at
  which it would not. It needs the entries of an account to be finite
  (`FiniteAccounts`): a transaction adds at most one of a kind.
* *Steps.* `HandlerSteps` sorts the actions by what they do to the handlers: aside,
  one handler reads, one handler writes to the Journey of its own request.
* *What has been read still stands.* `BalancesStand` (the amounts about to be
  committed are what the balances give now), `FinalsOpen`, `AccrualsStand` and
  `ReceiptsStand` are the invariant, one for each thing that a handler reads
  early and relies on late. A read establishes it, and a write is to another Journey.
  The properties then follow at the commit, from `SettledBalance`: the balance of a
  settled unit changes by the amount.

**Expenses.** Which debit is the latest, and that there is one, depends on what the
handlers have read. So types are proved together with three things (`WellFormed`):
what ties the handlers to the rows (two creations never have the same id), the
readings of the clock to each other (no two are the same, all are past), and
debits and reversals to the expenses. That a chain has a latest debit is
`GreatestOfBounded`, from the well-foundedness of `<`. `StepKinds` again sorts the
steps by what they do to the rows (create, update, deactivate, cancel, correct, return
a receipt), and `Kept` says that a step for one expense leaves the charge of the
others. `ChargedOnce` is inductive with that; the other properties use it.
`RecreatedOnce` adds `Sources`, what an expense was recreated from exists, to the
trigger's look. `CancelSucceedsInOrder` needs that no two debits of a chain read the
same time (`Clocked`): the debit that stands is the latest unless it was overtaken or
corrected, which is how narrow finding 4 is.

**Work Periods.** Types come first and for themselves, because the page holds copies
of everything (a form, a cache, requests with what their handlers have read).
`Accrual` explains `EarningPaidOnce`: an entry is dropped when its id is taken, so an
earning is unique among *earlier* postings, but within one posting only because one
calculation gives a Collaborator one earning and the READY items of a run all come
from one calculation. `Covering` explains `OneReplacementPerTarget`: BulkPlan checks
a plan it read earlier, under what it has saved itself, and that this is still the
plan rests on *the page sending one save at a time*. Nothing on the server would
keep two saves from covering the same Collaborator. `Showing` is the invariant of
the cache: each active query is current, or about to be fetched, or a request is
under way whose answer has it fetched again.

**Session.** `ActsAsShown` is true only of tabs that share no cookie (`Separate`: the
LOCAL transport, or a single tab), and `ShownDataMatchesContext` only of a single tab
(`Single`; finding 5 is the other case); each hypothesis is what the code relies on
and does not say. With two tabs over one cookie an Account may sign in over the one
that the other tab still shows. The invariant `Sound` follows one tab: a
transition that may still sign in is alone in its tab and finds nobody signed in, so
that the requests of a tab carry the session of the Account it shows. `Matches` adds
that whatever could still reach a page (an entry of the cache, a query that counts) is
of one Account and one stored Tenant.

**Pages.** `Screens` is proved about *as an engine*: a new page or a new area needs
only its table. `LateSuccessStays` follows from the types. `OneSubmission` needs that
what a `ref` locks is shown as pending as long as its page is (`Locks`), and so that no
such form sits in a panel that forgets. `SettledPageIsCurrent` has the invariant
`Served`: a query is current, or known to be behind, or being fetched by a request
the server has not answered from an older state, or named by a mutation whose answer
is coming, or not shown. That is inductive exactly when each hook sets,
refreshes or knowingly leaves what its mutation changes (`Covers`). `Covers` is a
hypothesis and not an assumption of the module, since it is what a hook gets wrong:
the run `screens` tells whether the tables of this application have it.
`SuccessIsFresh` needs besides that nothing else changes an answer while a panel waits
for it (`OneAtATime`, which TLC evaluates in `MCScreens`). `OfferedIsAccepted` is
a matter of buttons against handlers, except where a panel, once open, no longer looks
at the answer (`kept`): it may have been opened on an answer that was old then, and
the subject has changed since. `Honest` follows what such an answer promised
through the cache, the requests under way and the answers of mutations; it is
inductive if no mutation takes a subject out of the statuses the kept one is made
for, which with the agreement of buttons and handlers is the hypothesis `Agrees`.
Both tables with such panels (price list, mine production) rest on it, the second
because a recorded production is never unrecorded. Like `Covers` it is not assumed:
a table without it is for the run to refute.

Only model-checked:

* The liveness of `BrowserSession` (`WaitingEnds`, `LostTenantIsLeft`), which TLAPS
  cannot prove.

* That the tables of this application satisfy `Covers` and `Agrees`. TLC evaluates
  both to TRUE on `MCScreens!Everything`; they are not assumptions of that module
  because the run `screens` is to say what goes wrong on a page whose table lacks
  them, and not only that it does.

Where induction over data was needed it was replaced by an argument from the least
counterexample: the sums above, and `Picked`, the rows a plan sends, a recursive function
that returns rows of the plan.

## What is not modelled

`PROJECT.json` lists every part with its status and every hazard met, those that no
property covers with the reason.

* Password checks, reset tokens and the creation of a session against a concurrent
  deactivation (`authentication`); the count of remaining Application Administrators
  (`authz/admin.go:1069`): on the server these parts are modelled only as far as the
  pages see them.
* The dates of a Journey, that `AcceptExtensionRequest` and `Update` both save whole.
* Backup, restore and off-host copies: file-system steps of command line tools, with
  crash hazards of their own, which share no state with the models here.
* Out of scope for good: decoding and routing of HTTP, start-up migrations and seed
  (sequential, before any request), the importer (one offline batch), generated
  code, deployment, and the pages, translations and formats that keep no state.

## Plan

What is proved has caught up with what is checked. What is left is more of the system:

1. What the hazards without a property need: the grants of `authz`, and
   `AcceptExtensionRequest` against `Update`.
2. A lock on the Journey, once the code has one: `OneRequestPerJourney` would then
   be an invariant instead of a hypothesis, and `payout_race` and `closure_race` runs
   that pass.

Runs are kept few: one per module for what holds, one per disagreement met.
