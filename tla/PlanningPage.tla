----------------------------- MODULE PlanningPage -----------------------------
(***************************************************************************)
(* The Work Period page of the browser on top of the server of WorkPeriod: *)
(* its tabs, the plan form, the query cache it shows and the requests it   *)
(* sends.  An answered mutation has its queries fetched again; the page    *)
(* decides what to offer from what it shows, which may be out of date.     *)
(* Accrual runs are also created, recalculated and posted elsewhere, by    *)
(* other operators whose pages may show anything.                          *)
(*                                                                         *)
(* budget bounds the users: a behaviour starts with one of Scenarios.      *)
(***************************************************************************)
EXTENDS WorkPeriod

CONSTANTS
    Order,         \* the Collaborators in planning order
    Scenarios      \* a plan the page is opened on, and how often the users
                   \* do each thing from there

(* A plan the page is opened on is one that an earlier save has left: no    *)
(* two rows of it replace the same Collaborator.                           *)
ASSUME PlanningAssumption ==
    /\ Order \in Seq(Collaborators)
    /\ \A scenario \in Scenarios :
        /\ scenario.plan \in [Collaborators -> Rows]
        /\ \A c, d \in Collaborators :
            /\ scenario.plan[c].covers # NoOne
            /\ scenario.plan[c].covers = scenario.plan[d].covers
            => c = d

VARIABLES
    tab,           \* the tab shown
    rows,          \* the plan form
    seen,          \* the cached answers the page shows
    fetch,         \* the queries being fetched, and what was read for them
    unsure,        \* did a request fail, or another operator write?
    overwritten,   \* did an outcome put back a row of an older plan?
    budget

pageVars == <<tab, rows, seen, fetch, unsure, overwritten, budget>>
vars == <<serverVars, pageVars>>

Tabs == {"plan", "inform", "outcomes", "accrual"}
Queries == {"template", "assignments", "detail", "runs"}

(***************************************************************************)
(* What the queries answer.                                                *)
(***************************************************************************)
Template(current) ==
    [c \in Collaborators |->
        [selected |-> current[c].planned, away |-> current[c].away,
         covers |-> current[c].covers]]

RunList ==
    [r \in 1..Len(runs) |->
        [status |-> runs[r], ready |-> ItemsOf(r, "READY") # {}]]

Current(q) ==
    CASE q = "template" -> Template(plan)
      [] q = "assignments" -> plan
      [] q = "detail" -> period
      [] q = "runs" -> RunList

(* The tab of the accrual runs fetches them while it is shown.             *)
Active(q) == q # "runs" \/ tab = "accrual"

Idle == [state |-> "idle"]
Sent == [state |-> "sent"]

(* Mutant: a fetch under way is left to finish.                            *)
InvalidateJoined(queries) ==
    fetch' = [q \in Queries |->
        IF q \in queries /\ Active(q) /\ fetch[q] = Idle THEN Sent ELSE fetch[q]]

(* Invalidated queries are fetched again: a fetch under way is cancelled.  *)
Invalidate(queries) ==
    fetch' = [q \in Queries |->
        IF q \in queries /\ Active(q) THEN Sent ELSE fetch[q]]

Invalidated(kind) ==
    CASE kind = "bulk" -> {"assignments", "template"}
      [] kind = "refine" -> {}
      [] kind = "outcome" -> {"assignments"}
      [] kind = "inform" -> Queries
      [] kind = "create" -> {"runs", "detail"}
      [] kind = "calculate" -> {"runs", "detail"}
      [] kind = "post" -> {"runs", "detail"}

(***************************************************************************)
(* The plan form.                                                          *)
(***************************************************************************)
Loaded(template) ==
    [c \in Collaborators |->
        [selected |-> template[c].selected, away |-> template[c].away,
         original |-> template[c].away, covers |-> template[c].covers]]

EmptyForm == [c \in Collaborators |->
    [selected |-> FALSE, away |-> FALSE, original |-> FALSE, covers |-> NoOne]]

Changed(c) == rows[c].away # rows[c].original

Targets == {rows[c].covers : c \in Collaborators} \ {NoOne}

(* The targets offered for c: away, and not covered by another row.        *)
Offered(c) == {t \in Collaborators \ {c} :
    /\ rows[t].away
    /\ \A d \in Collaborators \ {c} : rows[d].covers # t}

(* Mutant: the page does not wait for an answer.                           *)
PendingNever(kind) == kind = "never"

Pending(kind) ==
    \E s \in Slots : requests[s].kind = kind /\ requests[s].by = "page"

Editable == tab = "plan" /\ ~Pending("bulk") /\ ~Pending("refine")

Spend(what) == budget' = [budget EXCEPT ![what] = @ - 1]

Edit(form) ==
    /\ Editable
    /\ budget.edits > 0
    /\ form # rows
    /\ rows' = form
    /\ Spend("edits")
    /\ UNCHANGED <<serverVars, tab, seen, fetch, unsure, overwritten>>

Select(c) == Edit([rows EXCEPT ![c].selected = ~@])

(* One who is back is no longer covered.                                   *)
SetAway(c) ==
    Edit([d \in Collaborators |->
        IF d = c THEN [rows[d] EXCEPT !.away = ~@]
        ELSE IF rows[d].covers = c /\ rows[c].away
             THEN [rows[d] EXCEPT !.covers = NoOne]
             ELSE rows[d]])

Cover(c, t) == Edit([rows EXCEPT ![c].covers = t, ![c].selected = TRUE])

(* A refined row is selected: at once or, when the refinement is to hold    *)
(* for later Work Periods too, once the server has answered.               *)
Refined(c) == [rows EXCEPT ![c].selected = TRUE]

Refine(c) == Edit(Refined(c))

Uncover(c) == Edit([rows EXCEPT ![c].covers = NoOne])

(* The rows a save sends: an unselected row that is not changed is left    *)
(* out, so what was saved for it before stays.                             *)
IsSent(c) ==
    rows[c].selected \/ Changed(c) \/ rows[c].covers # NoOne \/ c \in Targets

Payload ==
    LET sent == Picked(Order, {k \in DOMAIN Order : IsSent(Order[k])})
    IN  [k \in 1..Len(sent) |->
            [of |-> sent[k], selected |-> rows[sent[k]].selected,
             away |-> rows[sent[k]].away, changed |-> Changed(sent[k]),
             covers |-> rows[sent[k]].covers]]

CanSave ==
    /\ Editable
    /\ \E c \in Collaborators : ShouldSave(
            [selected |-> rows[c].selected, changed |-> Changed(c),
             covers |-> rows[c].covers])

(***************************************************************************)
(* What the page sends.                                                    *)
(***************************************************************************)
Send(s, request) ==
    /\ requests[s] = Free
    /\ Becomes(s, request)
    /\ UNCHANGED <<period, plan, produced, runs, items, made, ledger>>

FromPage(s, what, request) ==
    /\ Send(s, request)
    /\ Spend(what)
    /\ UNCHANGED <<tab, rows, seen, fetch, unsure, overwritten>>

SavePlan(s) ==
    /\ CanSave
    /\ budget.saves > 0
    /\ FromPage(s, "saves", [kind |-> "bulk", by |-> "page", step |-> "sent",
                             rows |-> Payload])

RefineForFuture(s, c) ==
    /\ Editable
    /\ budget.refines > 0
    /\ FromPage(s, "refines", [kind |-> "refine", by |-> "page",
                               step |-> "sent", of |-> c])

MarkOutcome(s, c, outcome) ==
    /\ tab = "outcomes" /\ ~Pending("outcome")
    /\ seen.assignments[c].planned
    /\ seen.assignments[c].outcome # outcome
    /\ budget.outcomes > 0
    /\ FromPage(s, "outcomes", [kind |-> "outcome", by |-> "page",
                    step |-> "sent", of |-> c, outcome |-> outcome])

Inform(s) ==
    /\ tab = "inform" /\ ~Pending("inform")
    /\ seen.detail = "PLANNING"
    /\ budget.informs > 0
    /\ FromPage(s, "informs",
                [kind |-> "inform", by |-> "page", step |-> "sent"])

Unposted(list) == \E r \in DOMAIN list : list[r].status # "POSTED"

Create(s) ==
    /\ tab = "accrual" /\ ~Pending("create")
    /\ ~Unposted(seen.runs)
    /\ budget.creates > 0
    /\ FromPage(s, "creates",
                [kind |-> "create", by |-> "page", step |-> "sent"])

Recalculate(s, r) ==
    /\ tab = "accrual" /\ ~Pending("calculate")
    /\ r \in DOMAIN seen.runs
    /\ seen.runs[r].status # "POSTED"
    /\ budget.calculations > 0
    /\ FromPage(s, "calculations", [kind |-> "calculate", by |-> "page",
                    step |-> "calculate", run |-> r])

Post(s, r) ==
    /\ tab = "accrual" /\ ~Pending("post")
    /\ r \in DOMAIN seen.runs
    /\ seen.runs[r].status # "POSTED" /\ seen.runs[r].ready
    /\ budget.posts > 0
    /\ FromPage(s, "posts", [kind |-> "post", by |-> "page", step |-> "sent",
                             run |-> r])

(* Another operator does any of these, whatever that page shows.           *)
Elsewhere(s) ==
    /\ budget.elsewhere > 0
    /\ \/ Send(s, [kind |-> "create", by |-> "elsewhere", step |-> "sent"])
       \/ \E r \in 1..Len(runs) :
            \/ Send(s, [kind |-> "calculate", by |-> "elsewhere",
                        step |-> "calculate", run |-> r])
            \/ Send(s, [kind |-> "post", by |-> "elsewhere", step |-> "sent",
                        run |-> r])
    /\ Spend("elsewhere")
    /\ unsure' = TRUE
    /\ UNCHANGED <<tab, rows, seen, fetch, overwritten>>

(***************************************************************************)
(* What comes back.  The mutations of the page stand as long as it does;   *)
(* those of the Accrual tab are forgotten with the tab, but still have     *)
(* their queries invalidated when they are answered.                       *)
(***************************************************************************)
Receive(s) ==
    /\ requests[s] # Free
    /\ requests[s].step \in {"done", "failed"}
    /\ Becomes(s, Free)
    /\ rows' = IF requests[s].kind = "refine" /\ requests[s].of # NoOne
               THEN Refined(requests[s].of) ELSE rows
    /\ IF requests[s].by # "elsewhere" /\ requests[s].step = "done"
       THEN /\ Invalidate(Invalidated(requests[s].kind))
            /\ seen' = IF requests[s].kind = "inform"
                       THEN [seen EXCEPT !.detail = "INFORMED"]
                       ELSE seen
       ELSE UNCHANGED <<seen, fetch>>
    /\ unsure' = (unsure \/ requests[s].step = "failed")
    /\ UNCHANGED <<period, plan, produced, runs, items, made, ledger,
                   tab, overwritten, budget>>

(* A fetch reads on the server and is delivered later.  A new template      *)
(* replaces the form, edits and all.                                       *)
FetchRead(q) ==
    /\ fetch[q] = Sent
    /\ fetch' = [fetch EXCEPT ![q] = [state |-> "read", data |-> Current(q)]]
    /\ UNCHANGED <<serverVars, tab, rows, seen, unsure, overwritten, budget>>

Reloads(q, data) == q = "template" /\ tab = "plan" /\ data # seen.template

FetchDelivered(q) ==
    /\ fetch[q].state = "read"
    /\ seen' = [seen EXCEPT ![q] = fetch[q].data]
    /\ fetch' = [fetch EXCEPT ![q] = Idle]
    /\ rows' = IF Reloads(q, fetch[q].data) THEN Loaded(fetch[q].data) ELSE rows
    /\ UNCHANGED <<serverVars, tab, unsure, overwritten, budget>>

(* What a tab keeps is lost when it is left: the form, the row waiting for *)
(* its refinement, and which mutations of the Accrual tab are under way.   *)
(* (Accrual is not left while its runs are being fetched.)                 *)
AccrualRequests == {"create", "calculate", "post"}

Forgotten(request) ==
    IF request.kind \in AccrualRequests /\ request.by = "page"
    THEN [request EXCEPT !.by = "tabLeft"]
    ELSE IF request.kind = "refine" THEN [request EXCEPT !.of = NoOne]
    ELSE request

OpenTab(t) ==
    /\ tab # t
    /\ tab = "accrual" => fetch["runs"] = Idle
    /\ budget.tabs > 0
    /\ tab' = t
    /\ rows' = IF t = "plan" THEN Loaded(seen.template) ELSE EmptyForm
    /\ fetch' = IF t = "accrual" THEN [fetch EXCEPT !["runs"] = Sent] ELSE fetch
    /\ requests' = IF tab \in {"plan", "accrual"}
                   THEN [s \in Slots |-> Forgotten(requests[s])]
                   ELSE requests
    /\ Spend("tabs")
    /\ UNCHANGED <<period, plan, produced, runs, items, made, ledger,
                   seen, unsure, overwritten>>

(***************************************************************************)
(* The server at work.                                                     *)
(***************************************************************************)
Work(s) ==
    /\ Serve(s)
    /\ overwritten' = (overwritten \/ Overwrites(s))
    /\ UNCHANGED <<tab, rows, seen, fetch, unsure, budget>>

Fault(s) ==
    /\ budget.faults > 0
    /\ Breaks(s)
    /\ Spend("faults")
    /\ UNCHANGED <<tab, rows, seen, fetch, unsure, overwritten>>

Produce == RecordProduction /\ UNCHANGED pageVars

Init ==
    /\ period = "PLANNING"
    /\ \E scenario \in Scenarios :
            plan = scenario.plan /\ budget = scenario.budget
    /\ produced = FALSE
    /\ runs = <<>> /\ items = {} /\ made = 0 /\ ledger = {}
    /\ requests = [s \in Slots |-> Free]
    /\ tab = "plan"
    /\ rows = Loaded(Template(plan))
    /\ seen = [template |-> Template(plan), assignments |-> plan,
               detail |-> period, runs |-> RunList]
    /\ fetch = [q \in Queries |-> Idle]
    /\ unsure = FALSE /\ overwritten = FALSE

User ==
    \/ \E c \in Collaborators : Select(c) \/ SetAway(c) \/ Refine(c) \/ Uncover(c)
    \/ \E c \in Collaborators : \E t \in Offered(c) : Cover(c, t)
    \/ \E t \in Tabs : OpenTab(t)

Requests(s) ==
    \/ SavePlan(s) \/ Inform(s) \/ Create(s) \/ Elsewhere(s)
    \/ \E c \in Collaborators : RefineForFuture(s, c)
    \/ \E c \in Collaborators, o \in Outcomes : MarkOutcome(s, c, o)
    \/ \E r \in DOMAIN seen.runs : Recalculate(s, r) \/ Post(s, r)

Next ==
    \/ User
    \/ \E s \in Slots : Requests(s) \/ Receive(s) \/ Work(s) \/ Fault(s)
    \/ \E q \in Queries : FetchRead(q) \/ FetchDelivered(q)
    \/ Produce

Spec == Init /\ [][Next]_vars

(***************************************************************************)
(* Properties.                                                             *)
(***************************************************************************)
(* The state of the page and the server has its type; an item is pending,  *)
(* ready, posted or skipped, and belongs to a run that exists.             *)
TypeOK ==
    /\ period \in {"PLANNING", "INFORMED", "PARTIALLY_POSTED", "FULLY_POSTED"}
    /\ plan \in [Collaborators -> Rows]
    /\ produced \in BOOLEAN
    /\ \A r \in 1..Len(runs) :
            runs[r] \in {"DRAFT", "PENDING_INPUT", "READY_TO_POST", "POSTED"}
    /\ \A i \in items :
            /\ i.run \in 1..Len(runs) /\ i.made \in 1..made
            /\ i.of \in Collaborators
            /\ i.status \in {"PENDING", "READY", "POSTED", "SKIPPED"}
    /\ \A e \in ledger : e.of \in Collaborators /\ e.made \in 1..made
    /\ DOMAIN requests = Slots
    /\ tab \in Tabs
    /\ \A c \in Collaborators :
            /\ rows[c].covers \in Collaborators \cup {NoOne}
            /\ {rows[c].selected, rows[c].away, rows[c].original} \subseteq BOOLEAN
    /\ seen.assignments \in [Collaborators -> Rows]
    /\ DOMAIN fetch = Queries
    /\ {unsure, overwritten} \subseteq BOOLEAN

(* Once every answer is in and no request failed, the page shows what the  *)
(* server holds, however answers, fetches and tabs interleaved: the hooks  *)
(* of usePlanning and useAccruals invalidate all that a mutation changes.  *)
Quiet ==
    /\ \A s \in Slots : requests[s] = Free
    /\ \A q \in Queries : fetch[q] = Idle
    /\ ~unsure /\ ~overwritten

QuietIsCurrent ==
    Quiet => \A q \in Queries : Active(q) => seen[q] = Current(q)

(* No two assignments replace the same Collaborator: BulkPlan checks this  *)
(* against the plan it read, so it rests on the page's having one save     *)
(* under way at a time.  (An outcome that puts back an older row may bring *)
(* a second one back.)                                                     *)
OneReplacementPerTarget ==
    ~overwritten => \A c, d \in Collaborators :
        plan[c].covers # NoOne /\ plan[c].covers = plan[d].covers => c = d
===============================================================================
