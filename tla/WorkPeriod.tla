------------------------------ MODULE WorkPeriod ------------------------------
(***************************************************************************)
(* The server side of one Work Period: its status, its plan (one active    *)
(* assignment for each planned Collaborator), the gold recorded for it,    *)
(* its accrual runs with their items, and the ledger entries the runs      *)
(* post.  Every handler but the recording of gold reads first and writes   *)
(* later what it computed from that, with no lock and mostly with no       *)
(* transaction in between: each request is a little program here, and the  *)
(* programs of the requests under way interleave.                          *)
(*                                                                         *)
(* Collaborators are paid by gold commission, the method with the          *)
(* replacement rules.  No code closes a Work Period, opens its accrual or  *)
(* voids a run, so the guards on those states never bite and are left out. *)
(***************************************************************************)
EXTENDS Naturals, Sequences, FiniteSets

CONSTANTS
    Collaborators,
    NoOne,       \* stands for no Collaborator
    Slots        \* the requests the server works on at a time

ASSUME WorkPeriodAssumption == NoOne \notin Collaborators

VARIABLES
    period,      \* the status of the Work Period
    plan,        \* its active assignments, by Collaborator
    produced,    \* has the gold of the Work Period been recorded?
    runs,        \* the status of each accrual run, in order of creation
    items,       \* their items
    made,        \* calculations so far: their number makes item ids fresh
    ledger,      \* the entries posted for this Work Period
    requests     \* the requests under way

serverVars == <<period, plan, produced, runs, items, made, ledger, requests>>

Unmarked == "UNMARKED"
Paid == {"WORKED", "TIME_OFF", "SICK_DAY_OFF"}
Outcomes == Paid \cup {"ABSENT"}

NoRow == [planned |-> FALSE, away |-> FALSE, covers |-> NoOne, outcome |-> "NONE"]

Rows == {NoRow} \cup
    [planned : BOOLEAN, away : BOOLEAN, covers : Collaborators \cup {NoOne},
     outcome : Outcomes \cup {Unmarked}]

Free == [kind |-> "none", by |-> "nobody", step |-> "done"]

(***************************************************************************)
(* The lines an accrual run computes for a Collaborator, first being the   *)
(* Collaborator that replaces each, if one does.  What depends on the gold *)
(* waits for it.                                                           *)
(***************************************************************************)
Included == {c \in Collaborators : plan[c].planned}

Replacements(c) == {d \in Included : plan[d].covers = c}

(* The first row found for each original: the query gives no order.        *)
FirstReplacement == {first \in [Included -> Included \cup {NoOne}] :
    \A c \in Included :
        IF Replacements(c) = {} THEN first[c] = NoOne
                                ELSE first[c] \in Replacements(c)}

Line(c, calc, dir, status) ==
    [of |-> c, calc |-> calc, dir |-> dir, status |-> status]

Due == IF produced THEN "READY" ELSE "PENDING"

ForTimeOff(c) ==
    /\ plan[c].covers \in Included
    /\ plan[plan[c].covers].outcome = "TIME_OFF"

TimeOffLines(c, sub) ==
    IF sub = NoOne THEN {Line(c, "TIME_OFF_REPLACEMENT", "CREDIT", "PENDING")}
    ELSE {Line(c, "TIME_OFF_RETAINED", "CREDIT", Due),
          Line(sub, "TIME_OFF_REPLACEMENT_CREDIT", "CREDIT", Due)}

SickLines(c, sub) ==
    IF sub = NoOne THEN {Line(c, "SICK_REPLACEMENT", "CREDIT", "PENDING")}
    ELSE {Line(c, "SICK_REPLACEMENT_DEBIT", "DEBIT", Due),
          Line(sub, "SICK_REPLACEMENT_CREDIT", "CREDIT", Due)}

LinesFor(c, sub) ==
    LET outcome == plan[c].outcome
    IN  CASE outcome = Unmarked -> {Line(c, "OUTCOME", "CREDIT", "PENDING")}
          [] outcome = "ABSENT" -> {Line(c, "ABSENT", "CREDIT", "SKIPPED")}
          [] outcome \in Paid /\ ForTimeOff(c) -> {}
          [] outcome = "TIME_OFF" /\ ~ForTimeOff(c) -> TimeOffLines(c, sub)
          [] outcome = "WORKED" /\ ~ForTimeOff(c) ->
                {Line(c, "COMMISSION", "CREDIT", Due)}
          [] outcome = "SICK_DAY_OFF" /\ ~ForTimeOff(c) ->
                {Line(c, "COMMISSION", "CREDIT", Due)} \cup SickLines(c, sub)

Key(i) == <<i.of, i.calc, i.dir>>

PostedKeys == {Key(i) : i \in {j \in items : j.status = "POSTED"}}

(* The items of a calculation: what an earlier posting paid is left out.   *)
Calculated(r, first) ==
    {[run |-> r, made |-> made + 1, of |-> l.of, calc |-> l.calc,
      dir |-> l.dir, status |-> l.status] :
        l \in {m \in UNION {LinesFor(c, first[c]) : c \in Included} :
                    Key(m) \notin PostedKeys}}

StatusFor(new) ==
    IF \E i \in new : i.status = "PENDING" THEN "PENDING_INPUT"
    ELSE IF \E i \in new : i.status = "READY" THEN "READY_TO_POST"
    ELSE "DRAFT"

(***************************************************************************)
(* Ledger entries.  The id of an earning is made from its assignment, that *)
(* of a replacement transfer from its item; an entry whose id is taken is  *)
(* dropped in silence.                                                     *)
(***************************************************************************)
Earnings == {"COMMISSION", "TIME_OFF_RETAINED"}

(* Mutant: the id of every entry made from its item.                       *)
EntryIdByItem(e) == <<"item", e.made, e.of, e.calc, e.dir>>

(* An item posts one entry here, so the unit in its id is left out.        *)
EntryId(e) ==
    IF e.calc \in Earnings THEN <<"assignment", e.of, e.dir>>
    ELSE <<"item", e.made, e.of, e.calc, e.dir>>

EntryFor(i) == [made |-> i.made, of |-> i.of, calc |-> i.calc, dir |-> i.dir]

Posting(ready) == {EntryFor(i) : i \in ready}

Fresh(entries) ==
    {e \in entries : \A f \in ledger : EntryId(f) # EntryId(e)}

(***************************************************************************)
(* The steps of the requests.  A request ends with an answer, good or not, *)
(* that the browser has still to receive.                                  *)
(***************************************************************************)
Becomes(s, request) == requests' = [requests EXCEPT ![s] = request]

Answered(s, step) ==
    [kind |-> requests[s].kind, by |-> requests[s].by, step |-> step]

Done(s) == Becomes(s, Answered(s, "done"))
Refused(s) == Becomes(s, Answered(s, "failed"))

At(s, kind, step) == requests[s].kind = kind /\ requests[s].step = step

(* The members of a sequence at these positions, in their order.           *)
Picked(seq, positions) ==
    LET upTo[n \in 0..Len(seq)] ==
            IF n = 0 THEN <<>>
            ELSE IF n \in positions THEN Append(upTo[n - 1], seq[n])
            ELSE upTo[n - 1]
    IN  upTo[Len(seq)]

(* BulkPlan reads the plan once, saves the rows one by one, and only then  *)
(* the replacements.  Rows with nothing to save are skipped.               *)
ShouldSave(row) == row.selected \/ row.changed \/ row.covers # NoOne

BulkRead(s) ==
    /\ At(s, "bulk", "sent")
    /\ LET sent == requests[s].rows
       IN  Becomes(s, [kind |-> "bulk", by |-> requests[s].by, step |-> "saving",
            toSave |-> Picked(sent, {k \in DOMAIN sent : ShouldSave(sent[k])}),
            toCover |-> Picked(sent, {k \in DOMAIN sent : sent[k].covers # NoOne}),
            read |-> plan, saved |-> [c \in Collaborators |-> NoRow]])
    /\ UNCHANGED <<period, plan, produced, runs, items, made, ledger>>

(* Mutant: no outcome is given to a row that is new.                       *)
SavedRowAsRead(row, old) ==
    [planned |-> row.selected, away |-> row.away, covers |-> NoOne,
     outcome |-> old.outcome]

SavedRow(row, old) ==
    [planned |-> row.selected, away |-> row.away, covers |-> NoOne,
     outcome |-> IF old = NoRow THEN Unmarked ELSE old.outcome]

AfterSaving(request) ==
    request.toSave = <<>> /\ request.toCover = <<>>

BulkSave(s) ==
    LET now == requests[s]
        row == Head(now.toSave)
        old == now.read[row.of]
        new == [now EXCEPT !.toSave = Tail(@),
                           !.saved[row.of] = SavedRow(row, old)]
    IN  /\ At(s, "bulk", "saving")
        /\ now.toSave # <<>>
        /\ IF old = NoRow /\ plan[row.of] # NoRow
           THEN Refused(s) /\ UNCHANGED plan
           ELSE /\ plan' = [plan EXCEPT ![row.of] = SavedRow(row, old)]
                /\ IF AfterSaving(new) THEN Done(s) ELSE Becomes(s, new)
        /\ UNCHANGED <<period, produced, runs, items, made, ledger>>

(* The plan as the request knows it: what it read, under what it saved.    *)
Effective(request) ==
    [c \in Collaborators |-> IF request.saved[c] # NoRow THEN request.saved[c]
                             ELSE request.read[c]]

Unclaimed(request, c, target) ==
    \A d \in Collaborators \ {c} : Effective(request)[d].covers # target

MayCover(request, c, target) ==
    /\ target # c
    /\ request.saved[c].planned /\ ~request.saved[c].away
    /\ Effective(request)[target] # NoRow
    /\ Effective(request)[target].away
    /\ Effective(request)[target].covers = NoOne
    /\ Unclaimed(request, c, target)

BulkCover(s) ==
    LET now == requests[s]
        row == Head(now.toCover)
        covering == [now.saved[row.of] EXCEPT !.covers = row.covers]
        new == [now EXCEPT !.toCover = Tail(@), !.saved[row.of] = covering]
    IN  /\ At(s, "bulk", "saving")
        /\ now.toSave = <<>> /\ now.toCover # <<>>
        /\ IF MayCover(now, row.of, row.covers)
           THEN /\ plan' = [plan EXCEPT ![row.of] = covering]
                /\ IF AfterSaving(new) THEN Done(s) ELSE Becomes(s, new)
           ELSE Refused(s) /\ UNCHANGED plan
        /\ UNCHANGED <<period, produced, runs, items, made, ledger>>

(* MarkActualOutcome saves the whole row it read, with the outcome.        *)
OutcomeRead(s) ==
    /\ At(s, "outcome", "sent")
    /\ LET row == plan[requests[s].of]
       IN  IF row.planned
           THEN Becomes(s, [kind |-> "outcome", by |-> requests[s].by,
                    step |-> "saving", of |-> requests[s].of,
                    row |-> [row EXCEPT !.outcome = requests[s].outcome]])
           ELSE Refused(s)
    /\ UNCHANGED <<period, plan, produced, runs, items, made, ledger>>

OutcomeSave(s) ==
    /\ At(s, "outcome", "saving")
    /\ plan' = [plan EXCEPT ![requests[s].of] = requests[s].row]
    /\ Done(s)
    /\ UNCHANGED <<period, produced, runs, items, made, ledger>>

(* Does the save of an outcome put back what a newer plan has changed?     *)
Overwrites(s) ==
    /\ At(s, "outcome", "saving")
    /\ [plan[requests[s].of] EXCEPT !.outcome = requests[s].row.outcome]
            # requests[s].row

(* RefinePlanAssignment leaves this Work Period alone: it checks what it   *)
(* was sent and keeps it as defaults of the Collaborator.                  *)
RefineSave(s) ==
    /\ At(s, "refine", "sent")
    /\ Becomes(s, [requests[s] EXCEPT !.step = "done"])
    /\ UNCHANGED <<period, plan, produced, runs, items, made, ledger>>

(* Inform saves the whole Work Period it read as still in planning.        *)
InformRead(s) ==
    /\ At(s, "inform", "sent")
    /\ IF period = "PLANNING"
       THEN Becomes(s, [requests[s] EXCEPT !.step = "saving"])
       ELSE IF period = "INFORMED" THEN Done(s) ELSE Refused(s)
    /\ UNCHANGED <<period, plan, produced, runs, items, made, ledger>>

InformSave(s) ==
    /\ At(s, "inform", "saving")
    /\ period' = "INFORMED"
    /\ Done(s)
    /\ UNCHANGED <<plan, produced, runs, items, made, ledger>>

(* CreateRun commits the run, then calculates it as RecalculateRun does.   *)
CreateRun(s) ==
    /\ At(s, "create", "sent")
    /\ runs' = Append(runs, "DRAFT")
    /\ Becomes(s, [kind |-> "create", by |-> requests[s].by,
                   step |-> "calculate", run |-> Len(runs) + 1])
    /\ UNCHANGED <<period, plan, produced, items, made, ledger>>

Calculate(s) ==
    /\ requests[s].step = "calculate"
    /\ LET r == requests[s].run
       IN  IF runs[r] = "POSTED" THEN Refused(s) /\ UNCHANGED made
           ELSE \E first \in FirstReplacement :
                    /\ made' = made + 1
                    /\ Becomes(s, [kind |-> requests[s].kind,
                            by |-> requests[s].by, step |-> "replace",
                            run |-> r, items |-> Calculated(r, first)])
    /\ UNCHANGED <<period, plan, produced, runs, items, ledger>>

(* Mutant: the replacement deletes every item of the run.                  *)
KeptElsewhere(r) == {i \in items : i.run # r}

Kept(r) == {i \in items : i.run # r \/ i.status = "POSTED"}

ReplaceItems(s) ==
    /\ requests[s].step = "replace"
    /\ LET r == requests[s].run
       IN  /\ items' = Kept(r) \cup requests[s].items
           /\ runs' = [runs EXCEPT ![r] = StatusFor(requests[s].items)]
    /\ Done(s)
    /\ UNCHANGED <<period, plan, produced, made, ledger>>

(* PostRun reads the run, its READY items and whether others wait.         *)
ItemsOf(r, status) == {i \in items : i.run = r /\ i.status = status}

PostRead(s) ==
    /\ At(s, "post", "sent")
    /\ LET r == requests[s].run
       IN  IF runs[r] = "POSTED" THEN Done(s)
           ELSE IF ItemsOf(r, "READY") = {} THEN Refused(s)
           ELSE Becomes(s, [kind |-> "post", by |-> requests[s].by,
                    step |-> "posting", run |-> r,
                    ready |-> ItemsOf(r, "READY"),
                    partial |-> ItemsOf(r, "PENDING") # {}])
    /\ UNCHANGED <<period, plan, produced, runs, items, made, ledger>>

(* Mutant: every READY item of the run is marked.                          *)
MarkedAll(request) == ItemsOf(request.run, "READY")

(* The items it marks: those it read, as far as they are still READY.      *)
Marked(request) == request.ready \cap ItemsOf(request.run, "READY")

PostReadyItems(s) ==
    /\ At(s, "post", "posting")
    /\ LET now == requests[s]
       IN  /\ ledger' = ledger \cup Fresh(Posting(now.ready))
           /\ items' = (items \ Marked(now)) \cup
                {[i EXCEPT !.status = "POSTED"] : i \in Marked(now)}
           /\ runs' = [runs EXCEPT ![now.run] = "POSTED"]
           /\ period' = IF now.partial THEN "PARTIALLY_POSTED"
                                       ELSE "FULLY_POSTED"
    /\ Done(s)
    /\ UNCHANGED <<plan, produced, made>>

(* A save of the plan, or the calculation of a run just created, breaks    *)
(* off: what it has written stays.                                         *)
Breaks(s) ==
    /\ requests[s].step \in {"saving", "calculate", "replace"}
    /\ requests[s].kind \in {"bulk", "create"}
    /\ Refused(s)
    /\ UNCHANGED <<period, plan, produced, runs, items, made, ledger>>

Serve(s) ==
    \/ BulkRead(s) \/ BulkSave(s) \/ BulkCover(s)
    \/ OutcomeRead(s) \/ OutcomeSave(s)
    \/ RefineSave(s) \/ InformRead(s) \/ InformSave(s)
    \/ CreateRun(s) \/ Calculate(s) \/ ReplaceItems(s)
    \/ PostRead(s) \/ PostReadyItems(s)

(* The gold of the Work Period is recorded.  An update of the record       *)
(* changes an amount and a place, which are left out; no page withdraws it.*)
RecordProduction ==
    /\ ~produced
    /\ produced' = TRUE
    /\ UNCHANGED <<period, plan, runs, items, made, ledger, requests>>

(***************************************************************************)
(* Properties.                                                             *)
(***************************************************************************)
(* An assignment earns once: however runs are created, recalculated and    *)
(* posted at the same time, and whatever outcomes are saved meanwhile, the *)
(* ledger holds at most one earning of an assignment (PostRun).            *)
EarningPaidOnce ==
    \A e, f \in ledger :
        {e.calc, f.calc} \subseteq Earnings /\ e.of = f.of => e = f

(* What the Accrual tab calls posted is in the Current Account: a POSTED   *)
(* item has its own entry or, for an earning, that of its assignment, also *)
(* when the run was recalculated while it was being posted.                *)
PostedMeansPaid ==
    \A i \in items : i.status = "POSTED" =>
        \E e \in ledger :
            \/ e = [made |-> i.made, of |-> i.of, calc |-> i.calc, dir |-> i.dir]
            \/ {i.calc, e.calc} \subseteq Earnings /\ e.of = i.of

(* An item that was posted stays as it is, whichever recalculation of its  *)
(* run was under way (ReplaceItemsForRun).                                 *)
PostedIsKept ==
    [][\A i \in items : i.status = "POSTED" => i \in items']_serverVars
===============================================================================
