------------------------------ MODULE Expenses ------------------------------
(***************************************************************************)
(* Expenses and their chain of ledger postings (backend/internal/expenses, *)
(* with the triggers and indexes of backend/migrations).                   *)
(*                                                                         *)
(* An Expense is posted as one debit.  The ledger is append-only, so an    *)
(* update reverses the latest debit and posts a replacement, and a         *)
(* cancellation or a deactivation reverses it.  "Latest" is by created_at, *)
(* which the service takes from the clock before its transaction; the      *)
(* unique index on reversals refuses to reverse a debit twice, and a       *)
(* refusal rolls the whole transaction back.                               *)
(*                                                                         *)
(* Requests are served by concurrent workers as in CurrentAccount: one     *)
(* statement or one transaction is one step.  Amounts are small naturals.  *)
(* The calculation of an amount from the price list is left out, and so is *)
(* the Canteen batch, which creates several rows in one transaction.       *)
(***************************************************************************)
EXTENDS Integers, FiniteSets

CONSTANTS
    Ids,              \* expense ids (ids.New())
    Journeys,         \* collaborator_journeys rows
    Workers,          \* request goroutines
    Operations,       \* the operations clients call (all of them: AllOperations)
    MaxAmount,        \* bound: largest amount a request names
    MaxTime           \* bound: no request that looks at the clock starts then

VARIABLES
    expenses,         \* expenses: function from the ids created so far
    debits,           \* ledger_entries that post an expense
    reversals,        \* ledger_entries that reverse one of these
    receipts,         \* ledger_receipts: function from the debit it is for
    closed,           \* Journeys with closed_at set
    clock,            \* time.Now(): ticks when a request looks at it
    pc,               \* where each worker's handler is
    job               \* what it has read and will write

rows == <<expenses, debits, reversals, receipts>>
vars == <<expenses, debits, reversals, receipts, closed, clock, pc, job>>

Changes == {"Update", "Cancel", "Deactivate"}
AllOperations ==
    Changes \cup {"Create", "CorrectEntry", "ReturnReceipt", "CloseJourney"}

ASSUME ExpensesAssumption ==
    /\ Operations \subseteq AllOperations
    /\ MaxAmount \in Nat \ {0}
    /\ MaxTime \in Nat

(***************************************************************************)
(* Data.                                                                   *)
(***************************************************************************)
NoId == "none"
Amounts == 1..MaxAmount

Expense ==
    [status : {"ACTIVE", "DEACTIVATED", "CANCELLED"}, journey : Journeys,
     amount : Amounts, recreatedFrom : Ids \cup {NoId}]

\* The debit an expense is posted as.  No two of one expense share a time.
Debit == [expense : Ids, journey : Journeys, amount : Amounts, createdAt : Nat]

\* A reversal copies its debit in the other direction; this is who posts it.
Reversal == [of : Debit, by : {"EXPENSES", "CURRENT_ACCOUNT"}]

NoJob == [op |-> "none"]
Job ==
    [op : {"Create"}, id : Ids, journey : Journeys, amount : Amounts,
     recreatedFrom : Ids \cup {NoId}, now : Nat]
    \cup [op : Changes, id : Ids, journey : Journeys, amount : Amounts, now : Nat]
    \cup {NoJob}

Active(x) == x \in DOMAIN expenses /\ expenses[x].status = "ACTIVE"
DebitsOf(x) == {d \in debits : d.expense = x}
Reversed(d) == \E r \in reversals : r.of = d
Live(x) == {d \in DebitsOf(x) : ~Reversed(d)}

\* Mutant: ORDER BY created_at without DESC.
EarliestDebit(x) ==
    CHOOSE d \in DebitsOf(x) : \A e \in DebitsOf(x) : d.createdAt <= e.createdAt

\* latestExpenseLedgerEntry: every expense has a debit since its creation.
LatestDebit(x) ==
    CHOOSE d \in DebitsOf(x) : \A e \in DebitsOf(x) : d.createdAt >= e.createdAt

(***************************************************************************)
(* Workers.                                                                *)
(***************************************************************************)
Idle(w, op) == pc[w] = "idle" /\ op \in Operations

\* Bound on the clock, for the requests that look at it.
InTime == clock < MaxTime

Goto(w, next, j) == pc' = [pc EXCEPT ![w] = next] /\ job' = [job EXCEPT ![w] = j]

Finish(w) == Goto(w, "idle", NoJob)

Committing(w, op) == pc[w] = "commit" /\ job[w].op = op

Init ==
    /\ expenses = <<>> /\ debits = {} /\ reversals = {} /\ receipts = <<>>
    /\ closed = {} /\ clock = 0
    /\ pc = [w \in Workers |-> "idle"] /\ job = [w \in Workers |-> NoJob]

(***************************************************************************)
(* Creation, of a new expense or of one that replaces a cancelled one.     *)
(***************************************************************************)
Recreated(s) == \E x \in DOMAIN expenses : expenses[x].recreatedFrom = s

MayRecreate(s) ==
    s # NoId => /\ s \in DOMAIN expenses
                /\ expenses[s].status = "CANCELLED"
                /\ ~Recreated(s)

\* The Journey, the source and the clock are read.  These reads are one step
\* here: what closes a Journey and what cancels a source are independent.
\* ids.New() is an id no one else has.
BeginCreate(w) ==
    /\ Idle(w, "Create") /\ InTime
    /\ \E x \in Ids \ DOMAIN expenses, j \in Journeys \ closed, a \in Amounts,
          s \in DOMAIN expenses \cup {NoId} :
        /\ \A v \in Workers : pc[v] # "idle" => job[v].id # x
        /\ MayRecreate(s)
        /\ Goto(w, "commit", [op |-> "Create", id |-> x, journey |-> j,
                              amount |-> a, recreatedFrom |-> s, now |-> clock])
    /\ clock' = clock + 1
    /\ UNCHANGED <<rows, closed>>

\* Mutant: neither index nor trigger on recreated_from_expense_id.
SourceUnchecked(s) == TRUE

\* The insert trigger and the unique index on recreated_from_expense_id.
SourceFree(s) == MayRecreate(s)

NewDebit(x, j, a, now) ==
    [expense |-> x, journey |-> j, amount |-> a, createdAt |-> now]

\* Mutant: the AfterCreate hook obliges no receipt.
PostDebitAlone(d) == debits' = debits \cup {d} /\ UNCHANGED receipts

\* The AfterCreate hook gives every debit a receipt; the ledger's rows and
\* their receipts are one transaction with the expense.
PostDebit(d) ==
    /\ debits' = debits \cup {d}
    /\ receipts' = [e \in DOMAIN receipts \cup {d} |->
                        IF e = d THEN "OUTSTANDING" ELSE receipts[e]]

CommitCreate(w) ==
    /\ Committing(w, "Create")
    /\ LET c == job[w] IN
        IF SourceFree(c.recreatedFrom)
        THEN /\ expenses' = [x \in DOMAIN expenses \cup {c.id} |->
                    IF x = c.id
                    THEN [status |-> "ACTIVE", journey |-> c.journey,
                          amount |-> c.amount, recreatedFrom |-> c.recreatedFrom]
                    ELSE expenses[x]]
             /\ PostDebit(NewDebit(c.id, c.journey, c.amount, c.now))
        ELSE UNCHANGED <<expenses, debits, receipts>>
    /\ Finish(w)
    /\ UNCHANGED <<reversals, closed, clock>>

(***************************************************************************)
(* Changes.  The service refuses an expense it reads as inactive; the      *)
(* clock is read after the last read and before the transaction.           *)
(***************************************************************************)
\* Update reads the expense, then the Journey it is to be charged to, which
\* need not be the one it was charged to.
BeginUpdate(w) ==
    /\ Idle(w, "Update") /\ InTime
    /\ \E x \in DOMAIN expenses, j \in Journeys, a \in Amounts :
        /\ Active(x)
        /\ Goto(w, "collaborator", [op |-> "Update", id |-> x, journey |-> j,
                                    amount |-> a, now |-> 0])
    /\ UNCHANGED <<rows, closed, clock>>

ReadCollaborator(w) ==
    /\ pc[w] = "collaborator"
    /\ IF job[w].journey \in closed
       THEN Finish(w) /\ UNCHANGED clock
       ELSE /\ Goto(w, "commit", [job[w] EXCEPT !.now = clock])
            /\ clock' = clock + 1
    /\ UNCHANGED <<rows, closed>>

\* Cancel and Deactivate keep what they read of the row, and ask nothing of
\* the Journey.
BeginEnding(w) ==
    /\ InTime
    /\ \E op \in {"Cancel", "Deactivate"}, x \in DOMAIN expenses :
        /\ Idle(w, op)
        /\ Active(x)
        /\ Goto(w, "commit", [op |-> op, id |-> x,
                              journey |-> expenses[x].journey,
                              amount |-> expenses[x].amount, now |-> clock])
    /\ clock' = clock + 1
    /\ UNCHANGED <<rows, closed>>

\* Mutant: no unique index on the original of a reversal.
ReversalUnchecked(d) == TRUE

\* The unique index on the original of a reversal.
ReversalFree(d) == ~Reversed(d)

Reverse(d) == reversals' = reversals \cup {[of |-> d, by |-> "EXPENSES"]}

Refuse == UNCHANGED <<expenses, debits, reversals, receipts>>

\* The update trigger lets active change only on a row not cancelled.
CommitUpdate(w) ==
    /\ Committing(w, "Update")
    /\ LET c == job[w]
           previous == LatestDebit(c.id)
       IN  IF expenses[c.id].status # "CANCELLED" /\ ReversalFree(previous)
           THEN /\ expenses' = [expenses EXCEPT ![c.id].status = "ACTIVE",
                                                ![c.id].journey = c.journey,
                                                ![c.id].amount = c.amount]
                /\ Reverse(previous)
                /\ PostDebit(NewDebit(c.id, c.journey, c.amount, c.now))
           ELSE Refuse
    /\ Finish(w)
    /\ UNCHANGED <<closed, clock>>

\* Deactivate is Update of the row as it was read, but for active.
CommitDeactivate(w) ==
    /\ Committing(w, "Deactivate")
    /\ LET c == job[w]
           previous == LatestDebit(c.id)
       IN  IF ReversalFree(previous)
           THEN /\ expenses' = [expenses EXCEPT
                        ![c.id].status =
                            IF @ = "CANCELLED" THEN @ ELSE "DEACTIVATED",
                        ![c.id].journey = c.journey,
                        ![c.id].amount = c.amount]
                /\ Reverse(previous)
                /\ UNCHANGED <<debits, receipts>>
           ELSE Refuse
    /\ Finish(w)
    /\ UNCHANGED <<closed, clock>>

\* Mutant: only the receipt of the debit that is reversed.
CancelsReceiptOfLatest(d, x) == d = LatestDebit(x) /\ receipts[d] = "OUTSTANDING"

\* Mutant: returned receipts too.
CancelsEveryReceipt(d, x) == d.expense = x

\* Cancelling an expense cancels the receipts still outstanding of every
\* debit it was ever posted as; a returned one stays as evidence.
CancelsReceipt(d, x) == d.expense = x /\ receipts[d] = "OUTSTANDING"

CommitCancel(w) ==
    /\ Committing(w, "Cancel")
    /\ LET x == job[w].id
           previous == LatestDebit(x)
       IN  IF Active(x) /\ ReversalFree(previous)
           THEN /\ expenses' = [expenses EXCEPT ![x].status = "CANCELLED"]
                /\ Reverse(previous)
                /\ receipts' = [d \in DOMAIN receipts |->
                        IF CancelsReceipt(d, x) THEN "CANCELLED" ELSE receipts[d]]
                /\ UNCHANGED debits
           ELSE Refuse
    /\ Finish(w)
    /\ UNCHANGED <<closed, clock>>

(***************************************************************************)
(* The current account: what its own requests do to the same rows, in one  *)
(* step each and at any time.                                              *)
(***************************************************************************)
\* ReverseEntry or ReplaceEntry of an expense's debit.  A replacement is an
\* entry of the account, which the expense does not know; so is the receipt
\* that it owes.
CorrectEntry ==
    /\ "CorrectEntry" \in Operations
    /\ \E d \in debits :
        /\ ReversalFree(d)
        /\ reversals' = reversals \cup {[of |-> d, by |-> "CURRENT_ACCOUNT"]}
    /\ UNCHANGED <<expenses, debits, receipts, closed, clock, pc, job>>

\* The signed paper comes back.
ReturnReceipt ==
    /\ "ReturnReceipt" \in Operations
    /\ \E d \in DOMAIN receipts :
        /\ receipts[d] = "OUTSTANDING"
        /\ receipts' = [receipts EXCEPT ![d] = "RETURNED"]
    /\ UNCHANGED <<expenses, debits, reversals, closed, clock, pc, job>>

\* When a Journey may close is CurrentAccount's; here it may at any time.
CloseJourney ==
    /\ "CloseJourney" \in Operations
    /\ \E j \in Journeys : closed' = closed \cup {j}
    /\ UNCHANGED <<rows, clock, pc, job>>

Handling(w) ==
    \/ BeginCreate(w) \/ CommitCreate(w)
    \/ BeginUpdate(w) \/ ReadCollaborator(w) \/ CommitUpdate(w)
    \/ BeginEnding(w) \/ CommitCancel(w) \/ CommitDeactivate(w)

Next ==
    \/ \E w \in Workers : Handling(w)
    \/ CorrectEntry \/ ReturnReceipt \/ CloseJourney

Spec == Init /\ [][Next]_vars

(***************************************************************************)
(* Properties.                                                             *)
(***************************************************************************)
\* The rows, the clock and every handler's job have their types.
TypeOK ==
    /\ DOMAIN expenses \subseteq Ids
    /\ expenses \in [DOMAIN expenses -> Expense]
    /\ debits \subseteq Debit
    /\ reversals \subseteq Reversal
    /\ receipts \in [debits -> {"OUTSTANDING", "RETURNED", "CANCELLED"}]
    /\ closed \subseteq Journeys
    /\ clock \in Nat
    /\ pc \in [Workers -> {"idle", "collaborator", "commit"}]
    /\ job \in [Workers -> Job]

Corrected(x) ==
    \E r \in reversals : r.of.expense = x /\ r.by = "CURRENT_ACCOUNT"

\* However updates, cancellations and deactivations overlap, the ledger
\* charges an active expense exactly once, to the Journey and by the amount
\* its row shows, and an inactive one not at all.  A correction by the current
\* account is the one other thing that lifts the charge, and then nothing of
\* the expense is ever charged again (Update, Cancel, reversalLedgerEntry).
ChargedOnce ==
    \A x \in DOMAIN expenses :
        IF Active(x) /\ ~Corrected(x)
        THEN \E d \in debits : /\ Live(x) = {d}
                               /\ d.journey = expenses[x].journey
                               /\ d.amount = expenses[x].amount
        ELSE Live(x) = {}

\* No paper is owed for a cancelled expense, whichever of its debits the paper
\* was for and however long before the cancellation (cancelOpenExpenseReceipt).
CancelledOwesNoReceipt ==
    \A d \in debits :
        expenses[d.expense].status = "CANCELLED" => receipts[d] # "OUTSTANDING"

\* A cancellation is the end of an expense: no change already under way when
\* it commits alters the row, the ledger or the receipts of the expense.
CancelIsFinal ==
    [][\A x \in DOMAIN expenses : expenses[x].status = "CANCELLED" =>
        /\ expenses'[x] = expenses[x]
        /\ {d \in debits' : d.expense = x} = DebitsOf(x)
        /\ \A d \in DebitsOf(x) : receipts'[d] = receipts[d]
        /\ {r \in reversals' : r.of.expense = x}
            = {r \in reversals : r.of.expense = x}]_vars

\* A cancelled expense is recreated at most once, and only once cancelled.
RecreatedOnce ==
    \A x, y \in DOMAIN expenses :
        LET s == expenses[x].recreatedFrom
        IN  s # NoId => /\ expenses[s].status = "CANCELLED"
                        /\ expenses[y].recreatedFrom = s => x = y

\* Paper that came back stays on record, whatever becomes of the expense.
ReturnedIsEvidence ==
    [][\A d \in DOMAIN receipts :
        receipts[d] = "RETURNED" => receipts'[d] = "RETURNED"]_vars

\* A worker that is about to cancel an expense that is still active ends with
\* the expense cancelled, not with an error.
CancelSucceeds(w) ==
    Committing(w, "Cancel") /\ Active(job[w].id) /\ pc'[w] = "idle" =>
        expenses'[job[w].id].status = "CANCELLED"

\* A replacement was posted that is older than a debit reversed before it.
Overtaken(x) ==
    \E d, e \in DebitsOf(x) : ~Reversed(d) /\ d.createdAt < e.createdAt

\* The unique index refuses a cancellation only where the account corrected
\* the charge or two updates committed in the other order than they looked at
\* the clock; in every other state an active expense can be cancelled.
CancelSucceedsInOrder ==
    [][\A w \in Workers :
        LET x == job[w].id
        IN  Committing(w, "Cancel") =>
                Corrected(x) \/ Overtaken(x) \/ CancelSucceeds(w)]_vars

\* An incorrect expense can be cancelled, with its financial effect reversed.
ActiveCanBeCancelled == [][\A w \in Workers : CancelSucceeds(w)]_vars
=============================================================================
