----------------------------- MODULE ExpenseScreens -----------------------------
(***************************************************************************)
(* The pages of one Expense, from its creation to its cancellation and     *)
(* re-creation, and of the receipt of one debit.                           *)
(***************************************************************************)
EXTENDS Screens

\* The price list, gold price and Collaborator pickers are left out, and
\* the receipts and accounts an Expense changes are not mounted with it.
ExpensesPage == [Page EXCEPT !.shows = {"expenses"}, !.links = {"new"}]

CreateExpensePage == [Page EXCEPT !.links = {"list"}]

ExpenseDetailPage ==
    [Page EXCEPT !.shows = {"expense"}, !.needs = {"expense"},
                 !.links = {"detail"},
                 !.exists = {"active", "cancelled", "recreated"}]

\* The form to re-create a cancelled Expense, filled in from it.
CopyExpensePage == [ExpenseDetailPage EXCEPT !.links = {"detail"}]

RecreatedExpensePage ==
    [ExpenseDetailPage EXCEPT !.shows = {"replacement"},
                              !.needs = {"replacement"},
                              !.links = {"detail"},
                              !.exists = {"recreated"}]

\* There may always be one more.
Creates == [s \in {"absent", "active"} |-> "active"]

\* Cancelling again answers the cancelled Expense.
Cancels ==
    [s \in {"active", "cancelled", "recreated"} |->
        IF s = "active" THEN "cancelled" ELSE s]

Recreates == [s \in {"cancelled"} |-> "recreated"]

Financial == {"account", "outstanding"}

\* Nothing shows the details of what a batch has created yet.
UseCreateCanteenExpenseBatch ==
    [Mutation EXCEPT !.becomes = Creates,
                     !.changes = {"expenses"} \cup Financial,
                     !.refreshes = {"expenses"} \cup Financial]

UseCreateExpense ==
    [UseCreateCanteenExpenseBatch EXCEPT
        !.changes = @ \cup {"replacement"}, !.sets = {"replacement"}]

UseCancelExpense ==
    [Mutation EXCEPT
        !.becomes = Cancels,
        !.changes = {"expenses", "expense", "receipt"} \cup Financial,
        !.sets = {"expense"},
        !.refreshes = {"expenses", "receipt"} \cup Financial]

\* What the submission ref of the form locks.
Submissions == {"create", "batch", "recreate"}

SubmitExpense ==
    [UseCreateExpense EXCEPT !.at = {"new"}, !.once = Submissions,
                             !.disabledBy = Submissions, !.goesTo = "list"]

SubmitBatch ==
    [UseCreateCanteenExpenseBatch EXCEPT
        !.at = {"new"}, !.once = Submissions, !.disabledBy = Submissions,
        !.goesTo = "list"]

SubmitReplacement ==
    [UseCreateExpense EXCEPT
        !.becomes = Recreates, !.at = {"copy"}, !.reads = "expense", !.once = Submissions,
        !.offered = {"cancelled", "recreated"}, !.blind = {"recreated"},
        !.disabledBy = Submissions, !.goesTo = "replacement"]

\* The page awaits the mutation and moves on, even if it is not shown.
CancelAndRecreate ==
    [UseCancelExpense EXCEPT
        !.at = {"detail"}, !.inPanel = TRUE, !.reads = "expense",
        !.offered = {"active"}, !.disabledBy = {"cancel"},
        !.goesTo = "copy", !.alsoLate = TRUE]

NewExpenseArea ==
    [pages |-> [list |-> ExpensesPage, new |-> CreateExpensePage],
     mutations |-> [create |-> SubmitExpense, batch |-> SubmitBatch],
     first |-> {[status |-> "absent", page |-> "new"]},
     atOnce |-> 2]

CorrectionArea ==
    [pages |-> [detail |-> ExpenseDetailPage, copy |-> CopyExpensePage,
                replacement |-> RecreatedExpensePage],
     mutations |-> [cancel |-> CancelAndRecreate,
                    recreate |-> SubmitReplacement],
     first |-> {[status |-> "active", page |-> "detail"]},
     atOnce |-> 1]

-----------------------------------------------------------------------------
(* Receipts.  Nothing issues one before it is printed, or signs it before  *)
(* it is returned.                                                         *)

ReceiptStatuses == {"pending", "printed", "returned", "cancelled"}
Terminal == {"returned", "cancelled"}

OutstandingReceiptsPage ==
    [Page EXCEPT !.shows = {"outstanding"}, !.links = {"receipt"}]

PrintableReceiptPage ==
    [Page EXCEPT !.shows = {"receipt"}, !.needs = {"receipt"},
                 !.links = {"outstanding"}]

\* Mutant: whatever the receipt has become is offered.
ReturnsAnything == ReceiptStatuses

CanPrintReceipt == ReceiptStatuses \ Terminal
CanReturnReceipt == ReceiptStatuses \ Terminal

\* The server prints again what has been returned.
Prints ==
    [s \in {"pending", "printed", "returned"} |->
        IF s = "pending" THEN "printed" ELSE s]

Returns == [s \in {"pending", "printed"} |-> "returned"]

UsePrintReceipt ==
    [Mutation EXCEPT !.becomes = Prints, !.changes = {"receipt", "outstanding"},
                     !.sets = {"receipt"}, !.refreshes = {"outstanding"}]

UseReturnReceipt == [UsePrintReceipt EXCEPT !.becomes = Returns]

\* A final settlement is accepted in the application, and never printed.
UseAcceptReceipt ==
    [UsePrintReceipt EXCEPT !.becomes = [s \in {"awaiting"} |-> "returned"]]

PrintReceipt ==
    [UsePrintReceipt EXCEPT !.at = {"receipt"}, !.reads = "receipt",
                            !.offered = CanPrintReceipt,
                            !.disabledBy = {"print"}]

RecordReturned ==
    [UseReturnReceipt EXCEPT !.at = {"receipt"}, !.reads = "receipt",
                             !.offered = CanReturnReceipt,
                             !.disabledBy = {"return"}]

AcceptInApp ==
    [UseAcceptReceipt EXCEPT !.at = {"receipt"}, !.reads = "receipt",
                             !.offered = {"awaiting"},
                             !.disabledBy = {"accept"}]

ReceiptArea ==
    [pages |-> [outstanding |-> OutstandingReceiptsPage,
                receipt |-> PrintableReceiptPage],
     mutations |-> [print |-> PrintReceipt, return |-> RecordReturned,
                    accept |-> AcceptInApp],
     first |-> {[status |-> s, page |-> "outstanding"] :
                    s \in {"pending", "awaiting", "cancelled"}},
     atOnce |-> 1]
=================================================================================
