--------------------------- MODULE CurrentAccount ---------------------------
(***************************************************************************)
(* The current account of a Collaborator Journey: the append-only ledger,  *)
(* the settlements posted against it, the receipts its entries oblige, and *)
(* the closure of the Journey (backend/internal/currentaccounts, with the  *)
(* hooks and triggers of backend/internal/db).                             *)
(*                                                                         *)
(* HTTP requests are served by concurrent workers.  The database has one   *)
(* connection (db/db.go), so one statement, or one Transaction(...), is    *)
(* one atomic step; but a service reads what it decides on in statements   *)
(* of its own and writes in a later transaction, so two workers interleave *)
(* between the reads and the write.  A worker is at pc[w]; job[w] is what  *)
(* its handler has read or derived and will write.  A request the handler  *)
(* refuses leaves the database alone: it ends the job, or, where the       *)
(* refusal comes with the first read, it is not taken at all.              *)
(*                                                                         *)
(* Amounts are small naturals in an abstract minor unit: the code's REAL   *)
(* amounts, its 1e-9 tolerance and its rounding are left out.              *)
(***************************************************************************)
EXTENDS Integers, FiniteSets, FiniteSetsExt

CONSTANTS
    Journeys,         \* collaborator_journeys rows of one tenant
    Units,            \* value units (BRL, GOLD_GRAM): never netted
    GoldGram,         \* the unit ZeroGold settles
    RequestIds,       \* client-chosen idempotency keys of settlements
    Workers,          \* request goroutines
    Operations,       \* the operations clients call (all of them: AllOperations)
    ReplacementTypes, \* entry types a replacement request may carry
    MaxAmount,        \* bound: largest amount a request names
    MaxTransactions   \* bound: no ledger write starts after this many

VARIABLES
    ledger,           \* ledger_entries: a set of entries, append-only
    receipts,         \* ledger_receipts: function from the entry it is for
    settlements,      \* journey_settlements
    closed,           \* Journeys with closed_at set and status FINISHED
    accrual,          \* accrual_items of a Journey, by the status that matters
    extensions,       \* Journeys with a PENDING extension request
    awards,           \* Journeys with a PENDING_APPROVAL bonus award
    writes,           \* number of transactions that wrote to the ledger
    pc,               \* where each worker's handler is
    job               \* what it has read and will write

rows    == <<ledger, receipts, settlements>>
journey == <<closed, accrual, extensions, awards>>
vars    == <<ledger, receipts, settlements, closed, accrual, extensions,
             awards, writes, pc, job>>

PayoutOps  == {"PartialPayout", "ZeroGold"}
FinalOps   == {"FinalTenantPayment", "FinalCollaboratorPayment"}
SettlementOps == PayoutOps \cup FinalOps
LedgerOperations ==
    SettlementOps \cup {"ReverseEntry", "ReplaceEntry", "CreateExpense",
                        "PostRun", "ApproveJourneyBonusAward"}
AllOperations ==
    LedgerOperations \cup
    {"CloseJourney", "PrintReceipt", "ReturnReceipt", "AcceptReceipt",
     "CalculateAccruals", "ExtendJourney", "ResolveExtension",
     "CreateJourneyBonusAward"}

ASSUME CurrentAccountAssumption ==
    /\ GoldGram \in Units
    /\ Operations \subseteq AllOperations
    /\ MaxAmount \in Nat \ {0}
    /\ MaxTransactions \in Nat

(***************************************************************************)
(* Data.                                                                   *)
(***************************************************************************)
Directions  == {"CREDIT", "DEBIT"}
Corrections == {"ORIGINAL", "REVERSAL", "REPLACEMENT"}
EntryTypes  == {"EARNING_CREDIT", "EXPENSE_DEDUCTION", "PAYOUT",
                "FINAL_SETTLEMENT"} \cup ReplacementTypes
SourceTypes == {"JOURNEY_SETTLEMENT", "LEDGER_CORRECTION", "OTHER"}

\* A row's primary key.  One transaction writes at most one entry of each
\* unit and correction type, so these name the row.
EntryKey == Nat \X Units \X Corrections
NoEntry  == <<>>
NoRequest == "no request"

Amounts == [Units -> Nat]
Entry ==
    [key : EntryKey, journey : Journeys, unit : Units, direction : Directions,
     amount : Nat \ {0}, entryType : EntryTypes, source : SourceTypes,
     request : RequestIds \cup {NoRequest}, correction : Corrections,
     related : EntryKey \cup {NoEntry}]

Parties  == {"COLLABORATOR", "TENANT"}
Purposes == {"LEDGER_DEBIT", "FINAL_SETTLEMENT_TENANT_PAYMENT",
             "FINAL_SETTLEMENT_COLLABORATOR_PAYMENT"}
Receipt  ==
    [purpose : Purposes, acceptingParty : Parties,
     status : {"PENDING_ISSUE", "PRINTED", "RETURNED"},
     acceptedBy : Parties \cup {"nobody"}]

Settlement ==
    [journey : Journeys, request : RequestIds,
     type : SettlementOps \cup {"CloseJourney"}, amount : Amounts]

Steps == {"idle", "balances", "accruals", "receipts", "award", "commit"}

NoJob == [op |-> "none"]
Job ==
    [op : SettlementOps \cup {"CloseJourney"}, journey : Journeys,
     request : RequestIds, amount : Amounts]
    \cup [op : {"ReverseEntry"}, original : Entry]
    \cup [op : {"ReplaceEntry"}, original : Entry, unit : Units,
          direction : Directions, amount : Nat \ {0},
          entryType : ReplacementTypes]
    \cup [op : {"CreateExpense", "PostRun"}, journey : Journeys, unit : Units,
          amount : Nat \ {0}]
    \cup [op : {"ExtendJourney", "CreateJourneyBonusAward",
                "ApproveJourneyBonusAward"}, journey : Journeys]
    \cup {NoJob}

Signed(e) == IF e.direction = "CREDIT" THEN e.amount ELSE -e.amount

\* The balance of a Journey in one unit, as ListBalances sums it.
Balance(j, u) ==
    MapThenSumSet(Signed, {e \in ledger : e.journey = j /\ e.unit = u})

ZeroBalance(j) == \A u \in Units : Balance(j, u) = 0

HasRequest(j, r) ==
    \E s \in settlements : s.journey = j /\ s.request = r

HasReversal(k) ==
    \E e \in ledger : e.correction = "REVERSAL" /\ e.related = k

\* Mutant: a printed receipt is taken for a discharged one.
OutstandingUnlessPrinted(j) ==
    {e \in DOMAIN receipts : /\ e.journey = j
                             /\ receipts[e].status = "PENDING_ISSUE"}

\* The statuses the settlement preview counts as outstanding.
Outstanding(j) ==
    {e \in DOMAIN receipts : /\ e.journey = j
                             /\ receipts[e].status # "RETURNED"}

(***************************************************************************)
(* Writing to the ledger: the rows and, in the same transaction, the       *)
(* receipts that the AfterCreate hook of LedgerEntry creates.              *)
(***************************************************************************)
IsFinalSettlement(e) ==
    e.entryType = "FINAL_SETTLEMENT" /\ e.source = "JOURNEY_SETTLEMENT"

\* Mutant: the hook knows debits only.
ObligesDebitReceipt(e) == e.direction = "DEBIT"

ObligesReceipt(e) == e.direction = "DEBIT" \/ IsFinalSettlement(e)

NewReceipt(e) ==
    [purpose |->
        IF ~IsFinalSettlement(e) THEN "LEDGER_DEBIT"
        ELSE IF e.direction = "DEBIT" THEN "FINAL_SETTLEMENT_TENANT_PAYMENT"
        ELSE "FINAL_SETTLEMENT_COLLABORATOR_PAYMENT",
     acceptingParty |->
        IF IsFinalSettlement(e) /\ e.direction = "CREDIT" THEN "TENANT"
        ELSE "COLLABORATOR",
     status |-> "PENDING_ISSUE",
     acceptedBy |-> "nobody"]

Obliged(es) == {e \in es : ObligesReceipt(e)}

Post(es) ==
    /\ ledger' = ledger \cup es
    /\ receipts' =
        [e \in DOMAIN receipts \cup Obliged(es) |->
            IF e \in DOMAIN receipts THEN receipts[e] ELSE NewReceipt(e)]
    /\ writes' = writes + 1


\* Mutant: every settlement entry is a debit.
DebitSettlementEntry(s, u) ==
    [key |-> <<writes, u, "ORIGINAL">>, journey |-> s.journey, unit |-> u,
     direction |-> "DEBIT", amount |-> s.amount[u],
     entryType |-> IF s.type \in FinalOps THEN "FINAL_SETTLEMENT" ELSE "PAYOUT",
     source |-> "JOURNEY_SETTLEMENT", request |-> s.request,
     correction |-> "ORIGINAL", related |-> NoEntry]

SettlementEntry(s, u) ==
    [key |-> <<writes, u, "ORIGINAL">>, journey |-> s.journey, unit |-> u,
     direction |->
        IF s.type = "FinalCollaboratorPayment" THEN "CREDIT" ELSE "DEBIT",
     amount |-> s.amount[u],
     entryType |-> IF s.type \in FinalOps THEN "FINAL_SETTLEMENT" ELSE "PAYOUT",
     source |-> "JOURNEY_SETTLEMENT", request |-> s.request,
     correction |-> "ORIGINAL", related |-> NoEntry]

\* Mutant: an entry for every unit, the untouched ones included.
EntriesOfEveryUnit(s) == {SettlementEntry(s, u) : u \in Units}

SettlementEntries(s) ==
    {SettlementEntry(s, u) : u \in {v \in Units : s.amount[v] > 0}}

CorrectionEntry(o, correction, u, direction, amount, entryType) ==
    [key |-> <<writes, u, correction>>, journey |-> o.journey, unit |-> u,
     direction |-> direction, amount |-> amount, entryType |-> entryType,
     source |-> "LEDGER_CORRECTION", request |-> NoRequest,
     correction |-> correction, related |-> o.key]

Opposite(direction) == IF direction = "CREDIT" THEN "DEBIT" ELSE "CREDIT"

Reversal(o) ==
    CorrectionEntry(o, "REVERSAL", o.unit, Opposite(o.direction), o.amount,
                    o.entryType)

\* An entry another component posts.
OtherEntry(j, u, direction, amount, entryType) ==
    [key |-> <<writes, u, "ORIGINAL">>, journey |-> j, unit |-> u,
     direction |-> direction, amount |-> amount, entryType |-> entryType,
     source |-> "OTHER", request |-> NoRequest, correction |-> "ORIGINAL",
     related |-> NoEntry]

(***************************************************************************)
(* Workers.                                                                *)
(***************************************************************************)
\* Free to take a request; one that writes to the ledger only below the bound.
Idle(w, op) ==
    /\ pc[w] = "idle"
    /\ op \in Operations
    /\ op \in LedgerOperations => writes < MaxTransactions

\* The handler has read what j holds and goes on to its next statement.
Goto(w, next, j) == pc' = [pc EXCEPT ![w] = next] /\ job' = [job EXCEPT ![w] = j]

\* The handler answers, with a result or an error.
Finish(w) == Goto(w, "idle", NoJob)

NoAmount == [u \in Units |-> 0]

Init ==
    /\ ledger = {} /\ receipts = <<>> /\ settlements = {}
    /\ closed = {} /\ accrual = [j \in Journeys |-> "NONE"]
    /\ extensions = {} /\ awards = {}
    /\ writes = 0
    /\ pc = [w \in Workers |-> "idle"] /\ job = [w \in Workers |-> NoJob]

(***************************************************************************)
(* Settlements.  A request whose id the Journey has already used is        *)
(* answered with the recorded settlement and changes nothing.  The look-up *)
(* is one step with the first read of the handler: it is decided again by  *)
(* the unique index when the settlement is written.                        *)
(***************************************************************************)
BeginPartialPayout(w) ==
    /\ Idle(w, "PartialPayout")
    /\ \E j \in Journeys, r \in RequestIds, a \in [Units -> 0..MaxAmount] :
        /\ a # NoAmount
        /\ ~HasRequest(j, r)
        /\ Goto(w, "balances", [op |-> "PartialPayout", journey |-> j,
                                request |-> r, amount |-> a])
    /\ UNCHANGED <<rows, journey, writes>>

BeginZeroGold(w) ==
    /\ Idle(w, "ZeroGold")
    /\ \E j \in Journeys, r \in RequestIds :
        /\ ~HasRequest(j, r)
        /\ Goto(w, "balances", [op |-> "ZeroGold", journey |-> j,
                                request |-> r, amount |-> NoAmount])
    /\ UNCHANGED <<rows, journey, writes>>

\* The two final payments refuse a closed Journey before the look-up.
BeginFinalPayment(w) ==
    /\ \E op \in FinalOps, j \in Journeys, r \in RequestIds :
        /\ Idle(w, op)
        /\ j \notin closed
        /\ ~HasRequest(j, r)
        /\ Goto(w, "balances", [op |-> op, journey |-> j, request |-> r,
                                amount |-> NoAmount])
    /\ UNCHANGED <<rows, journey, writes>>

\* What a settlement of this kind takes, given the balances it reads.
Derived(op, asked, balance) ==
    CASE op = "PartialPayout" -> asked
      [] op = "ZeroGold" ->
            [u \in Units |-> IF u = GoldGram /\ balance[u] > 0
                             THEN balance[u] ELSE 0]
      [] op = "FinalTenantPayment" ->
            [u \in Units |-> IF balance[u] > 0 THEN balance[u] ELSE 0]
      [] op = "FinalCollaboratorPayment" ->
            [u \in Units |-> IF balance[u] < 0 THEN -balance[u] ELSE 0]

\* Mutant: the payout is not compared with the balance.
SettlesSomething(op, amount, balance) == amount # NoAmount

\* A payout may not exceed the balance of any unit, not even of one it asks
\* nothing of; the other three need something to settle.
Settles(op, amount, balance) ==
    IF op = "PartialPayout" THEN \A u \in Units : amount[u] <= balance[u]
    ELSE amount # NoAmount

ReadBalances(w) ==
    /\ pc[w] = "balances"
    /\ job[w].op \in SettlementOps
    /\ LET balance == [u \in Units |-> Balance(job[w].journey, u)]
           amount  == Derived(job[w].op, job[w].amount, balance)
       IN  IF amount \in Amounts /\ Settles(job[w].op, amount, balance)
           THEN Goto(w, "commit", [job[w] EXCEPT !.amount = amount])
           ELSE Finish(w)
    /\ UNCHANGED <<rows, journey, writes>>

\* Mutant: no unique index, only the look-up at the start of the request.
RequestIdUnchecked(j, r) == TRUE

\* The unique index on (collaborator, request_id) and whatever it refuses.
RequestIdFree(j, r) == ~HasRequest(j, r)

\* CreateSettlementWithEntries: the settlement, its entries and their
\* receipts in one transaction.  Nothing here re-reads the balances or
\* closed_at.
CommitSettlement(w) ==
    /\ pc[w] = "commit"
    /\ job[w].op \in SettlementOps
    /\ LET s == [journey |-> job[w].journey, request |-> job[w].request,
                 type |-> job[w].op, amount |-> job[w].amount]
       IN  IF RequestIdFree(s.journey, s.request)
           THEN settlements' = settlements \cup {s} /\ Post(SettlementEntries(s))
           ELSE UNCHANGED <<rows, writes>>
    /\ Finish(w)
    /\ UNCHANGED journey

(***************************************************************************)
(* Closing the Journey.  SettlementPreview reads the Journey, its          *)
(* balances, its PENDING accrual items and its outstanding receipts in     *)
(* four statements, in this order; any blocker refuses the request.        *)
(***************************************************************************)
BeginCloseJourney(w) ==
    /\ Idle(w, "CloseJourney")
    /\ \E j \in Journeys, r \in RequestIds :
        /\ ~HasRequest(j, r)
        /\ j \notin closed
        /\ Goto(w, "balances", [op |-> "CloseJourney", journey |-> j,
                                request |-> r, amount |-> NoAmount])
    /\ UNCHANGED <<rows, journey, writes>>

\* One read of the preview: go on to the next, or refuse.
Preview(w, at, clear, next) ==
    /\ pc[w] = at
    /\ job[w].op = "CloseJourney"
    /\ IF clear THEN Goto(w, next, job[w]) ELSE Finish(w)
    /\ UNCHANGED <<rows, journey, writes>>

PreviewBalances(w) ==
    Preview(w, "balances", ZeroBalance(job[w].journey), "accruals")

PreviewAccruals(w) ==
    Preview(w, "accruals", accrual[job[w].journey] # "PENDING", "receipts")

PreviewReceipts(w) ==
    Preview(w, "receipts", Outstanding(job[w].journey) = {}, "commit")

\* What the database still checks when closed_at is set: the update's own
\* WHERE, and the triggers on the balance, the extension requests and the
\* bonus awards.  Accrual items and receipts have no trigger.

\* Mutant: the update does not say closed_at IS NULL.
OpenWhenPreviewed(j) == TRUE

StillOpen(j) == j \notin closed

\* Mutant: the trigger nets the units against one another.
NetBalanceIsZero(j) ==
    /\ MapThenSumSet(LAMBDA u : Balance(j, u), Units) = 0
    /\ j \notin extensions
    /\ j \notin awards

MayReceiveClosedAt(j) ==
    /\ ZeroBalance(j)
    /\ j \notin extensions
    /\ j \notin awards

CommitCloseJourney(w) ==
    /\ pc[w] = "commit"
    /\ job[w].op = "CloseJourney"
    /\ LET s == [journey |-> job[w].journey, request |-> job[w].request,
                 type |-> "CloseJourney", amount |-> NoAmount]
       IN  IF /\ StillOpen(s.journey)
              /\ MayReceiveClosedAt(s.journey)
              /\ RequestIdFree(s.journey, s.request)
           THEN /\ closed' = closed \cup {s.journey}
                /\ settlements' = settlements \cup {s}
           ELSE UNCHANGED <<closed, settlements>>
    /\ Finish(w)
    /\ UNCHANGED <<ledger, receipts, accrual, extensions, awards, writes>>

(***************************************************************************)
(* Corrections: any entry that is neither a reversal nor reversed, of an   *)
(* open or a closed Journey.  The entry is immutable, so it and its        *)
(* reversals are read in one step.                                         *)
(***************************************************************************)
Correctable(e) == e.correction # "REVERSAL" /\ ~HasReversal(e.key)

BeginReverseEntry(w) ==
    /\ Idle(w, "ReverseEntry")
    /\ \E e \in ledger :
        /\ Correctable(e)
        /\ Goto(w, "commit", [op |-> "ReverseEntry", original |-> e])
    /\ UNCHANGED <<rows, journey, writes>>

BeginReplaceEntry(w) ==
    /\ Idle(w, "ReplaceEntry")
    /\ \E e \in ledger, u \in Units, d \in Directions, a \in 1..MaxAmount,
          t \in ReplacementTypes :
        /\ Correctable(e)
        /\ Goto(w, "commit", [op |-> "ReplaceEntry", original |-> e, unit |-> u,
                              direction |-> d, amount |-> a, entryType |-> t])
    /\ UNCHANGED <<rows, journey, writes>>

\* Mutant: no unique index, only the HasReversal read of the service.
ReversalUnchecked(k) == TRUE

\* The unique index on the original of a REVERSAL.
ReversalFree(k) == ~HasReversal(k)

CorrectionEntries(c) ==
    {Reversal(c.original)} \cup
    (IF c.op = "ReplaceEntry"
     THEN {CorrectionEntry(c.original, "REPLACEMENT", c.unit, c.direction,
                           c.amount, c.entryType)}
     ELSE {})

CommitCorrection(w) ==
    /\ pc[w] = "commit"
    /\ job[w].op \in {"ReverseEntry", "ReplaceEntry"}
    /\ IF ReversalFree(job[w].original.key)
       THEN Post(CorrectionEntries(job[w]))
       ELSE UNCHANGED <<ledger, receipts, writes>>
    /\ Finish(w)
    /\ UNCHANGED <<settlements, journey>>

(***************************************************************************)
(* Receipts.  The service reads only what never changes (the receipt's id, *)
(* purpose and party) before a transaction that reads the status again, so *)
(* each operation is one step.  A repeated print changes only a timestamp. *)
(***************************************************************************)
Final(receipt) == receipt.purpose # "LEDGER_DEBIT"

\* Mutant: printing always makes the receipt PRINTED.
AlwaysPrinted(status) == "PRINTED"

AfterPrint(status) == IF status = "RETURNED" THEN "RETURNED" ELSE "PRINTED"

PrintReceipt(w) ==
    /\ Idle(w, "PrintReceipt")
    /\ \E e \in DOMAIN receipts :
        receipts' = [receipts EXCEPT ![e].status = AfterPrint(@)]
    /\ UNCHANGED <<ledger, settlements, journey, writes, pc, job>>

\* Mutant: the signed paper discharges any receipt.
MayReturnAny(receipt) == receipt.status # "RETURNED"

\* The signed paper has come back: never for a final settlement.
MayReturn(receipt) == receipt.status # "RETURNED" /\ ~Final(receipt)

ReturnReceipt(w) ==
    /\ Idle(w, "ReturnReceipt")
    /\ \E e \in DOMAIN receipts :
        /\ MayReturn(receipts[e])
        /\ receipts' = [receipts EXCEPT ![e].status = "RETURNED"]
    /\ UNCHANGED <<ledger, settlements, journey, writes, pc, job>>

\* In-app acceptance by the designated party: only for a final settlement.
MayAccept(receipt, party) ==
    /\ receipt.acceptedBy = "nobody"
    /\ receipt.status # "RETURNED"
    /\ Final(receipt)
    /\ receipt.acceptingParty = party

AcceptReceipt(w) ==
    /\ Idle(w, "AcceptReceipt")
    /\ \E e \in DOMAIN receipts, party \in Parties :
        /\ MayAccept(receipts[e], party)
        /\ receipts' = [receipts EXCEPT ![e].status = "RETURNED",
                                        ![e].acceptedBy = party]
    /\ UNCHANGED <<ledger, settlements, journey, writes, pc, job>>

(***************************************************************************)
(* The other components that post to the Journey's ledger or hold its      *)
(* closure, as far as the account sees them.                               *)
(***************************************************************************)
\* The services below read that the Journey is open, then write.
BeginOnOpenJourney(w, op, next) ==
    /\ Idle(w, op)
    /\ \E j \in Journeys \ closed : Goto(w, next, [op |-> op, journey |-> j])
    /\ UNCHANGED <<rows, journey, writes>>

BeginCreateExpense(w) ==
    /\ Idle(w, "CreateExpense")
    /\ \E j \in Journeys \ closed, u \in Units, a \in 1..MaxAmount :
        Goto(w, "commit", [op |-> "CreateExpense", journey |-> j, unit |-> u,
                           amount |-> a])
    /\ UNCHANGED <<rows, journey, writes>>

CommitCreateExpense(w) ==
    /\ pc[w] = "commit"
    /\ job[w].op = "CreateExpense"
    /\ Post({OtherEntry(job[w].journey, job[w].unit, "DEBIT", job[w].amount,
                        "EXPENSE_DEDUCTION")})
    /\ Finish(w)
    /\ UNCHANGED <<settlements, journey>>

\* CreateRun, RecalculateRun: the Journey's unposted items are calculated anew.
CalculateAccruals(w) ==
    /\ Idle(w, "CalculateAccruals")
    /\ \E j \in Journeys, s \in {"PENDING", "READY"} :
        accrual' = [accrual EXCEPT ![j] = s]
    /\ UNCHANGED <<rows, closed, extensions, awards, writes, pc, job>>

\* PostRun reads a READY item, then credits it: what became of the item in
\* between is not asked again, and that the Journey is open is never asked.
BeginPostRun(w) ==
    /\ Idle(w, "PostRun")
    /\ \E j \in Journeys, u \in Units, a \in 1..MaxAmount :
        /\ accrual[j] = "READY"
        /\ Goto(w, "commit", [op |-> "PostRun", journey |-> j, unit |-> u,
                              amount |-> a])
    /\ UNCHANGED <<rows, journey, writes>>

\* The Journey's other items stay as they are, where it has any.
CommitPostRun(w) ==
    /\ pc[w] = "commit"
    /\ job[w].op = "PostRun"
    /\ Post({OtherEntry(job[w].journey, job[w].unit, "CREDIT", job[w].amount,
                        "EARNING_CREDIT")})
    /\ \E left \in {"NONE", accrual[job[w].journey]} :
        accrual' = [accrual EXCEPT ![job[w].journey] = left]
    /\ Finish(w)
    /\ UNCHANGED <<settlements, closed, extensions, awards>>

BeginExtendJourney(w) == BeginOnOpenJourney(w, "ExtendJourney", "commit")

\* The unique index lets one request of a Journey be PENDING.
CommitExtendJourney(w) ==
    /\ pc[w] = "commit"
    /\ job[w].op = "ExtendJourney"
    /\ extensions' = extensions \cup {job[w].journey}
    /\ Finish(w)
    /\ UNCHANGED <<rows, closed, accrual, awards, writes>>

\* Accepted, rejected or cancelled.
ResolveExtension(w) ==
    /\ Idle(w, "ResolveExtension")
    /\ \E j \in extensions : extensions' = extensions \ {j}
    /\ UNCHANGED <<rows, closed, accrual, awards, writes, pc, job>>

BeginCreateAward(w) ==
    BeginOnOpenJourney(w, "CreateJourneyBonusAward", "commit")

\* Bound: one award of a Journey awaits approval at a time.
CommitCreateAward(w) ==
    /\ pc[w] = "commit"
    /\ job[w].op = "CreateJourneyBonusAward"
    /\ awards' = awards \cup {job[w].journey}
    /\ Finish(w)
    /\ UNCHANGED <<rows, closed, accrual, extensions, writes>>

BeginApproveAward(w) ==
    BeginOnOpenJourney(w, "ApproveJourneyBonusAward", "award")

\* The award is read after the Journey.
ReadAward(w) ==
    /\ pc[w] = "award"
    /\ IF job[w].journey \in awards THEN Goto(w, "commit", job[w]) ELSE Finish(w)
    /\ UNCHANGED <<rows, journey, writes>>

\* The transaction updates the award only while it is PENDING_APPROVAL.
CommitApproveAward(w) ==
    /\ pc[w] = "commit"
    /\ job[w].op = "ApproveJourneyBonusAward"
    /\ IF job[w].journey \in awards
       THEN /\ awards' = awards \ {job[w].journey}
            /\ \E u \in Units, a \in 1..MaxAmount :
                Post({OtherEntry(job[w].journey, u, "CREDIT", a, "EARNING_CREDIT")})
       ELSE UNCHANGED <<awards, ledger, receipts, writes>>
    /\ Finish(w)
    /\ UNCHANGED <<settlements, closed, accrual, extensions>>

(***************************************************************************)
(* The system.                                                             *)
(***************************************************************************)
Settling(w) ==
    \/ BeginPartialPayout(w) \/ BeginZeroGold(w) \/ BeginFinalPayment(w)
    \/ ReadBalances(w) \/ CommitSettlement(w)

Closing(w) ==
    \/ BeginCloseJourney(w) \/ PreviewBalances(w) \/ PreviewAccruals(w)
    \/ PreviewReceipts(w) \/ CommitCloseJourney(w)

Correcting(w) ==
    BeginReverseEntry(w) \/ BeginReplaceEntry(w) \/ CommitCorrection(w)

Receipting(w) == PrintReceipt(w) \/ ReturnReceipt(w) \/ AcceptReceipt(w)

Others(w) ==
    \/ BeginCreateExpense(w) \/ CommitCreateExpense(w)
    \/ CalculateAccruals(w) \/ BeginPostRun(w) \/ CommitPostRun(w)
    \/ BeginExtendJourney(w) \/ CommitExtendJourney(w) \/ ResolveExtension(w)
    \/ BeginCreateAward(w) \/ CommitCreateAward(w)
    \/ BeginApproveAward(w) \/ ReadAward(w) \/ CommitApproveAward(w)

Next ==
    \E w \in Workers :
        Settling(w) \/ Closing(w) \/ Correcting(w) \/ Receipting(w) \/ Others(w)

Spec == Init /\ [][Next]_vars

(***************************************************************************)
(* Properties.                                                             *)
(***************************************************************************)
\* The rows, the Journey state and every handler's job have their types.
TypeOK ==
    /\ ledger \subseteq Entry
    /\ settlements \subseteq Settlement
    /\ receipts \in [DOMAIN receipts -> Receipt] /\ DOMAIN receipts \subseteq ledger
    /\ closed \subseteq Journeys
    /\ accrual \in [Journeys -> {"NONE", "PENDING", "READY"}]
    /\ extensions \subseteq Journeys
    /\ awards \subseteq Journeys
    /\ writes \in Nat
    /\ pc \in [Workers -> Steps]
    /\ job \in [Workers -> Job]

\* Money moves once per request id, however often the request is retried and
\* however the retries interleave: a settlement is the only one of its
\* request, its entries are exactly the amounts it records, and no settlement
\* entry lacks its settlement (CreateSettlementWithEntries).
SettlementsPostOnce ==
    /\ \A s, t \in settlements :
        s.journey = t.journey /\ s.request = t.request => s = t
    /\ \A s \in settlements, u \in Units :
        LET posted == {e \in ledger : /\ e.source = "JOURNEY_SETTLEMENT"
                                      /\ e.journey = s.journey
                                      /\ e.request = s.request
                                      /\ e.unit = u}
        IN  IF s.amount[u] = 0 THEN posted = {}
            ELSE \E e \in posted : posted = {e} /\ e.amount = s.amount[u]
    /\ \A e \in ledger : e.source = "JOURNEY_SETTLEMENT" =>
        HasRequest(e.journey, e.request)

\* Corrections cancel exactly what they correct: an entry is reversed at most
\* once, by an entry of the same Journey, unit and amount in the opposite
\* direction; a reversal is never reversed; and a replacement always comes
\* with the reversal of the entry it replaces (ReverseEntry, ReplaceEntry).
CorrectionsCancel ==
    /\ \A e \in ledger : e.correction = "REVERSAL" =>
        \E o \in ledger :
            /\ e.related = o.key
            /\ o.correction # "REVERSAL"
            /\ e.journey = o.journey /\ e.unit = o.unit /\ e.amount = o.amount
            /\ e.direction # o.direction
    /\ \A d, e \in ledger :
        /\ d.correction = "REVERSAL" /\ e.correction = "REVERSAL"
        /\ d.related = e.related
        => d = e
    /\ \A e \in ledger : e.correction = "REPLACEMENT" => HasReversal(e.related)

\* Exactly the debits and the final-settlement entries oblige a receipt, and
\* the receipt names the party that receives the value (AfterCreate).
ReceiptObligations ==
    /\ DOMAIN receipts = {e \in ledger :
        \/ e.direction = "DEBIT"
        \/ e.entryType = "FINAL_SETTLEMENT" /\ e.source = "JOURNEY_SETTLEMENT"}
    /\ \A e \in DOMAIN receipts :
        (receipts[e].acceptingParty = "TENANT") <=> (e.direction = "CREDIT")

\* A receipt is discharged only the way its kind prescribes: a final
\* settlement by the in-app acceptance of the designated party, a plain debit
\* by the signed paper and never by an acceptance (ReturnReceipt,
\* AcceptReceipt).
ReceiptsDischarged ==
    \A e \in DOMAIN receipts :
        LET r == receipts[e]
            final == e.entryType = "FINAL_SETTLEMENT"
                     /\ e.source = "JOURNEY_SETTLEMENT"
        IN  IF r.status = "RETURNED" /\ final
            THEN r.acceptedBy = r.acceptingParty
            ELSE r.acceptedBy = "nobody"

\* A discharged receipt stays discharged and keeps its acceptance, whatever is
\* printed, returned or accepted afterwards.
DischargeIsFinal ==
    [][\A e \in DOMAIN receipts : receipts[e].status = "RETURNED" =>
        receipts'[e] = receipts[e]]_vars

\* Whatever moved between the preview and the commit, closed_at is set only on
\* a Journey whose balance is zero in every unit at that moment, with no
\* extension request and no bonus award left undecided (the triggers).
ClosesOnlySettled ==
    [][\A j \in closed' \ closed :
        /\ \A u \in Units : Balance(j, u) = 0
        /\ ledger' = ledger
        /\ j \notin extensions \cup awards]_vars

\* A Journey is closed by exactly one CLOSE_JOURNEY settlement, and a closed
\* Journey has one, however many closures race (CloseJourneyWithAudit).
ClosedOnce ==
    \A j \in Journeys :
        LET audits == {s \in settlements :
                        s.type = "CloseJourney" /\ s.journey = j}
        IN  IF j \in closed THEN \E s \in audits : audits = {s} ELSE audits = {}

NewSettlements(types) ==
    {s \in settlements' \ settlements : s.type \in types}

\* A payout never takes a unit it pays out below zero: what
\* ErrPayoutExceedsAvailableBalance refuses.
PayoutsCovered ==
    [][\A s \in NewSettlements(PayoutOps), u \in Units :
        s.amount[u] > 0 => Balance(s.journey, u)' >= 0]_vars

\* A final payment leaves every unit it settles at exactly zero, and is never
\* posted to a closed Journey.
FinalPaymentsSettle ==
    [][\A s \in NewSettlements(FinalOps) :
        /\ s.journey \notin closed
        /\ \A u \in Units : s.amount[u] > 0 => Balance(s.journey, u)' = 0]_vars

\* A Journey is closed only once every receipt it obliges is discharged and no
\* accrual item of it is PENDING: the blockers the preview reports.
ClosesUnblocked ==
    [][\A j \in closed' \ closed :
        /\ accrual[j] # "PENDING"
        /\ \A e \in DOMAIN receipts :
            e.journey = j => receipts[e].status = "RETURNED"]_vars

\* Every final-settlement receipt of a Journey is accepted before it closes.
FinalReceiptsAcceptedBeforeClose ==
    [][\A j \in closed' \ closed : \A e \in DOMAIN receipts :
        e.journey = j /\ Final(receipts[e]) => receipts[e].acceptedBy # "nobody"]_vars

\* A closed Journey takes no new expense and no new accrual; corrections of
\* what was posted before are the exception.
ClosedTakesNoNewWork ==
    [][\A e \in ledger' \ ledger :
        e.source = "OTHER" => e.journey \notin closed]_vars

\* Whoever settles, corrects or posts from another component, and however
\* they overlap, the account's ledger is one that only grows and in which an
\* entry is undone at most once, exactly, and for good.
LedgerEntries ==
    {[id |-> e.key, account |-> <<e.journey, e.unit>>, value |-> Signed(e),
      cancels |-> IF e.correction = "REVERSAL" THEN e.related ELSE NoEntry]
        : e \in ledger}

Ledger == INSTANCE ImmutableLedger WITH entries <- LedgerEntries,
                                        Nothing <- NoEntry

LedgerIsImmutable == Ledger!Spec
=============================================================================
