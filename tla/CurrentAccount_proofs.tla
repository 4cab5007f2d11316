------------------------ MODULE CurrentAccount_proofs ------------------------
(***************************************************************************)
(* Theorems about CurrentAccount for every set of Journeys, units, request *)
(* ids and workers, every set of operations and every bound.               *)
(***************************************************************************)
EXTENDS CurrentAccount, TLAPS

(***************************************************************************)
(* Type correctness.                                                       *)
(***************************************************************************)

\* The hook's receipt is a receipt.
LEMMA NewReceiptType ==
    ASSUME NEW e \in Entry
    PROVE  NewReceipt(e) \in Receipt
BY DEF NewReceipt, Receipt, Purposes, Parties

\* Posting entries keeps the ledger, the receipts and the counter typed, and
\* every receipt on an entry of the ledger.
LEMMA PostType ==
    ASSUME TypeOK, NEW es \in SUBSET Entry, Post(es)
    PROVE  /\ ledger' \subseteq Entry
           /\ receipts' \in [DOMAIN receipts' -> Receipt]
           /\ DOMAIN receipts' \subseteq ledger'
           /\ writes' \in Nat
<1>1. ledger' \subseteq Entry /\ writes' \in Nat
  BY DEF TypeOK, Post
<1>2. DOMAIN receipts' = DOMAIN receipts \cup Obliged(es)
  BY DEF Post
<1>3. Obliged(es) \subseteq es
  BY DEF Obliged
<1>4. ASSUME NEW e \in DOMAIN receipts'
      PROVE  receipts'[e] \in Receipt
  <2>1. e \in Entry
    BY <1>2, <1>3 DEF TypeOK
  <2>2. receipts'[e] = IF e \in DOMAIN receipts THEN receipts[e] ELSE NewReceipt(e)
    BY <1>2 DEF Post
  <2>3. CASE e \in DOMAIN receipts
    BY <2>2, <2>3 DEF TypeOK
  <2>4. CASE e \notin DOMAIN receipts
    BY <2>1, <2>2, <2>4, NewReceiptType
  <2> QED BY <2>3, <2>4
<1>5. receipts' \in [DOMAIN receipts' -> Receipt]
  <2>1. receipts' = [e \in DOMAIN receipts' |-> receipts'[e]]
    BY <1>2 DEF Post
  <2> QED BY <2>1, <1>4
<1>6. DOMAIN receipts' \subseteq ledger'
  BY <1>2, <1>3 DEF TypeOK, Post
<1> QED BY <1>1, <1>5, <1>6

\* Moving on, with a job, keeps the workers typed.
LEMMA GotoType ==
    ASSUME pc \in [Workers -> Steps], job \in [Workers -> Job],
           NEW w \in Workers, NEW next \in Steps, NEW j \in Job,
           Goto(w, next, j)
    PROVE  pc' \in [Workers -> Steps] /\ job' \in [Workers -> Job]
BY DEF Goto

LEMMA FinishType ==
    ASSUME pc \in [Workers -> Steps], job \in [Workers -> Job],
           NEW w \in Workers, Finish(w)
    PROVE  pc' \in [Workers -> Steps] /\ job' \in [Workers -> Job]
<1>1. "idle" \in Steps /\ NoJob \in Job
  BY DEF Steps, Job
<1> QED BY <1>1, GotoType DEF Finish

\* A step that leaves the database alone only has to keep the workers typed.
LEMMA ReadStepType ==
    ASSUME TypeOK, UNCHANGED <<rows, journey, writes>>,
           pc' \in [Workers -> Steps], job' \in [Workers -> Job]
    PROVE  TypeOK'
BY DEF TypeOK, rows, journey

\* The entries a handler posts are entries.
LEMMA PostedEntryTypes ==
    ASSUME TypeOK
    PROVE  /\ \A s \in Settlement : s.type \in SettlementOps =>
                SettlementEntries(s) \subseteq Entry
           /\ \A o \in Entry : Reversal(o) \in Entry
           /\ \A c \in Job : c.op \in {"ReverseEntry", "ReplaceEntry"} =>
                CorrectionEntries(c) \subseteq Entry
           /\ \A j \in Journeys, u \in Units, d \in Directions,
                 a \in Nat \ {0}, t \in EntryTypes :
                OtherEntry(j, u, d, a, t) \in Entry
<1> writes \in Nat
  BY DEF TypeOK
<1>1. ASSUME NEW s \in Settlement, s.type \in SettlementOps, NEW u \in Units, s.amount[u] > 0
      PROVE  SettlementEntry(s, u) \in Entry
  <2>1. s.amount[u] \in Nat \ {0}
    BY <1>1 DEF Settlement, Amounts
  <2>2. s.journey \in Journeys /\ s.request \in RequestIds
    BY DEF Settlement
  <2> QED
    BY <2>1, <2>2 DEF SettlementEntry, Entry, EntryKey, Corrections, Directions,
       EntryTypes, SourceTypes
<1>2. ASSUME NEW s \in Settlement, s.type \in SettlementOps
      PROVE  SettlementEntries(s) \subseteq Entry
  BY <1>1, <1>2 DEF SettlementEntries
<1>3. ASSUME NEW o \in Entry, NEW k \in Corrections, NEW u \in Units,
             NEW d \in Directions, NEW a \in Nat \ {0}, NEW t \in EntryTypes
      PROVE  CorrectionEntry(o, k, u, d, a, t) \in Entry
  BY DEF CorrectionEntry, Entry, EntryKey, SourceTypes
<1>4. ASSUME NEW o \in Entry
      PROVE  Reversal(o) \in Entry
  <2>1. /\ o.unit \in Units /\ o.amount \in Nat \ {0} /\ o.entryType \in EntryTypes
        /\ Opposite(o.direction) \in Directions /\ "REVERSAL" \in Corrections
    BY DEF Entry, Opposite, Directions, Corrections
  <2> QED BY <2>1, <1>3 DEF Reversal
<1>5. ASSUME NEW c \in Job, c.op \in {"ReverseEntry", "ReplaceEntry"}
      PROVE  CorrectionEntries(c) \subseteq Entry
  <2>1. c.original \in Entry
    BY <1>5 DEF Job, NoJob, SettlementOps, PayoutOps, FinalOps
  <2>2. CASE c.op = "ReplaceEntry"
    <3>1. /\ c.unit \in Units /\ c.direction \in Directions /\ c.amount \in Nat \ {0}
          /\ c.entryType \in EntryTypes /\ "REPLACEMENT" \in Corrections
      BY <2>2 DEF Job, NoJob, SettlementOps, PayoutOps, FinalOps, EntryTypes, Corrections
    <3> QED BY <2>1, <3>1, <1>3, <1>4, <2>2 DEF CorrectionEntries
  <2>3. CASE c.op # "ReplaceEntry"
    BY <2>1, <2>3, <1>4 DEF CorrectionEntries
  <2> QED BY <2>2, <2>3
<1>6. ASSUME NEW j \in Journeys, NEW u \in Units, NEW d \in Directions,
             NEW a \in Nat \ {0}, NEW t \in EntryTypes
      PROVE  OtherEntry(j, u, d, a, t) \in Entry
  BY DEF OtherEntry, Entry, EntryKey, Corrections, SourceTypes
<1> QED BY <1>2, <1>4, <1>5, <1>6

LEMMA NoAmountType == NoAmount \in Amounts
BY DEF NoAmount, Amounts

LEMMA JobSorts ==
    /\ \A op \in SettlementOps \cup {"CloseJourney"}, j \in Journeys,
          r \in RequestIds, a \in Amounts :
        [op |-> op, journey |-> j, request |-> r, amount |-> a] \in Job
    /\ \A op \in {"ExtendJourney", "CreateJourneyBonusAward",
                  "ApproveJourneyBonusAward"}, j \in Journeys :
        [op |-> op, journey |-> j] \in Job
BY DEF Job

LEMMA TypeInit == Init => TypeOK
BY DEF Init, TypeOK, Steps, Job

LEMMA TypeSettling ==
    ASSUME TypeOK, NEW w \in Workers, Settling(w)
    PROVE  TypeOK'
<1> USE DEF TypeOK
<1>1. CASE BeginPartialPayout(w)
  <2>1. PICK j \in Journeys, r \in RequestIds, a \in [Units -> 0..MaxAmount] :
            Goto(w, "balances", [op |-> "PartialPayout", journey |-> j,
                                 request |-> r, amount |-> a])
    BY <1>1 DEF BeginPartialPayout
  <2>2. a \in Amounts
    BY CurrentAccountAssumption DEF Amounts
  <2>3. pc' \in [Workers -> Steps] /\ job' \in [Workers -> Job]
    BY <2>1, <2>2, JobSorts, GotoType DEF Steps, SettlementOps, PayoutOps
  <2> QED BY <1>1, <2>3, ReadStepType DEF BeginPartialPayout
<1>2. CASE BeginZeroGold(w)
  <2>1. pc' \in [Workers -> Steps] /\ job' \in [Workers -> Job]
    BY <1>2, NoAmountType, JobSorts, GotoType
    DEF BeginZeroGold, Steps, SettlementOps, PayoutOps
  <2> QED BY <1>2, <2>1, ReadStepType DEF BeginZeroGold
<1>3. CASE BeginFinalPayment(w)
  <2>1. pc' \in [Workers -> Steps] /\ job' \in [Workers -> Job]
    BY <1>3, NoAmountType, JobSorts, GotoType
    DEF BeginFinalPayment, Steps, SettlementOps
  <2> QED BY <1>3, <2>1, ReadStepType DEF BeginFinalPayment
<1>4. CASE ReadBalances(w)
  <2>1. ASSUME NEW a \in Amounts
        PROVE  [job[w] EXCEPT !.amount = a] \in Job
    BY <1>4 DEF ReadBalances, Job, NoJob, SettlementOps, PayoutOps, FinalOps
  <2>2. \/ \E a \in Amounts : Goto(w, "commit", [job[w] EXCEPT !.amount = a])
        \/ Finish(w)
    BY <1>4 DEF ReadBalances
  <2>3. pc' \in [Workers -> Steps] /\ job' \in [Workers -> Job]
    BY <2>1, <2>2, GotoType, FinishType DEF Steps
  <2> QED BY <1>4, <2>3, ReadStepType DEF ReadBalances
<1>5. CASE CommitSettlement(w)
  <2> DEFINE s == [journey |-> job[w].journey, request |-> job[w].request,
                   type |-> job[w].op, amount |-> job[w].amount]
  <2>1. s \in Settlement /\ s.type \in SettlementOps
    BY <1>5 DEF CommitSettlement, Job, NoJob, Settlement, SettlementOps,
       PayoutOps, FinalOps
  <2>2. SettlementEntries(s) \in SUBSET Entry
    BY <2>1, PostedEntryTypes
  <2>3. pc' \in [Workers -> Steps] /\ job' \in [Workers -> Job]
    BY <1>5, FinishType DEF CommitSettlement
  <2>4. CASE RequestIdFree(s.journey, s.request)
    <3>1. settlements' = settlements \cup {s} /\ Post(SettlementEntries(s))
      BY <1>5, <2>4 DEF CommitSettlement
    <3> QED BY <1>5, <2>1, <2>2, <2>3, <3>1, PostType DEF CommitSettlement, journey
  <2>5. CASE ~RequestIdFree(s.journey, s.request)
    BY <1>5, <2>3, <2>5 DEF CommitSettlement, rows, journey
  <2> QED BY <2>4, <2>5
<1> QED BY <1>1, <1>2, <1>3, <1>4, <1>5 DEF Settling

LEMMA TypeClosing ==
    ASSUME TypeOK, NEW w \in Workers, Closing(w)
    PROVE  TypeOK'
<1> USE DEF TypeOK
<1>1. CASE BeginCloseJourney(w)
  <2>1. pc' \in [Workers -> Steps] /\ job' \in [Workers -> Job]
    BY <1>1, NoAmountType, JobSorts, GotoType DEF BeginCloseJourney, Steps
  <2> QED BY <1>1, <2>1, ReadStepType DEF BeginCloseJourney
<1>2. ASSUME NEW at, NEW clear, NEW next \in Steps, Preview(w, at, clear, next)
      PROVE  TypeOK'
  <2>1. pc' \in [Workers -> Steps] /\ job' \in [Workers -> Job]
    BY <1>2, GotoType, FinishType DEF Preview
  <2> QED BY <1>2, <2>1, ReadStepType DEF Preview
<1>3. CASE PreviewBalances(w) \/ PreviewAccruals(w) \/ PreviewReceipts(w)
  BY <1>2, <1>3 DEF PreviewBalances, PreviewAccruals, PreviewReceipts, Steps
<1>4. CASE CommitCloseJourney(w)
  <2>1. /\ job[w].journey \in Journeys
        /\ [journey |-> job[w].journey, request |-> job[w].request,
            type |-> "CloseJourney", amount |-> NoAmount] \in Settlement
    BY <1>4, NoAmountType DEF CommitCloseJourney, Job, NoJob, Settlement,
       SettlementOps, PayoutOps, FinalOps
  <2>2. pc' \in [Workers -> Steps] /\ job' \in [Workers -> Job]
    BY <1>4, FinishType DEF CommitCloseJourney
  <2> QED BY <1>4, <2>1, <2>2 DEF CommitCloseJourney
<1> QED BY <1>1, <1>3, <1>4 DEF Closing

LEMMA TypeCorrecting ==
    ASSUME TypeOK, NEW w \in Workers, Correcting(w)
    PROVE  TypeOK'
<1> USE DEF TypeOK
<1>1. CASE BeginReverseEntry(w)
  <2>1. pc' \in [Workers -> Steps] /\ job' \in [Workers -> Job]
    <3>1. PICK e \in ledger :
            Goto(w, "commit", [op |-> "ReverseEntry", original |-> e])
      BY <1>1 DEF BeginReverseEntry
    <3>2. [op |-> "ReverseEntry", original |-> e] \in Job
      BY DEF Job
    <3> QED BY <3>1, <3>2, GotoType DEF Steps
  <2> QED BY <1>1, <2>1, ReadStepType DEF BeginReverseEntry
<1>2. CASE BeginReplaceEntry(w)
  <2>1. pc' \in [Workers -> Steps] /\ job' \in [Workers -> Job]
    <3>1. PICK e \in ledger, u \in Units, d \in Directions, a \in 1..MaxAmount,
               t \in ReplacementTypes :
            Goto(w, "commit", [op |-> "ReplaceEntry", original |-> e, unit |-> u,
                               direction |-> d, amount |-> a, entryType |-> t])
      BY <1>2 DEF BeginReplaceEntry
    <3>2. [op |-> "ReplaceEntry", original |-> e, unit |-> u, direction |-> d,
           amount |-> a, entryType |-> t] \in Job
      BY CurrentAccountAssumption DEF Job
    <3> QED BY <3>1, <3>2, GotoType DEF Steps
  <2> QED BY <1>2, <2>1, ReadStepType DEF BeginReplaceEntry
<1>3. CASE CommitCorrection(w)
  <2>1. pc' \in [Workers -> Steps] /\ job' \in [Workers -> Job]
    BY <1>3, FinishType DEF CommitCorrection
  <2>2. CorrectionEntries(job[w]) \in SUBSET Entry
    BY <1>3, PostedEntryTypes DEF CommitCorrection
  <2> QED BY <1>3, <2>1, <2>2, PostType DEF CommitCorrection, journey
<1> QED BY <1>1, <1>2, <1>3 DEF Correcting

LEMMA TypeReceipting ==
    ASSUME TypeOK, NEW w \in Workers, Receipting(w)
    PROVE  TypeOK'
<1> SUFFICES /\ receipts' \in [DOMAIN receipts' -> Receipt]
             /\ DOMAIN receipts' \subseteq ledger
             /\ UNCHANGED <<ledger, settlements, journey, writes, pc, job>>
  BY DEF TypeOK, journey
<1>1. CASE PrintReceipt(w)
  BY <1>1 DEF PrintReceipt, AfterPrint, Receipt, TypeOK
<1>2. CASE ReturnReceipt(w)
  BY <1>2 DEF ReturnReceipt, Receipt, TypeOK
<1>3. CASE AcceptReceipt(w)
  BY <1>3 DEF AcceptReceipt, Receipt, TypeOK
<1> QED BY <1>1, <1>2, <1>3 DEF Receipting

LEMMA TypeOthers ==
    ASSUME TypeOK, NEW w \in Workers, Others(w)
    PROVE  TypeOK'
<1> USE DEF TypeOK
<1> DEFINE Credit(j, u, a) == {OtherEntry(j, u, "CREDIT", a, "EARNING_CREDIT")}
<1>a. \A j \in Journeys, u \in Units, a \in 1..MaxAmount :
        Credit(j, u, a) \in SUBSET Entry
  BY PostedEntryTypes, CurrentAccountAssumption DEF Directions, EntryTypes
<1>b. ASSUME Finish(w)
      PROVE  pc' \in [Workers -> Steps] /\ job' \in [Workers -> Job]
  BY <1>b, FinishType
<1>d. ASSUME NEW op \in {"CreateExpense", "PostRun"}, NEW j \in Journeys, NEW u \in Units,
             NEW a \in 1..MaxAmount,
             Goto(w, "commit", [op |-> op, journey |-> j, unit |-> u, amount |-> a]),
             UNCHANGED <<rows, journey, writes>>
      PROVE  TypeOK'
  <2>1. [op |-> op, journey |-> j, unit |-> u, amount |-> a] \in Job
    BY CurrentAccountAssumption DEF Job
  <2> QED BY <1>d, <2>1, GotoType, ReadStepType DEF Steps
<1>e. ASSUME job[w].op \in {"CreateExpense", "PostRun"}, NEW d \in Directions,
             NEW t \in EntryTypes
      PROVE  /\ job[w].journey \in Journeys
             /\ {OtherEntry(job[w].journey, job[w].unit, d, job[w].amount, t)} \in SUBSET Entry
  <2>1. /\ job[w].journey \in Journeys /\ job[w].unit \in Units
        /\ job[w].amount \in Nat \ {0}
    BY <1>e DEF Job, NoJob, SettlementOps, PayoutOps, FinalOps
  <2> QED BY <2>1, PostedEntryTypes
<1>1. CASE BeginCreateExpense(w)
  BY <1>1, <1>d DEF BeginCreateExpense
<1>2. CASE CommitCreateExpense(w)
  <2>1. {OtherEntry(job[w].journey, job[w].unit, "DEBIT", job[w].amount,
                    "EXPENSE_DEDUCTION")} \in SUBSET Entry
    BY <1>2, <1>e DEF CommitCreateExpense, Directions, EntryTypes
  <2> QED BY <1>2, <1>b, <2>1, PostType DEF CommitCreateExpense, journey
<1>3. CASE CalculateAccruals(w)
  BY <1>3 DEF CalculateAccruals, rows
<1>12. CASE BeginPostRun(w)
  BY <1>12, <1>d DEF BeginPostRun
<1>4. CASE CommitPostRun(w)
  <2>1. /\ job[w].journey \in Journeys
        /\ {OtherEntry(job[w].journey, job[w].unit, "CREDIT", job[w].amount,
                       "EARNING_CREDIT")} \in SUBSET Entry
    BY <1>4, <1>e DEF CommitPostRun, Directions, EntryTypes
  <2> QED BY <1>4, <1>b, <2>1, PostType DEF CommitPostRun
<1>5. ASSUME NEW op \in {"ExtendJourney", "CreateJourneyBonusAward",
                         "ApproveJourneyBonusAward"},
             NEW next \in Steps, BeginOnOpenJourney(w, op, next)
      PROVE  TypeOK'
  <2>1. pc' \in [Workers -> Steps] /\ job' \in [Workers -> Job]
    BY <1>5, GotoType, JobSorts DEF BeginOnOpenJourney
  <2> QED BY <1>5, <2>1, ReadStepType DEF BeginOnOpenJourney
<1>6. CASE BeginExtendJourney(w) \/ BeginCreateAward(w) \/ BeginApproveAward(w)
  BY <1>5, <1>6 DEF BeginExtendJourney, BeginCreateAward, BeginApproveAward, Steps
<1>c. ASSUME job[w].op \in {"ExtendJourney", "CreateJourneyBonusAward",
                            "ApproveJourneyBonusAward"}
      PROVE  job[w].journey \in Journeys
  BY <1>c DEF Job, NoJob, SettlementOps, PayoutOps, FinalOps
<1>7. CASE CommitExtendJourney(w)
  BY <1>7, <1>b, <1>c DEF CommitExtendJourney, rows
<1>8. CASE ResolveExtension(w)
  BY <1>8 DEF ResolveExtension, rows
<1>9. CASE CommitCreateAward(w)
  BY <1>9, <1>b, <1>c DEF CommitCreateAward, rows
<1>10. CASE ReadAward(w)
  <2>1. pc' \in [Workers -> Steps] /\ job' \in [Workers -> Job]
    BY <1>10, <1>b, GotoType DEF ReadAward, Steps
  <2> QED BY <1>10, <2>1, ReadStepType DEF ReadAward
<1>11. CASE CommitApproveAward(w)
  <2>1. CASE job[w].journey \in awards
    <3>1. PICK u \in Units, a \in 1..MaxAmount : Post(Credit(job[w].journey, u, a))
      BY <1>11, <2>1 DEF CommitApproveAward
    <3>2. job[w].journey \in Journeys
      BY <1>11, <1>c DEF CommitApproveAward
    <3> QED BY <1>11, <1>a, <1>b, <2>1, <3>1, <3>2, PostType DEF CommitApproveAward
  <2>2. CASE job[w].journey \notin awards
    BY <1>11, <1>b, <2>2 DEF CommitApproveAward
  <2> QED BY <2>1, <2>2
<1> QED
  BY <1>1, <1>2, <1>3, <1>4, <1>6, <1>7, <1>8, <1>9, <1>10, <1>11,
     <1>12
  DEF Others

LEMMA TypeStep == TypeOK /\ [Next]_vars => TypeOK'
<1> SUFFICES ASSUME TypeOK, [Next]_vars PROVE TypeOK'
  OBVIOUS
<1>1. CASE Next
  BY <1>1, TypeSettling, TypeClosing, TypeCorrecting, TypeReceipting, TypeOthers
  DEF Next
<1>2. CASE UNCHANGED vars
  BY <1>2 DEF TypeOK, vars
<1> QED BY <1>1, <1>2

\* Rows, Journey state and handlers' jobs stay typed, whatever the requests
\* and their interleaving (the CHECK constraints of the schema).
THEOREM TypeCorrect == Spec => []TypeOK
BY TypeInit, TypeStep, PTL DEF Spec

(***************************************************************************)
(* A correction in progress is of an entry that is in the ledger and is    *)
(* not a reversal.  Whether it has been reversed meanwhile is not known.   *)
(***************************************************************************)
CorrectsLedger ==
    \A w \in Workers : job[w].op \in {"ReverseEntry", "ReplaceEntry"} =>
        job[w].original \in ledger /\ job[w].original.correction # "REVERSAL"

\* No step takes a row out of the ledger.
LEMMA LedgerGrows ==
    ASSUME [Next]_vars
    PROVE  ledger \subseteq ledger'
<1>1. ASSUME NEW w \in Workers, Settling(w) \/ Closing(w)
      PROVE  ledger \subseteq ledger'
  BY <1>1 DEF Settling, Closing, BeginPartialPayout, BeginZeroGold, BeginFinalPayment,
     ReadBalances, CommitSettlement, BeginCloseJourney, PreviewBalances,
     PreviewAccruals, PreviewReceipts, Preview, CommitCloseJourney, Post, rows
<1>2. ASSUME NEW w \in Workers, Correcting(w) \/ Receipting(w)
      PROVE  ledger \subseteq ledger'
  BY <1>2 DEF Correcting, Receipting, BeginReverseEntry, BeginReplaceEntry,
     CommitCorrection, PrintReceipt, ReturnReceipt, AcceptReceipt, Post, rows
<1>3. ASSUME NEW w \in Workers, Others(w)
      PROVE  ledger \subseteq ledger'
  BY <1>3 DEF Others, BeginCreateExpense, CommitCreateExpense, CalculateAccruals,
     BeginPostRun, CommitPostRun, BeginExtendJourney, CommitExtendJourney,
     ResolveExtension, BeginCreateAward, CommitCreateAward, BeginApproveAward, ReadAward,
     CommitApproveAward, BeginOnOpenJourney, Post, rows
<1> QED BY <1>1, <1>2, <1>3 DEF Next, vars

\* A handler takes up a correction only in its two Begin steps.
LEMMA CorrectsLedgerStep ==
    ASSUME TypeOK, CorrectsLedger, [Next]_vars
    PROVE  CorrectsLedger'
<1> SUFFICES ASSUME NEW v \in Workers, job'[v].op \in {"ReverseEntry", "ReplaceEntry"}
             PROVE  job'[v].original \in ledger' /\ job'[v].original.correction # "REVERSAL"
  BY DEF CorrectsLedger
<1>1. CASE job'[v] = job[v]
  BY <1>1, LedgerGrows DEF CorrectsLedger
<1>2. CASE job'[v] # job[v]
  <2>1. job \in [Workers -> Job] /\ pc \in [Workers -> Steps]
    BY DEF TypeOK
  <2>2. ASSUME NEW w \in Workers, NEW next, NEW j, Goto(w, next, j),
               j.op \notin {"ReverseEntry", "ReplaceEntry"}
        PROVE  FALSE
    BY <1>2, <2>1, <2>2 DEF Goto
  <2>3. ASSUME NEW w \in Workers, Finish(w)
        PROVE  FALSE
    BY <2>2, <2>3 DEF Finish, NoJob
  <2>4. ASSUME NEW w \in Workers, Settling(w)
        PROVE  FALSE
    <3>1. CASE ReadBalances(w)
      <4>1. job[w].op \in SettlementOps /\ job[w] \in Job
        BY <3>1, <2>1 DEF ReadBalances
      <4>2. \A a : [job[w] EXCEPT !.amount = a].op = job[w].op
        BY <4>1 DEF Job, NoJob, SettlementOps, PayoutOps, FinalOps
      <4> QED BY <2>2, <2>3, <3>1, <4>1, <4>2
          DEF ReadBalances, SettlementOps, PayoutOps, FinalOps
    <3> QED BY <2>2, <2>3, <2>4, <3>1
        DEF Settling, BeginPartialPayout, BeginZeroGold, BeginFinalPayment,
            CommitSettlement, FinalOps
  <2>5. ASSUME NEW w \in Workers, Closing(w)
        PROVE  FALSE
    BY <2>2, <2>3, <2>5
    DEF Closing, BeginCloseJourney, PreviewBalances, PreviewAccruals,
        PreviewReceipts, Preview, CommitCloseJourney
  <2>6. ASSUME NEW w \in Workers, Others(w)
        PROVE  FALSE
    <3>1. ASSUME NEW op \in {"ExtendJourney", "CreateJourneyBonusAward",
                             "ApproveJourneyBonusAward"},
                 NEW next, BeginOnOpenJourney(w, op, next)
          PROVE  FALSE
      BY <2>2, <3>1 DEF BeginOnOpenJourney
    <3>2. CASE BeginExtendJourney(w) \/ BeginCreateAward(w) \/ BeginApproveAward(w)
      BY <3>1, <3>2 DEF BeginExtendJourney, BeginCreateAward, BeginApproveAward
    <3>3. CASE BeginCreateExpense(w) \/ BeginPostRun(w)
      BY <2>2, <3>3 DEF BeginCreateExpense, BeginPostRun
    <3>4. CASE CalculateAccruals(w) \/ ResolveExtension(w)
      BY <1>2, <3>4 DEF CalculateAccruals, ResolveExtension
    <3>5. CASE ReadAward(w)
      BY <1>2, <2>1, <2>3, <3>5 DEF ReadAward, Goto
    <3>6. CASE \/ CommitCreateExpense(w) \/ CommitPostRun(w) \/ CommitExtendJourney(w)
               \/ CommitCreateAward(w) \/ CommitApproveAward(w)
      BY <2>3, <3>6 DEF CommitCreateExpense, CommitPostRun, CommitExtendJourney,
         CommitCreateAward, CommitApproveAward
    <3> QED BY <2>6, <3>2, <3>3, <3>4, <3>5, <3>6 DEF Others
  <2>7. ASSUME NEW w \in Workers, Correcting(w)
        PROVE  job'[v].original \in ledger' /\ job'[v].original.correction # "REVERSAL"
    <3>1. CASE BeginReverseEntry(w)
      <4>1. PICK e \in ledger :
              /\ Correctable(e)
              /\ Goto(w, "commit", [op |-> "ReverseEntry", original |-> e])
        BY <3>1 DEF BeginReverseEntry
      <4> QED BY <1>2, <2>1, <4>1, LedgerGrows DEF Goto, Correctable
    <3>2. CASE BeginReplaceEntry(w)
      <4>1. PICK e \in ledger, u \in Units, d \in Directions, a \in 1..MaxAmount,
                 t \in ReplacementTypes :
              /\ Correctable(e)
              /\ Goto(w, "commit", [op |-> "ReplaceEntry", original |-> e, unit |-> u,
                                    direction |-> d, amount |-> a, entryType |-> t])
        BY <3>2 DEF BeginReplaceEntry
      <4> QED BY <1>2, <2>1, <4>1, LedgerGrows DEF Goto, Correctable
    <3>3. CASE CommitCorrection(w)
      BY <2>3, <3>3 DEF CommitCorrection
    <3> QED BY <2>7, <3>1, <3>2, <3>3 DEF Correcting
  <2>8. ASSUME NEW w \in Workers, Receipting(w)
        PROVE  FALSE
    BY <1>2, <2>8 DEF Receipting, PrintReceipt, ReturnReceipt, AcceptReceipt
  <2> QED BY <1>2, <2>4, <2>5, <2>6, <2>7, <2>8 DEF Next, vars
<1> QED BY <1>1, <1>2

(***************************************************************************)
(* The kinds of step, by what they do to the rows and to closed_at.        *)
(***************************************************************************)
\* Another component posts one entry of its own.
PostsOther ==
    \E e \in Entry :
        /\ e.source = "OTHER" /\ e.correction = "ORIGINAL"
        /\ e.key = <<writes, e.unit, "ORIGINAL">>
        /\ e.entryType # "FINAL_SETTLEMENT"
        /\ Post({e})
        /\ UNCHANGED <<settlements, closed>>

LEMMA OtherEntryPosts ==
    ASSUME TypeOK, NEW j \in Journeys, NEW u \in Units, NEW d \in Directions,
           NEW a \in Nat \ {0}, NEW t \in {"EXPENSE_DEDUCTION", "EARNING_CREDIT"},
           Post({OtherEntry(j, u, d, a, t)}), UNCHANGED <<settlements, closed>>
    PROVE  PostsOther
<1>1. OtherEntry(j, u, d, a, t) \in Entry
  BY PostedEntryTypes DEF EntryTypes
<1> QED BY <1>1 DEF PostsOther, OtherEntry

LEMMA StepKinds ==
    ASSUME TypeOK, [Next]_vars
    PROVE  \/ UNCHANGED <<ledger, receipts, settlements, closed, writes>>
           \/ \E w \in Workers : \/ CommitSettlement(w) \/ CommitCloseJourney(w)
                                 \/ CommitCorrection(w) \/ Receipting(w)
           \/ PostsOther
<1> DEFINE Quiet == UNCHANGED <<ledger, receipts, settlements, closed, writes>>
<1>a. "CREDIT" \in Directions /\ 1..MaxAmount \subseteq Nat \ {0}
  BY CurrentAccountAssumption DEF Directions
<1>1. ASSUME NEW w \in Workers, Settling(w)
      PROVE  Quiet \/ CommitSettlement(w)
  BY <1>1 DEF Settling, BeginPartialPayout, BeginZeroGold, BeginFinalPayment,
     ReadBalances, rows, journey
<1>2. ASSUME NEW w \in Workers, Closing(w)
      PROVE  Quiet \/ CommitCloseJourney(w)
  BY <1>2 DEF Closing, BeginCloseJourney, PreviewBalances, PreviewAccruals,
     PreviewReceipts, Preview, rows, journey
<1>3. ASSUME NEW w \in Workers, Correcting(w)
      PROVE  Quiet \/ CommitCorrection(w)
  BY <1>3 DEF Correcting, BeginReverseEntry, BeginReplaceEntry, rows, journey
<1>4. ASSUME NEW w \in Workers, Others(w)
      PROVE  Quiet \/ PostsOther
  <2>1. CASE CommitCreateExpense(w) \/ CommitPostRun(w)
    <3>1. job[w] \in Job /\ job[w].op \in {"CreateExpense", "PostRun"}
      BY <2>1 DEF CommitCreateExpense, CommitPostRun, TypeOK
    <3>2. /\ job[w].journey \in Journeys /\ job[w].unit \in Units
          /\ job[w].amount \in Nat \ {0}
      BY <3>1 DEF Job, NoJob, SettlementOps, PayoutOps, FinalOps
    <3> QED BY <2>1, <3>2, OtherEntryPosts
        DEF CommitCreateExpense, CommitPostRun, journey, Directions
  <2>3. CASE CommitApproveAward(w)
    <3>1. job[w] \in Job /\ job[w].op = "ApproveJourneyBonusAward"
      BY <2>3 DEF CommitApproveAward, TypeOK
    <3>2. job[w].journey \in Journeys
      BY <3>1 DEF Job, NoJob, SettlementOps, PayoutOps, FinalOps
    <3>3. UNCHANGED <<settlements, closed>>
      BY <2>3 DEF CommitApproveAward
    <3>4. CASE job[w].journey \in awards
      <4>1. PICK u \in Units, a \in 1..MaxAmount :
              Post({OtherEntry(job[w].journey, u, "CREDIT", a, "EARNING_CREDIT")})
        BY <2>3, <3>4 DEF CommitApproveAward
      <4> QED BY <3>2, <3>3, <4>1, <1>a, OtherEntryPosts
    <3>5. CASE job[w].journey \notin awards
      BY <2>3, <3>5 DEF CommitApproveAward
    <3> QED BY <3>4, <3>5
  <2>4. CASE \/ BeginCreateExpense(w) \/ CalculateAccruals(w) \/ BeginPostRun(w)
             \/ BeginExtendJourney(w) \/ CommitExtendJourney(w) \/ ResolveExtension(w)
             \/ BeginCreateAward(w) \/ CommitCreateAward(w)
             \/ BeginApproveAward(w) \/ ReadAward(w)
    BY <2>4 DEF BeginCreateExpense, CalculateAccruals, BeginPostRun, BeginExtendJourney,
       CommitExtendJourney, ResolveExtension, BeginCreateAward, CommitCreateAward,
       BeginApproveAward, ReadAward, BeginOnOpenJourney, rows, journey
  <2> QED BY <1>4, <2>1, <2>3, <2>4 DEF Others
<1>5. CASE UNCHANGED vars
  BY <1>5 DEF vars
<1> QED BY <1>1, <1>2, <1>3, <1>4, <1>5 DEF Next

(***************************************************************************)
(* Closure.                                                                *)
(***************************************************************************)
\* closed_at is set only by CommitCloseJourney, and only when the triggers
\* and the update's WHERE let it.
LEMMA ClosedChanges ==
    ASSUME TypeOK, [Next]_vars, closed' # closed
    PROVE  \E w \in Workers :
            /\ StillOpen(job[w].journey) /\ MayReceiveClosedAt(job[w].journey)
            /\ closed' = closed \cup {job[w].journey}
            /\ ledger' = ledger
<1>1. PICK w \in Workers : CommitCloseJourney(w)
  BY StepKinds DEF PostsOther, CommitSettlement, CommitCorrection, Receipting,
     PrintReceipt, ReturnReceipt, AcceptReceipt, journey
<1> QED BY <1>1 DEF CommitCloseJourney

\* A Journey closes only while settled, whatever happened since the preview.
THEOREM ClosuresSettled == Spec => ClosesOnlySettled
<1>1. TypeOK /\ [Next]_vars =>
        [\A j \in closed' \ closed :
            /\ \A u \in Units : Balance(j, u) = 0
            /\ ledger' = ledger
            /\ j \notin extensions \cup awards]_vars
  BY ClosedChanges DEF MayReceiveClosedAt, ZeroBalance
<1> QED BY <1>1, TypeCorrect, PTL DEF Spec, ClosesOnlySettled

LEMMA ClosedOnceInit == Init => ClosedOnce
BY DEF Init, ClosedOnce

LEMMA ClosedOnceStep ==
    ASSUME TypeOK, ClosedOnce, [Next]_vars
    PROVE  ClosedOnce'
<1>1. CASE UNCHANGED <<settlements, closed>>
  BY <1>1 DEF ClosedOnce
<1>2. ASSUME NEW w \in Workers, CommitSettlement(w)
      PROVE  ClosedOnce'
  <2>1. /\ closed' = closed
        /\ \A s \in settlements' \ settlements : s.type # "CloseJourney"
        /\ settlements \subseteq settlements'
    BY <1>2 DEF CommitSettlement, journey, SettlementOps, PayoutOps, FinalOps, rows
  <2> QED BY <2>1 DEF ClosedOnce
<1>3. ASSUME NEW w \in Workers, CommitCloseJourney(w)
      PROVE  ClosedOnce'
  <2>1. CASE UNCHANGED <<settlements, closed>>
    BY <1>1, <2>1
  <2>2. CASE ~UNCHANGED <<settlements, closed>>
    <3> DEFINE s == [journey |-> job[w].journey, request |-> job[w].request,
                     type |-> "CloseJourney", amount |-> NoAmount]
               Audits(j) == {t \in settlements : t.type = "CloseJourney" /\ t.journey = j}
    <3>1. /\ s.journey \notin closed
          /\ closed' = closed \cup {s.journey}
          /\ settlements' = settlements \cup {s}
      BY <1>3, <2>2 DEF CommitCloseJourney, StillOpen
    <3>2. ASSUME NEW j \in Journeys
          PROVE  IF j \in closed' THEN \E a \in Audits(j)' : Audits(j)' = {a}
                 ELSE Audits(j)' = {}
      <4>1. IF j \in closed THEN \E a \in Audits(j) : Audits(j) = {a}
            ELSE Audits(j) = {}
        BY DEF ClosedOnce
      <4>2. CASE j = s.journey
        <5>1. Audits(j)' = Audits(j) \cup {s}
          BY <3>1, <4>2
        <5> QED BY <3>1, <4>1, <4>2, <5>1
      <4>3. CASE j # s.journey
        <5>1. Audits(j)' = Audits(j)
          BY <3>1, <4>3
        <5> QED BY <3>1, <4>1, <4>3, <5>1
      <4> QED BY <4>2, <4>3
    <3> QED BY <3>2 DEF ClosedOnce
  <2> QED BY <2>1, <2>2
<1>4. ASSUME NEW w \in Workers, CommitCorrection(w) \/ Receipting(w)
      PROVE  ClosedOnce'
  BY <1>1, <1>4 DEF CommitCorrection, Receipting, PrintReceipt, ReturnReceipt,
     AcceptReceipt, journey
<1>5. CASE PostsOther
  BY <1>1, <1>5 DEF PostsOther
<1> QED BY <1>1, <1>2, <1>3, <1>4, <1>5, StepKinds

\* Every closed Journey has its one CLOSE_JOURNEY settlement.
THEOREM ClosedExactlyOnce == Spec => []ClosedOnce
<1>1. TypeOK /\ ClosedOnce /\ [Next]_vars => ClosedOnce'
  BY ClosedOnceStep
<1> QED BY <1>1, ClosedOnceInit, TypeCorrect, PTL DEF Spec

(***************************************************************************)
(* Corrections.                                                            *)
(***************************************************************************)
LEMMA CorrectionsInit == Init => CorrectsLedger /\ CorrectionsCancel
BY DEF Init, CorrectsLedger, CorrectionsCancel, NoJob

\* Posting entries that are neither reversals nor replacements disturbs no
\* correction.
LEMMA OriginalsPosted ==
    ASSUME CorrectionsCancel, NEW es, ledger' = ledger \cup es,
           \A e \in es : e.correction = "ORIGINAL"
    PROVE  CorrectionsCancel'
BY DEF CorrectionsCancel, HasReversal

LEMMA CorrectionsCancelStep ==
    ASSUME TypeOK, CorrectsLedger, CorrectionsCancel, [Next]_vars
    PROVE  CorrectionsCancel'
<1>1. ASSUME ledger' = ledger
      PROVE  CorrectionsCancel'
  BY <1>1 DEF CorrectionsCancel, HasReversal
<1>2. ASSUME NEW w \in Workers, CommitSettlement(w)
      PROVE  CorrectionsCancel'
  <2>1. \/ ledger' = ledger
        \/ \E s : ledger' = ledger \cup SettlementEntries(s)
    BY <1>2 DEF CommitSettlement, Post, rows
  <2>2. \A s : \A e \in SettlementEntries(s) : e.correction = "ORIGINAL"
    BY DEF SettlementEntries, SettlementEntry
  <2> QED BY <1>1, <2>1, <2>2, OriginalsPosted
<1>3. CASE PostsOther
  BY <1>3, OriginalsPosted DEF PostsOther, Post
<1>4. ASSUME NEW w \in Workers, CommitCorrection(w)
      PROVE  CorrectionsCancel'
  <2> DEFINE c == job[w]
             o == job[w].original
             new == CorrectionEntries(c)
  <2>1. CASE ~ReversalFree(o.key)
    BY <1>1, <1>4, <2>1 DEF CommitCorrection
  <2>2. CASE ReversalFree(o.key)
    <3>1. o \in ledger /\ o.correction # "REVERSAL" /\ o \in Entry
      BY <1>4 DEF CommitCorrection, CorrectsLedger, TypeOK
    <3>2. ledger' = ledger \cup new
      BY <1>4, <2>2 DEF CommitCorrection, Post
    <3>3. Reversal(o) \in new /\ Reversal(o).correction = "REVERSAL"
      BY DEF CorrectionEntries, Reversal, CorrectionEntry
    <3>4. \A e \in new : e.correction = "REVERSAL" => e = Reversal(o)
      BY DEF CorrectionEntries, CorrectionEntry
    <3>5. \A e \in new : e.related = o.key
      BY DEF CorrectionEntries, Reversal, CorrectionEntry
    <3>6. /\ Reversal(o).journey = o.journey /\ Reversal(o).unit = o.unit
          /\ Reversal(o).amount = o.amount
          /\ Reversal(o).direction # o.direction
      BY <3>1 DEF Reversal, CorrectionEntry, Opposite, Entry, Directions
    <3>7. \A e \in ledger : e.correction = "REVERSAL" => e.related # o.key
      BY <2>2 DEF ReversalFree, HasReversal
    <3>8. ASSUME NEW e \in ledger', e.correction = "REVERSAL"
          PROVE  \E x \in ledger' :
                    /\ e.related = x.key /\ x.correction # "REVERSAL"
                    /\ e.journey = x.journey /\ e.unit = x.unit
                    /\ e.amount = x.amount /\ e.direction # x.direction
      <4>1. CASE e \in ledger
        BY <3>2, <3>8, <4>1 DEF CorrectionsCancel
      <4>2. CASE e \in new
        <5>1. e = Reversal(o)
          BY <3>4, <3>8, <4>2
        <5>2. o \in ledger' /\ e.related = o.key
          BY <3>1, <3>2, <3>5, <4>2
        <5> QED BY <3>1, <3>6, <5>1, <5>2
      <4> QED BY <3>2, <4>1, <4>2
    <3>9. ASSUME NEW d \in ledger', NEW e \in ledger',
                 d.correction = "REVERSAL", e.correction = "REVERSAL",
                 d.related = e.related
          PROVE  d = e
      <4>1. CASE d \in ledger /\ e \in ledger
        BY <3>9, <4>1 DEF CorrectionsCancel
      <4>2. CASE d \in new \/ e \in new
        BY <3>2, <3>4, <3>5, <3>7, <3>9, <4>2
      <4> QED BY <3>2, <4>1, <4>2
    <3>10. ASSUME NEW e \in ledger', e.correction = "REPLACEMENT"
           PROVE  HasReversal(e.related)'
      <4>1. CASE e \in ledger
        BY <3>2, <3>10, <4>1 DEF CorrectionsCancel, HasReversal
      <4>2. CASE e \in new
        <5>1. Reversal(o) \in ledger' /\ Reversal(o).related = e.related
          BY <3>2, <3>3, <3>5, <4>2
        <5> QED BY <3>3, <5>1 DEF HasReversal
      <4> QED BY <3>2, <4>1, <4>2
    <3> QED BY <3>8, <3>9, <3>10 DEF CorrectionsCancel
  <2> QED BY <2>1, <2>2
<1>5. ASSUME NEW w \in Workers, CommitCloseJourney(w) \/ Receipting(w)
      PROVE  CorrectionsCancel'
  BY <1>1, <1>5 DEF CommitCloseJourney, Receipting, PrintReceipt, ReturnReceipt,
     AcceptReceipt
<1> QED BY <1>1, <1>2, <1>3, <1>4, <1>5, StepKinds

\* However corrections race, each cancels one entry, once, exactly.
THEOREM CorrectionsHold == Spec => []CorrectionsCancel
<1>1. TypeOK /\ CorrectsLedger /\ CorrectionsCancel /\ [Next]_vars
      => CorrectsLedger' /\ CorrectionsCancel'
  BY CorrectsLedgerStep, CorrectionsCancelStep
<1> QED BY <1>1, CorrectionsInit, TypeCorrect, PTL DEF Spec

(***************************************************************************)
(* Settlements.                                                            *)
(***************************************************************************)
Posted(s, u) ==
    {e \in ledger : /\ e.source = "JOURNEY_SETTLEMENT" /\ e.journey = s.journey
                    /\ e.request = s.request /\ e.unit = u}

LEMMA SettlementsInit == Init => SettlementsPostOnce
BY DEF Init, SettlementsPostOnce

\* Entries of another source disturb no settlement.
LEMMA UnsettlingEntries ==
    ASSUME SettlementsPostOnce, NEW es, ledger' = ledger \cup es,
           \A e \in es : e.source # "JOURNEY_SETTLEMENT",
           settlements' = settlements
    PROVE  SettlementsPostOnce'
<1>1. ASSUME NEW s, NEW u
      PROVE  Posted(s, u)' = Posted(s, u)
  BY DEF Posted
<1>2. \A e \in ledger' : e.source = "JOURNEY_SETTLEMENT" =>
        HasRequest(e.journey, e.request)'
  BY DEF SettlementsPostOnce, HasRequest
<1> QED BY <1>1, <1>2 DEF SettlementsPostOnce, Posted

\* A settlement of a fresh request, with one entry of each unit it moves.
LEMMA SettlementPosted ==
    ASSUME SettlementsPostOnce, NEW s \in Settlement,
           RequestIdFree(s.journey, s.request),
           settlements' = settlements \cup {s},
           NEW moved, \A u \in Units : u \in moved <=> s.amount[u] # 0,
           ledger' = ledger \cup {SettlementEntry(s, u) : u \in Units \cap moved}
    PROVE  SettlementsPostOnce'
<1>1. ASSUME NEW t \in settlements
      PROVE  ~(t.journey = s.journey /\ t.request = s.request)
  BY DEF RequestIdFree, HasRequest
<1>2. ASSUME NEW e \in ledger, e.source = "JOURNEY_SETTLEMENT"
      PROVE  ~(e.journey = s.journey /\ e.request = s.request)
  BY <1>1, <1>2 DEF SettlementsPostOnce, HasRequest
<1>3. ASSUME NEW u \in Units
      PROVE  LET e == SettlementEntry(s, u)
             IN  /\ e.source = "JOURNEY_SETTLEMENT" /\ e.journey = s.journey
                 /\ e.request = s.request /\ e.unit = u /\ e.amount = s.amount[u]
  BY DEF SettlementEntry
<1>4. ASSUME NEW t \in settlements, NEW u \in Units
      PROVE  Posted(t, u)' = Posted(t, u)
  BY <1>1, <1>3 DEF Posted
<1>5. ASSUME NEW u \in Units, s.amount[u] = 0
      PROVE  Posted(s, u)' = {}
  BY <1>2, <1>3, <1>5 DEF Posted
<1>6. ASSUME NEW u \in Units, s.amount[u] # 0
      PROVE  Posted(s, u)' = {SettlementEntry(s, u)}
  BY <1>2, <1>3, <1>6 DEF Posted
<1>7. \A t, q \in settlements' :
        t.journey = q.journey /\ t.request = q.request => t = q
  BY <1>1 DEF SettlementsPostOnce
<1>8. ASSUME NEW t \in settlements', NEW u \in Units
      PROVE  IF t.amount[u] = 0 THEN Posted(t, u)' = {}
             ELSE \E e \in Posted(t, u)' :
                    Posted(t, u)' = {e} /\ e.amount = t.amount[u]
  <2>1. CASE t \in settlements
    BY <1>4, <2>1 DEF SettlementsPostOnce, Posted
  <2>2. CASE t = s
    BY <1>3, <1>5, <1>6, <2>2
  <2> QED BY <2>1, <2>2
<1>9. \A e \in ledger' : e.source = "JOURNEY_SETTLEMENT" =>
        HasRequest(e.journey, e.request)'
  BY <1>3 DEF SettlementsPostOnce, HasRequest
<1> QED BY <1>7, <1>8, <1>9 DEF SettlementsPostOnce, Posted

LEMMA SettlementsStep ==
    ASSUME TypeOK, SettlementsPostOnce, [Next]_vars
    PROVE  SettlementsPostOnce'
<1>1. ASSUME UNCHANGED <<ledger, settlements>>
      PROVE  SettlementsPostOnce'
  BY <1>1 DEF SettlementsPostOnce, HasRequest
<1>2. ASSUME NEW w \in Workers, CommitSettlement(w)
      PROVE  SettlementsPostOnce'
  <2> DEFINE s == [journey |-> job[w].journey, request |-> job[w].request,
                   type |-> job[w].op, amount |-> job[w].amount]
             moved == {u \in Units : s.amount[u] > 0}
  <2>1. CASE RequestIdFree(s.journey, s.request)
    <3>1. s \in Settlement
      BY <1>2 DEF TypeOK, CommitSettlement, Job, NoJob, Settlement, SettlementOps,
         PayoutOps, FinalOps
    <3>2. \A u \in Units : s.amount[u] \in Nat
      BY <3>1 DEF Settlement, Amounts
    <3>3. \A u \in Units : u \in moved <=> s.amount[u] # 0
      BY <3>2
    <3>4. /\ settlements' = settlements \cup {s}
          /\ ledger' = ledger \cup {SettlementEntry(s, u) : u \in Units \cap moved}
      <4>1. /\ settlements' = settlements \cup {s}
            /\ ledger' = ledger \cup SettlementEntries(s)
        BY <1>2, <2>1 DEF CommitSettlement, Post
      <4>2. moved = Units \cap moved
        OBVIOUS
      <4> HIDE DEF s
      <4> QED BY <4>1, <4>2 DEF SettlementEntries
    <3> HIDE DEF s, moved
    <3> QED BY <2>1, <3>1, <3>3, <3>4, SettlementPosted
  <2>2. CASE ~RequestIdFree(s.journey, s.request)
    BY <1>1, <1>2, <2>2 DEF CommitSettlement, rows
  <2> QED BY <2>1, <2>2
<1>3. ASSUME NEW w \in Workers, CommitCloseJourney(w)
      PROVE  SettlementsPostOnce'
  <2> DEFINE s == [journey |-> job[w].journey, request |-> job[w].request,
                   type |-> "CloseJourney", amount |-> NoAmount]
  <2>1. CASE settlements' = settlements
    BY <1>1, <1>3, <2>1 DEF CommitCloseJourney
  <2>2. CASE settlements' # settlements
    <3>1. /\ RequestIdFree(s.journey, s.request)
          /\ settlements' = settlements \cup {s}
          /\ ledger' = ledger
      BY <1>3, <2>2 DEF CommitCloseJourney
    <3>2. s \in Settlement
      BY <1>3, NoAmountType DEF TypeOK, CommitCloseJourney, Job, NoJob, Settlement,
         SettlementOps, PayoutOps, FinalOps
    <3>3. \A u \in Units : u \in {} <=> s.amount[u] # 0
      BY DEF NoAmount
    <3>4. {SettlementEntry(s, u) : u \in Units \cap {}} = {}
      OBVIOUS
    <3> HIDE DEF s
    <3> QED BY <3>1, <3>2, <3>3, <3>4, SettlementPosted
  <2> QED BY <2>1, <2>2
<1>4. ASSUME NEW w \in Workers, CommitCorrection(w)
      PROVE  SettlementsPostOnce'
  <2>1. \A c : \A e \in CorrectionEntries(c) : e.source # "JOURNEY_SETTLEMENT"
    BY DEF CorrectionEntries, Reversal, CorrectionEntry
  <2>2. /\ settlements' = settlements
        /\ \/ ledger' = ledger
           \/ ledger' = ledger \cup CorrectionEntries(job[w])
    BY <1>4 DEF CommitCorrection, Post
  <2> QED BY <1>1, <2>1, <2>2, UnsettlingEntries
<1>5. CASE PostsOther
  BY <1>5, UnsettlingEntries DEF PostsOther, Post
<1>6. ASSUME NEW w \in Workers, Receipting(w)
      PROVE  SettlementsPostOnce'
  BY <1>1, <1>6 DEF Receipting, PrintReceipt, ReturnReceipt, AcceptReceipt
<1> QED BY <1>1, <1>2, <1>3, <1>4, <1>5, <1>6, StepKinds

\* However retries of a request race, its settlement is posted once and whole.
THEOREM SettlementsPostedOnce == Spec => []SettlementsPostOnce
<1>1. TypeOK /\ SettlementsPostOnce /\ [Next]_vars => SettlementsPostOnce'
  BY SettlementsStep
<1> QED BY <1>1, SettlementsInit, TypeCorrect, PTL DEF Spec

(***************************************************************************)
(* Receipts.  A receipt's purpose tells, for good, whether it is for a     *)
(* final settlement: the discharge rules are stated on it.                 *)
(***************************************************************************)
PurposesMatch ==
    \A e \in DOMAIN receipts : Final(receipts[e]) <=> IsFinalSettlement(e)

ReceiptsInv == ReceiptObligations /\ ReceiptsDischarged /\ PurposesMatch

LEMMA ReceiptsInit == Init => ReceiptsInv
BY DEF Init, ReceiptsInv, ReceiptObligations, ReceiptsDischarged, PurposesMatch

\* A transaction that posts entries, whichever they are, posts their receipts.
LEMMA ReceiptsPosted ==
    ASSUME TypeOK, ReceiptsInv, NEW es \in SUBSET Entry, Post(es)
    PROVE  ReceiptsInv'
<1>1. /\ DOMAIN receipts' = DOMAIN receipts \cup Obliged(es)
      /\ ledger' = ledger \cup es
      /\ \A e \in DOMAIN receipts : receipts'[e] = receipts[e]
      /\ \A e \in Obliged(es) \ DOMAIN receipts : receipts'[e] = NewReceipt(e)
  BY DEF Post
<1>2. ASSUME NEW e \in Entry
      PROVE  /\ ObligesReceipt(e) =>
                ((NewReceipt(e).acceptingParty = "TENANT") <=> (e.direction = "CREDIT"))
             /\ Final(NewReceipt(e)) <=> IsFinalSettlement(e)
             /\ NewReceipt(e).status = "PENDING_ISSUE"
             /\ NewReceipt(e).acceptedBy = "nobody"
  BY DEF ObligesReceipt, NewReceipt, Final, Entry, Directions
<1>3. ReceiptObligations'
  <2>1. DOMAIN receipts' = {e \in ledger' : ObligesReceipt(e)}
    BY <1>1 DEF ReceiptsInv, ReceiptObligations, Obliged, ObligesReceipt, IsFinalSettlement
  <2>2. \A e \in DOMAIN receipts' :
          (receipts'[e].acceptingParty = "TENANT") <=> (e.direction = "CREDIT")
    BY <1>1, <1>2 DEF ReceiptsInv, ReceiptObligations, Obliged
  <2> QED BY <2>1, <2>2 DEF ReceiptObligations, ObligesReceipt, IsFinalSettlement
<1>4. PurposesMatch'
  BY <1>1, <1>2 DEF ReceiptsInv, PurposesMatch, Obliged
<1>5. ReceiptsDischarged'
  BY <1>1, <1>2 DEF ReceiptsInv, ReceiptsDischarged, Obliged
<1> QED BY <1>3, <1>4, <1>5 DEF ReceiptsInv

\* What printing, returning and accepting do to the receipts.
LEMMA ReceiptingEffect ==
    ASSUME TypeOK, NEW w \in Workers, Receipting(w)
    PROVE  /\ ledger' = ledger
           /\ DOMAIN receipts' = DOMAIN receipts
           /\ \A e \in DOMAIN receipts : LET r == receipts[e]
                                             q == receipts'[e]
                IN  \/ q = r
                    \/ /\ q.purpose = r.purpose
                       /\ q.acceptingParty = r.acceptingParty
                       /\ r.status # "RETURNED"
                       /\ \/ q.status = "PRINTED" /\ q.acceptedBy = r.acceptedBy
                          \/ /\ q.status = "RETURNED" /\ ~Final(r)
                             /\ q.acceptedBy = r.acceptedBy
                          \/ /\ q.status = "RETURNED" /\ Final(r)
                             /\ q.acceptedBy = r.acceptingParty
<1>1. \A e \in DOMAIN receipts : receipts[e] \in Receipt
  BY DEF TypeOK
<1>2. CASE PrintReceipt(w)
  <2>1. PICK d \in DOMAIN receipts :
          receipts' = [receipts EXCEPT ![d].status = AfterPrint(@)]
    BY <1>2 DEF PrintReceipt
  <2>2. CASE receipts[d].status = "RETURNED"
    <3>1. [receipts[d] EXCEPT !.status = "RETURNED"] = receipts[d]
      BY <1>1, <2>2 DEF Receipt
    <3> QED BY <1>2, <2>1, <2>2, <3>1 DEF PrintReceipt, AfterPrint
  <2>3. CASE receipts[d].status # "RETURNED"
    BY <1>1, <1>2, <2>1, <2>3 DEF PrintReceipt, AfterPrint, Receipt
  <2> QED BY <2>2, <2>3
<1>3. CASE ReturnReceipt(w)
  BY <1>1, <1>3 DEF ReturnReceipt, MayReturn, Receipt
<1>4. CASE AcceptReceipt(w)
  BY <1>1, <1>4 DEF AcceptReceipt, MayAccept, Receipt
<1> QED BY <1>2, <1>3, <1>4 DEF Receipting

LEMMA ReceiptsStep ==
    ASSUME TypeOK, ReceiptsInv, [Next]_vars
    PROVE  ReceiptsInv'
<1>1. ASSUME UNCHANGED <<ledger, receipts>>
      PROVE  ReceiptsInv'
  BY <1>1 DEF ReceiptsInv, ReceiptObligations, ReceiptsDischarged, PurposesMatch
<1>2. ASSUME NEW w \in Workers, CommitSettlement(w)
      PROVE  ReceiptsInv'
  <2> DEFINE s == [journey |-> job[w].journey, request |-> job[w].request,
                   type |-> job[w].op, amount |-> job[w].amount]
  <2>1. s \in Settlement /\ s.type \in SettlementOps
    BY <1>2 DEF TypeOK, CommitSettlement, Job, NoJob, Settlement, SettlementOps,
       PayoutOps, FinalOps
  <2>2. SettlementEntries(s) \in SUBSET Entry
    BY <2>1, PostedEntryTypes
  <2>3. UNCHANGED <<ledger, receipts>> \/ Post(SettlementEntries(s))
    BY <1>2 DEF CommitSettlement, rows
  <2> QED BY <1>1, <2>2, <2>3, ReceiptsPosted
<1>3. ASSUME NEW w \in Workers, CommitCorrection(w)
      PROVE  ReceiptsInv'
  <2>1. CorrectionEntries(job[w]) \in SUBSET Entry
    BY <1>3, PostedEntryTypes DEF CommitCorrection, TypeOK
  <2>2. UNCHANGED <<ledger, receipts>> \/ Post(CorrectionEntries(job[w]))
    BY <1>3 DEF CommitCorrection
  <2> QED BY <1>1, <2>1, <2>2, ReceiptsPosted
<1>4. CASE PostsOther
  <2>1. PICK e \in Entry : Post({e})
    BY <1>4 DEF PostsOther
  <2>2. {e} \in SUBSET Entry
    OBVIOUS
  <2> QED BY <2>1, <2>2, ReceiptsPosted
<1>5. ASSUME NEW w \in Workers, CommitCloseJourney(w)
      PROVE  ReceiptsInv'
  BY <1>1, <1>5 DEF CommitCloseJourney
<1>6. ASSUME NEW w \in Workers, Receipting(w)
      PROVE  ReceiptsInv'
  <2>1. ReceiptObligations'
    BY <1>6, ReceiptingEffect DEF ReceiptsInv, ReceiptObligations
  <2>2. PurposesMatch'
    BY <1>6, ReceiptingEffect DEF ReceiptsInv, PurposesMatch, Final
  <2>3. ReceiptsDischarged'
    BY <1>6, ReceiptingEffect, <2>2
    DEF ReceiptsInv, ReceiptsDischarged, PurposesMatch, IsFinalSettlement
  <2> QED BY <2>1, <2>2, <2>3 DEF ReceiptsInv
<1> QED BY <1>1, <1>2, <1>3, <1>4, <1>5, <1>6, StepKinds

LEMMA ReceiptsAlways == Spec => []ReceiptsInv
<1>1. TypeOK /\ ReceiptsInv /\ [Next]_vars => ReceiptsInv'
  BY ReceiptsStep
<1> QED BY <1>1, ReceiptsInit, TypeCorrect, PTL DEF Spec

\* The receipts are exactly those the ledger obliges, whoever posts to it.
THEOREM ObligationsHold == Spec => []ReceiptObligations
<1>1. ReceiptsInv => ReceiptObligations
  BY DEF ReceiptsInv
<1> QED BY <1>1, ReceiptsAlways, PTL

\* No receipt is discharged but in the way its kind prescribes.
THEOREM DischargesLawful == Spec => []ReceiptsDischarged
<1>1. ReceiptsInv => ReceiptsDischarged
  BY DEF ReceiptsInv
<1> QED BY <1>1, ReceiptsAlways, PTL

LEMMA DischargedKept ==
    ASSUME TypeOK, [Next]_vars, NEW e \in DOMAIN receipts,
           receipts[e].status = "RETURNED"
    PROVE  receipts'[e] = receipts[e]
<1>1. ASSUME NEW es, Post(es)
      PROVE  receipts'[e] = receipts[e]
  BY <1>1 DEF Post
<1>2. ASSUME NEW w \in Workers, Receipting(w)
      PROVE  receipts'[e] = receipts[e]
  BY <1>2, ReceiptingEffect
<1>3. ASSUME NEW w \in Workers,
             CommitSettlement(w) \/ CommitCorrection(w) \/ CommitCloseJourney(w)
      PROVE  receipts' = receipts \/ \E es : Post(es)
  BY <1>3 DEF CommitSettlement, CommitCorrection, CommitCloseJourney, rows
<1> QED BY <1>1, <1>2, <1>3, StepKinds DEF PostsOther

\* No later print, return or acceptance touches a discharged receipt.
THEOREM DischargesFinal == Spec => DischargeIsFinal
<1>1. TypeOK /\ [Next]_vars =>
        [\A e \in DOMAIN receipts : receipts[e].status = "RETURNED" =>
            receipts'[e] = receipts[e]]_vars
  BY DischargedKept
<1> QED BY <1>1, TypeCorrect, PTL DEF Spec, DischargeIsFinal
=============================================================================
