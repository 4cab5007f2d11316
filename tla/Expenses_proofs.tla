--------------------------- MODULE Expenses_proofs ---------------------------
(***************************************************************************)
(* Theorems about Expenses for every set of ids, Journeys and workers,     *)
(* every set of operations and every bound.                                *)
(*                                                                         *)
(* Which debit is the latest, and that there is one, depends on what the   *)
(* handlers have read; so types are proved together with what ties the     *)
(* handlers to the rows (Handlers), the readings of the clock to each      *)
(* other (Clocked) and the three tables to each other (Chains).            *)
(***************************************************************************)
EXTENDS Expenses, WellFoundedInduction, TLAPS

\* A handler has a job while it runs.  A creation is of an id that no expense
\* and no other creation has, a change of an expense that exists.
Handlers ==
    \A w \in Workers :
        /\ pc[w] = "idle" <=> job[w].op = "none"
        /\ pc[w] = "collaborator" => job[w].op = "Update"
        /\ job[w].op = "Create" =>
            /\ job[w].id \notin DOMAIN expenses
            /\ \A v \in Workers \ {w} : job[v].op = "Create" => job[v].id # job[w].id
        /\ job[w].op \in Changes => job[w].id \in DOMAIN expenses

\* What a handler read from the clock is past, and no other handler and no
\* debit has read the same.
Clocked ==
    /\ \A d \in debits : d.createdAt < clock
    /\ \A d, e \in debits : d.createdAt = e.createdAt => d = e
    /\ \A w \in Workers : pc[w] = "commit" =>
        /\ job[w].now < clock
        /\ \A d \in debits : d.createdAt # job[w].now
        /\ \A v \in Workers \ {w} : pc[v] = "commit" => job[v].now # job[w].now

\* The debits are those of the expenses, the reversals those of the debits.
Chains ==
    /\ \A d \in debits : d.expense \in DOMAIN expenses
    /\ \A x \in DOMAIN expenses : DebitsOf(x) # {}
    /\ \A r \in reversals : r.of \in debits

WellFormed == TypeOK /\ Handlers /\ Clocked /\ Chains

(***************************************************************************)
(* The latest debit.                                                       *)
(***************************************************************************)
\* A bounded set of naturals has a greatest element.
LEMMA GreatestOfBounded ==
    ASSUME NEW S \in SUBSET Nat, S # {}, NEW b \in Nat, \A n \in S : n <= b
    PROVE  \E m \in S : \A n \in S : n <= m
<1> DEFINE T == {b - n : n \in S}
<1>1. T \subseteq Nat
  <2>1. \A n \in S : b - n \in Nat
    OBVIOUS
  <2> QED BY <2>1
<1>2. T # {}
  <2>1. PICK s \in S : TRUE
    OBVIOUS
  <2>2. b - s \in T
    OBVIOUS
  <2> QED BY <2>2
<1>3. PICK t \in T : \A s \in T : ~(<<s, t>> \in OpToRel(<, Nat))
  BY <1>1, <1>2, NatLessThanWellFounded, WFMin
<1>4. \A s \in T : ~(s < t)
  BY <1>1, <1>3 DEF OpToRel
<1>5. PICK m \in S : t = b - m
  OBVIOUS
<1>6. ASSUME NEW n \in S PROVE n <= m
  <2>1. b - n \in T
    OBVIOUS
  <2>2. ~(b - n < b - m)
    BY <2>1, <1>4, <1>5
  <2> QED BY <2>2
<1> QED BY <1>6

\* An expense with a debit has a latest one.
LEMMA LatestDebitIsLatest ==
    ASSUME TypeOK, Clocked, NEW x, DebitsOf(x) # {}
    PROVE  /\ LatestDebit(x) \in DebitsOf(x)
           /\ \A e \in DebitsOf(x) : LatestDebit(x).createdAt >= e.createdAt
<1> DEFINE S == {d.createdAt : d \in DebitsOf(x)}
<1>1. DebitsOf(x) \subseteq Debit
  BY DEF TypeOK, DebitsOf
<1>2. S \in SUBSET Nat /\ S # {}
  BY <1>1 DEF Debit
<1>3. clock \in Nat /\ \A n \in S : n <= clock
  <2>1. clock \in Nat /\ \A d \in DebitsOf(x) : d.createdAt \in Nat /\ d.createdAt < clock
    BY <1>1 DEF TypeOK, Clocked, DebitsOf, Debit
  <2> QED BY <2>1
<1>4. PICK m \in S : \A n \in S : n <= m
  BY <1>2, <1>3, GreatestOfBounded
<1>5. PICK d \in DebitsOf(x) : d.createdAt = m
  OBVIOUS
<1>6. \A e \in DebitsOf(x) : d.createdAt >= e.createdAt
  BY <1>2, <1>4, <1>5
<1> QED BY <1>6 DEF LatestDebit

LEMMA ChangeHasLatest ==
    ASSUME WellFormed, NEW w \in Workers, job[w].op \in Changes
    PROVE  /\ job[w].id \in DOMAIN expenses
           /\ LatestDebit(job[w].id) \in DebitsOf(job[w].id)
           /\ LatestDebit(job[w].id) \in Debit
<1>1. job[w].id \in DOMAIN expenses
  BY DEF WellFormed, Handlers
<1>2. LatestDebit(job[w].id) \in DebitsOf(job[w].id)
  BY <1>1, LatestDebitIsLatest DEF WellFormed, Chains
<1> QED BY <1>1, <1>2 DEF WellFormed, TypeOK, DebitsOf

(***************************************************************************)
(* Types.                                                                  *)
(***************************************************************************)
LEMMA JobTypes ==
    /\ NoJob \in Job
    /\ \A x \in Ids, j \in Journeys, a \in Amounts, s \in Ids \cup {NoId}, n \in Nat :
        [op |-> "Create", id |-> x, journey |-> j, amount |-> a,
         recreatedFrom |-> s, now |-> n] \in Job
    /\ \A op \in Changes, x \in Ids, j \in Journeys, a \in Amounts, n \in Nat :
        [op |-> op, id |-> x, journey |-> j, amount |-> a, now |-> n] \in Job
    /\ \A c \in Job : c.op \in Changes =>
        /\ c.id \in Ids /\ c.journey \in Journeys /\ c.amount \in Amounts /\ c.now \in Nat
        /\ \A n \in Nat : [c EXCEPT !.now = n] \in Job
        /\ \A n \in Nat : [c EXCEPT !.now = n] =
            [op |-> c.op, id |-> c.id, journey |-> c.journey, amount |-> c.amount, now |-> n]
    /\ \A c \in Job : c.op = "Create" =>
        /\ c.id \in Ids /\ c.journey \in Journeys /\ c.amount \in Amounts /\ c.now \in Nat
        /\ c.recreatedFrom \in Ids \cup {NoId}
BY DEF Job, NoJob, Changes

LEMMA GotoType ==
    ASSUME TypeOK, NEW w \in Workers, NEW j \in Job,
           NEW next \in {"idle", "collaborator", "commit"}, Goto(w, next, j)
    PROVE  /\ pc' \in [Workers -> {"idle", "collaborator", "commit"}]
           /\ job' \in [Workers -> Job]
           /\ pc'[w] = next /\ job'[w] = j
           /\ \A v \in Workers \ {w} : pc'[v] = pc[v] /\ job'[v] = job[v]
BY DEF TypeOK, Goto

\* What a finished handler leaves.
LEMMA FinishType ==
    ASSUME TypeOK, NEW w \in Workers, Finish(w)
    PROVE  /\ pc' \in [Workers -> {"idle", "collaborator", "commit"}]
           /\ job' \in [Workers -> Job]
           /\ pc'[w] = "idle" /\ job'[w] = NoJob
           /\ \A v \in Workers \ {w} : pc'[v] = pc[v] /\ job'[v] = job[v]
BY JobTypes, GotoType DEF Finish

\* A debit that is posted is new and of its expense, and owes a receipt.
LEMMA PostDebitType ==
    ASSUME TypeOK, NEW d \in Debit, PostDebit(d)
    PROVE  /\ debits' \subseteq Debit
           /\ receipts' \in [debits' -> {"OUTSTANDING", "RETURNED", "CANCELLED"}]
BY DEF TypeOK, PostDebit

LEMMA CommitCreateType ==
    ASSUME WellFormed, NEW w \in Workers, CommitCreate(w)
    PROVE  TypeOK'
<1> DEFINE c == job[w]
<1>1. TypeOK /\ job[w] \in Job /\ c.op = "Create"
  BY DEF WellFormed, TypeOK, CommitCreate, Committing
<1>2. /\ c.id \in Ids /\ c.journey \in Journeys /\ c.amount \in Amounts /\ c.now \in Nat
      /\ c.recreatedFrom \in Ids \cup {NoId}
  BY <1>1, JobTypes
<1>3. Finish(w) /\ UNCHANGED <<reversals, closed, clock>>
  BY DEF CommitCreate
<1>4. CASE SourceFree(c.recreatedFrom)
  <2> DEFINE row == [status |-> "ACTIVE", journey |-> c.journey, amount |-> c.amount,
                     recreatedFrom |-> c.recreatedFrom]
             d == NewDebit(c.id, c.journey, c.amount, c.now)
  <2>1. row \in Expense /\ d \in Debit
    BY <1>2 DEF Expense, NewDebit, Debit
  <2>2. /\ expenses' = [x \in DOMAIN expenses \cup {c.id} |->
                            IF x = c.id THEN row ELSE expenses[x]]
        /\ PostDebit(d)
    BY <1>4 DEF CommitCreate
  <2>3. /\ DOMAIN expenses' \subseteq Ids
        /\ expenses' \in [DOMAIN expenses' -> Expense]
    <3> HIDE DEF row
    <3> QED BY <1>1, <1>2, <2>1, <2>2 DEF TypeOK
  <2>4. /\ debits' \subseteq Debit
        /\ receipts' \in [debits' -> {"OUTSTANDING", "RETURNED", "CANCELLED"}]
    BY <1>1, <2>1, <2>2, PostDebitType
  <2> QED BY <1>1, <1>3, <2>3, <2>4, FinishType DEF TypeOK
<1>5. CASE ~SourceFree(c.recreatedFrom)
  <2>1. UNCHANGED <<expenses, debits, receipts>>
    BY <1>5 DEF CommitCreate
  <2> QED BY <1>1, <1>3, <2>1, FinishType DEF TypeOK
<1> QED BY <1>4, <1>5

LEMMA CommitChangeType ==
    ASSUME WellFormed, NEW w \in Workers,
           CommitUpdate(w) \/ CommitDeactivate(w) \/ CommitCancel(w)
    PROVE  TypeOK'
<1> DEFINE c == job[w]
           p == LatestDebit(c.id)
<1>1. TypeOK /\ c \in Job /\ c.op \in Changes
  BY DEF WellFormed, TypeOK, CommitUpdate, CommitDeactivate, CommitCancel, Committing, Changes
<1>2. c.id \in Ids /\ c.journey \in Journeys /\ c.amount \in Amounts /\ c.now \in Nat
  BY <1>1, JobTypes
<1>3. c.id \in DOMAIN expenses /\ p \in Debit
  BY <1>1, ChangeHasLatest
<1>4. Finish(w) /\ UNCHANGED <<closed, clock>>
  BY DEF CommitUpdate, CommitDeactivate, CommitCancel
<1>5. [of |-> p, by |-> "EXPENSES"] \in Reversal
  BY <1>3 DEF Reversal
<1>6. CASE Refuse
  BY <1>1, <1>4, <1>6, FinishType DEF TypeOK, Refuse
<1>7. CASE CommitUpdate(w) /\ ~Refuse
  <2>1. /\ expenses' = [expenses EXCEPT ![c.id].status = "ACTIVE",
                                        ![c.id].journey = c.journey,
                                        ![c.id].amount = c.amount]
        /\ Reverse(p)
        /\ PostDebit(NewDebit(c.id, c.journey, c.amount, c.now))
    BY <1>7 DEF CommitUpdate
  <2>2. DOMAIN expenses' \subseteq Ids /\ expenses' \in [DOMAIN expenses' -> Expense]
    BY <1>1, <1>2, <1>3, <2>1 DEF TypeOK, Expense
  <2>3. NewDebit(c.id, c.journey, c.amount, c.now) \in Debit
    BY <1>2 DEF NewDebit, Debit
  <2>4. /\ debits' \subseteq Debit
        /\ receipts' \in [debits' -> {"OUTSTANDING", "RETURNED", "CANCELLED"}]
    BY <1>1, <2>1, <2>3, PostDebitType
  <2>5. reversals' \subseteq Reversal
    BY <1>1, <1>5, <2>1 DEF TypeOK, Reverse
  <2> QED BY <1>1, <1>4, <2>2, <2>4, <2>5, FinishType DEF TypeOK
<1>8. CASE CommitDeactivate(w) /\ ~Refuse
  <2>1. /\ expenses' = [expenses EXCEPT
                ![c.id].status = IF @ = "CANCELLED" THEN @ ELSE "DEACTIVATED",
                ![c.id].journey = c.journey,
                ![c.id].amount = c.amount]
        /\ Reverse(p)
        /\ UNCHANGED <<debits, receipts>>
    BY <1>8 DEF CommitDeactivate
  <2>2. DOMAIN expenses' \subseteq Ids /\ expenses' \in [DOMAIN expenses' -> Expense]
    BY <1>1, <1>2, <1>3, <2>1 DEF TypeOK, Expense
  <2>3. reversals' \subseteq Reversal
    BY <1>1, <1>5, <2>1 DEF TypeOK, Reverse
  <2> QED BY <1>1, <1>4, <2>1, <2>2, <2>3, FinishType DEF TypeOK
<1>9. CASE CommitCancel(w) /\ ~Refuse
  <2>1. /\ expenses' = [expenses EXCEPT ![c.id].status = "CANCELLED"]
        /\ Reverse(p)
        /\ receipts' = [d \in DOMAIN receipts |->
                IF CancelsReceipt(d, c.id) THEN "CANCELLED" ELSE receipts[d]]
        /\ UNCHANGED debits
    BY <1>9 DEF CommitCancel
  <2>2. DOMAIN expenses' \subseteq Ids /\ expenses' \in [DOMAIN expenses' -> Expense]
    BY <1>1, <1>2, <1>3, <2>1 DEF TypeOK, Expense
  <2>3. reversals' \subseteq Reversal
    BY <1>1, <1>5, <2>1 DEF TypeOK, Reverse
  <2>4. receipts' \in [debits' -> {"OUTSTANDING", "RETURNED", "CANCELLED"}]
    BY <1>1, <2>1 DEF TypeOK
  <2> QED BY <1>1, <1>4, <2>1, <2>2, <2>3, <2>4, FinishType DEF TypeOK
<1> QED BY <1>6, <1>7, <1>8, <1>9
LEMMA BeginType ==
    ASSUME WellFormed, NEW w \in Workers,
           BeginCreate(w) \/ BeginUpdate(w) \/ ReadCollaborator(w) \/ BeginEnding(w)
    PROVE  TypeOK'
<1> USE DEF WellFormed
<1>1. ASSUME NEW j \in Job, NEW next \in {"idle", "collaborator", "commit"},
             Goto(w, next, j), clock' \in {clock, clock + 1}, UNCHANGED <<rows, closed>>
      PROVE  TypeOK'
  BY <1>1, GotoType DEF TypeOK, rows
<1>2. CASE BeginCreate(w)
  <2>1. PICK x \in Ids, j \in Journeys, a \in Amounts, s \in DOMAIN expenses \cup {NoId} :
            Goto(w, "commit", [op |-> "Create", id |-> x, journey |-> j,
                               amount |-> a, recreatedFrom |-> s, now |-> clock])
    BY <1>2 DEF BeginCreate
  <2>2. [op |-> "Create", id |-> x, journey |-> j, amount |-> a,
         recreatedFrom |-> s, now |-> clock] \in Job
    BY JobTypes DEF TypeOK
  <2> QED BY <1>1, <1>2, <2>1, <2>2 DEF BeginCreate
<1>3. CASE BeginUpdate(w)
  <2>1. PICK x \in DOMAIN expenses, j \in Journeys, a \in Amounts :
            Goto(w, "collaborator", [op |-> "Update", id |-> x, journey |-> j,
                                     amount |-> a, now |-> 0])
    BY <1>3 DEF BeginUpdate
  <2>2. [op |-> "Update", id |-> x, journey |-> j, amount |-> a, now |-> 0] \in Job
    BY JobTypes DEF TypeOK, Changes
  <2> QED BY <1>1, <1>3, <2>1, <2>2 DEF BeginUpdate
<1>4. CASE ReadCollaborator(w)
  <2>1. job[w].op \in Changes /\ job[w] \in Job /\ clock \in Nat
    BY <1>4 DEF TypeOK, Handlers, ReadCollaborator, Changes
  <2>2. [job[w] EXCEPT !.now = clock] \in Job /\ NoJob \in Job
    BY <2>1, JobTypes
  <2> QED BY <1>1, <1>4, <2>2 DEF ReadCollaborator, Finish
<1>5. CASE BeginEnding(w)
  <2>1. PICK op \in {"Cancel", "Deactivate"}, x \in DOMAIN expenses :
            Goto(w, "commit", [op |-> op, id |-> x, journey |-> expenses[x].journey,
                               amount |-> expenses[x].amount, now |-> clock])
    BY <1>5 DEF BeginEnding
  <2>2. [op |-> op, id |-> x, journey |-> expenses[x].journey,
         amount |-> expenses[x].amount, now |-> clock] \in Job
    BY JobTypes DEF TypeOK, Changes, Expense
  <2> QED BY <1>1, <1>5, <2>1, <2>2 DEF BeginEnding
<1> QED BY <1>2, <1>3, <1>4, <1>5

LEMMA AccountType ==
    ASSUME TypeOK, CorrectEntry \/ ReturnReceipt \/ CloseJourney
    PROVE  TypeOK'
<1>1. CASE CorrectEntry
  <2>1. reversals' \subseteq Reversal
    BY <1>1 DEF CorrectEntry, TypeOK, Reversal
  <2> QED BY <1>1, <2>1 DEF CorrectEntry, TypeOK
<1>2. CASE ReturnReceipt
  BY <1>2 DEF ReturnReceipt, TypeOK
<1>3. CASE CloseJourney
  BY <1>3 DEF CloseJourney, TypeOK, rows
<1> QED BY <1>1, <1>2, <1>3

LEMMA TypeStep == WellFormed /\ [Next]_vars => TypeOK'
<1> SUFFICES ASSUME WellFormed, [Next]_vars PROVE TypeOK'
  OBVIOUS
<1>1. CASE Next
  BY <1>1, BeginType, CommitCreateType, CommitChangeType, AccountType
  DEF Next, Handling, WellFormed
<1>2. CASE UNCHANGED vars
  BY <1>2 DEF WellFormed, TypeOK, vars
<1> QED BY <1>1, <1>2

(***************************************************************************)
(* The kinds of steps, by what they do to the rows.                        *)
(***************************************************************************)
\* The ledger and its receipts gain d.
Posts(d) ==
    /\ d \in Debit \ debits
    /\ debits' = debits \cup {d}
    /\ DOMAIN receipts' = debits \cup {d}
    /\ receipts'[d] = "OUTSTANDING"
    /\ \A e \in debits : receipts'[e] = receipts[e]

\* The latest debit of x, which nothing has reversed, is reversed.
Uncharges(x) ==
    /\ LatestDebit(x) \in Live(x)
    /\ reversals' = reversals \cup {[of |-> LatestDebit(x), by |-> "EXPENSES"]}

\* No other row than x's changes.
Touches(x) ==
    /\ x \in DOMAIN expenses
    /\ DOMAIN expenses' = DOMAIN expenses
    /\ expenses'[x].recreatedFrom = expenses[x].recreatedFrom
    /\ \A y \in DOMAIN expenses \ {x} : expenses'[y] = expenses[y]

Creates(d) ==
    /\ d.expense \notin DOMAIN expenses
    /\ DOMAIN expenses' = DOMAIN expenses \cup {d.expense}
    /\ expenses'[d.expense].status = "ACTIVE"
    /\ expenses'[d.expense].journey = d.journey
    /\ expenses'[d.expense].amount = d.amount
    /\ MayRecreate(expenses'[d.expense].recreatedFrom)
    /\ \A y \in DOMAIN expenses : expenses'[y] = expenses[y]
    /\ Posts(d)
    /\ UNCHANGED reversals

Updates(d) ==
    /\ Touches(d.expense)
    /\ expenses[d.expense].status # "CANCELLED"
    /\ expenses'[d.expense].status = "ACTIVE"
    /\ expenses'[d.expense].journey = d.journey
    /\ expenses'[d.expense].amount = d.amount
    /\ Uncharges(d.expense)
    /\ Posts(d)

Deactivates(x) ==
    /\ Touches(x)
    /\ expenses'[x].status =
        IF expenses[x].status = "CANCELLED" THEN "CANCELLED" ELSE "DEACTIVATED"
    /\ Uncharges(x)
    /\ UNCHANGED <<debits, receipts>>

Cancels(x) ==
    /\ Touches(x)
    /\ Active(x)
    /\ expenses'[x].status = "CANCELLED"
    /\ Uncharges(x)
    /\ UNCHANGED debits
    /\ DOMAIN receipts' = debits
    /\ \A d \in debits : receipts'[d] =
        IF CancelsReceipt(d, x) THEN "CANCELLED" ELSE receipts[d]

Corrects(d) ==
    /\ d \in debits /\ ~Reversed(d)
    /\ reversals' = reversals \cup {[of |-> d, by |-> "CURRENT_ACCOUNT"]}
    /\ UNCHANGED <<expenses, debits, receipts>>

Returns(d) ==
    /\ d \in debits /\ receipts[d] = "OUTSTANDING"
    /\ DOMAIN receipts' = debits
    /\ receipts'[d] = "RETURNED"
    /\ \A e \in debits \ {d} : receipts'[e] = receipts[e]
    /\ UNCHANGED <<expenses, debits, reversals>>

\* What the commit of w's handler does: nothing, or what it was asked for.
Commits(w) ==
    \/ UNCHANGED rows
    \/ \E d : /\ d.expense = job[w].id /\ d.createdAt = job[w].now
              /\ Creates(d) \/ Updates(d)
    \/ Deactivates(job[w].id) \/ Cancels(job[w].id)

LEMMA PostDebitPosts ==
    ASSUME TypeOK, Clocked, NEW w \in Workers, pc[w] = "commit",
           NEW d \in Debit, d.createdAt = job[w].now, PostDebit(d)
    PROVE  Posts(d)
<1>1. d \notin debits
  BY DEF Clocked
<1> QED BY <1>1 DEF PostDebit, Posts, TypeOK

LEMMA CommitKinds ==
    ASSUME WellFormed, NEW w \in Workers,
           CommitCreate(w) \/ CommitUpdate(w) \/ CommitDeactivate(w) \/ CommitCancel(w)
    PROVE  Commits(w)
<1> DEFINE c == job[w]
           p == LatestDebit(c.id)
           d == NewDebit(c.id, c.journey, c.amount, c.now)
<1>1. TypeOK /\ Clocked /\ c \in Job /\ pc[w] = "commit" /\ c.op \in Changes \cup {"Create"}
  BY DEF WellFormed, TypeOK, CommitCreate, CommitUpdate, CommitDeactivate, CommitCancel,
     Committing, Changes
<1>2. c.id \in Ids /\ c.journey \in Journeys /\ c.amount \in Amounts /\ c.now \in Nat
  BY <1>1, JobTypes
<1>3. /\ d \in Debit /\ d.expense = c.id /\ d.createdAt = c.now
      /\ d.journey = c.journey /\ d.amount = c.amount
  BY <1>2 DEF NewDebit, Debit
<1>4. PostDebit(d) => Posts(d)
  BY <1>1, <1>3, PostDebitPosts
<1>5. c.op \in Changes => c.id \in DOMAIN expenses /\ p \in DebitsOf(c.id)
  BY ChangeHasLatest
<1>6. c.op \in Changes /\ ReversalFree(p) /\ Reverse(p) => Uncharges(c.id)
  BY <1>5 DEF Uncharges, Live, ReversalFree, Reverse
<1>7. expenses \in [DOMAIN expenses -> Expense]
  BY <1>1 DEF TypeOK
<1>8. CASE CommitCreate(w)
  <2>1. CASE SourceFree(c.recreatedFrom)
    <3>1. /\ expenses' = [x \in DOMAIN expenses \cup {c.id} |->
                IF x = c.id
                THEN [status |-> "ACTIVE", journey |-> c.journey,
                      amount |-> c.amount, recreatedFrom |-> c.recreatedFrom]
                ELSE expenses[x]]
          /\ PostDebit(d) /\ UNCHANGED reversals
      BY <1>8, <2>1 DEF CommitCreate
    <3>2. c.id \notin DOMAIN expenses
      BY <1>8 DEF WellFormed, Handlers, CommitCreate, Committing
    <3>3. Creates(d)
      <4> HIDE DEF d
      <4> QED BY <1>3, <1>4, <2>1, <3>1, <3>2 DEF Creates, SourceFree
    <3> QED BY <1>3, <3>3 DEF Commits
  <2>2. CASE ~SourceFree(c.recreatedFrom)
    BY <1>8, <2>2 DEF CommitCreate, Commits, rows
  <2> QED BY <2>1, <2>2
<1>9. CASE CommitUpdate(w)
  <2>1. c.op \in Changes
    BY <1>9 DEF CommitUpdate, Committing, Changes
  <2>2. CASE expenses[c.id].status # "CANCELLED" /\ ReversalFree(p)
    <3>1. /\ expenses' = [expenses EXCEPT ![c.id].status = "ACTIVE",
                                          ![c.id].journey = c.journey,
                                          ![c.id].amount = c.amount]
          /\ Reverse(p) /\ PostDebit(d)
      BY <1>9, <2>2 DEF CommitUpdate
    <3>2. /\ Touches(c.id)
          /\ expenses'[c.id].status = "ACTIVE"
          /\ expenses'[c.id].journey = c.journey
          /\ expenses'[c.id].amount = c.amount
      BY <1>5, <1>7, <2>1, <3>1 DEF Touches, Expense
    <3>3. Updates(d)
      <4> HIDE DEF d
      <4> QED BY <1>3, <1>4, <1>6, <2>1, <2>2, <3>1, <3>2 DEF Updates
    <3> QED BY <1>3, <3>3 DEF Commits
  <2>3. CASE ~(expenses[c.id].status # "CANCELLED" /\ ReversalFree(p))
    BY <1>9, <2>3 DEF CommitUpdate, Commits, Refuse, rows
  <2> QED BY <2>2, <2>3
<1>10. CASE CommitDeactivate(w)
  <2>1. c.op \in Changes
    BY <1>10 DEF CommitDeactivate, Committing, Changes
  <2>2. CASE ReversalFree(p)
    <3>1. /\ expenses' = [expenses EXCEPT
                ![c.id].status = IF @ = "CANCELLED" THEN @ ELSE "DEACTIVATED",
                ![c.id].journey = c.journey,
                ![c.id].amount = c.amount]
          /\ Reverse(p) /\ UNCHANGED <<debits, receipts>>
      BY <1>10, <2>2 DEF CommitDeactivate
    <3>2. /\ Touches(c.id)
          /\ expenses'[c.id].status =
                IF expenses[c.id].status = "CANCELLED" THEN "CANCELLED" ELSE "DEACTIVATED"
      BY <1>5, <1>7, <2>1, <3>1 DEF Touches, Expense
    <3> QED BY <1>6, <2>1, <2>2, <3>1, <3>2 DEF Commits, Deactivates
  <2>3. CASE ~ReversalFree(p)
    BY <1>10, <2>3 DEF CommitDeactivate, Commits, Refuse, rows
  <2> QED BY <2>2, <2>3
<1>11. CASE CommitCancel(w)
  <2>1. c.op \in Changes
    BY <1>11 DEF CommitCancel, Committing, Changes
  <2>2. CASE Active(c.id) /\ ReversalFree(p)
    <3>1. /\ expenses' = [expenses EXCEPT ![c.id].status = "CANCELLED"]
          /\ Reverse(p) /\ UNCHANGED debits
          /\ receipts' = [e \in DOMAIN receipts |->
                IF CancelsReceipt(e, c.id) THEN "CANCELLED" ELSE receipts[e]]
      BY <1>11, <2>2 DEF CommitCancel
    <3>2. Touches(c.id) /\ expenses'[c.id].status = "CANCELLED"
      BY <1>5, <1>7, <2>1, <3>1 DEF Touches, Expense
    <3>3. /\ DOMAIN receipts' = debits
          /\ \A e \in debits : receipts'[e] =
                IF CancelsReceipt(e, c.id) THEN "CANCELLED" ELSE receipts[e]
      BY <1>1, <3>1 DEF TypeOK
    <3> QED BY <1>6, <2>1, <2>2, <3>1, <3>2, <3>3 DEF Commits, Cancels
  <2>3. CASE ~(Active(c.id) /\ ReversalFree(p))
    BY <1>11, <2>3 DEF CommitCancel, Commits, Refuse, rows
  <2> QED BY <2>2, <2>3
<1> QED BY <1>8, <1>9, <1>10, <1>11

\* Every step leaves the rows alone, is the commit of a change, or is the
\* current account's.
LEMMA StepKinds ==
    ASSUME WellFormed, [Next]_vars
    PROVE  \/ UNCHANGED rows
           \/ \E d : Creates(d) \/ Updates(d) \/ Corrects(d) \/ Returns(d)
           \/ \E x : Deactivates(x) \/ Cancels(x)
<1>1. ASSUME NEW w \in Workers,
             BeginCreate(w) \/ BeginUpdate(w) \/ ReadCollaborator(w) \/ BeginEnding(w)
      PROVE  UNCHANGED rows
  BY <1>1 DEF BeginCreate, BeginUpdate, ReadCollaborator, BeginEnding
<1>2. ASSUME NEW w \in Workers, Commits(w)
      PROVE  \/ UNCHANGED rows
             \/ \E d : Creates(d) \/ Updates(d)
             \/ \E x : Deactivates(x) \/ Cancels(x)
  BY <1>2 DEF Commits
<1>3. ASSUME CorrectEntry PROVE \E d : Corrects(d)
  BY <1>3 DEF CorrectEntry, Corrects, ReversalFree
<1>4. ASSUME ReturnReceipt PROVE \E d : Returns(d)
  BY <1>4 DEF ReturnReceipt, Returns, WellFormed, TypeOK
<1>5. ASSUME CloseJourney \/ UNCHANGED vars PROVE UNCHANGED rows
  BY <1>5 DEF CloseJourney, vars, rows
<1> QED BY <1>1, <1>2, <1>3, <1>4, <1>5, CommitKinds DEF Next, Handling
(***************************************************************************)
(* Handlers and rows fit each other.                                       *)
(***************************************************************************)
\* A job that is taken up, and what keeps it apart from those under way.
LEMMA Taken ==
    ASSUME WellFormed, TypeOK', NEW w \in Workers, NEW next, NEW j,
           Goto(w, next, j), UNCHANGED rows, clock' >= clock,
           next = "collaborator" => j.op = "Update",
           next \in {"collaborator", "commit"}, j.op # "none",
           next = "commit" => j.now = clock /\ clock' > clock,
           j.op = "Create" => /\ j.id \notin DOMAIN expenses
                              /\ \A v \in Workers \ {w} :
                                    pc[v] # "idle" => job[v].id # j.id,
           j.op \in Changes => j.id \in DOMAIN expenses
    PROVE  Handlers' /\ Clocked'
<1>1. /\ pc'[w] = next /\ job'[w] = j
      /\ \A v \in Workers \ {w} : pc'[v] = pc[v] /\ job'[v] = job[v]
  BY DEF WellFormed, TypeOK, Goto
<1>2. UNCHANGED <<expenses, debits>> /\ clock \in Nat /\ clock' \in Nat
  BY DEF WellFormed, TypeOK, rows
<1>3. Handlers'
  <2>1. \A v \in Workers : job[v].op = "Create" =>
            pc[v] # "idle" /\ job[v].id \notin DOMAIN expenses
    BY DEF WellFormed, Handlers
  <2>2. ASSUME NEW v \in Workers \ {w}, j.op = "Create", job[v].op = "Create"
        PROVE  job[v].id # j.id
    BY <2>1, <2>2
  <2> QED BY <1>1, <1>2, <2>2 DEF WellFormed, Handlers, Changes
<1>4. Clocked'
  <2>1. debits \subseteq Debit /\ \A v \in Workers : job[v].op # "none" => job[v] \in Job
    BY DEF WellFormed, TypeOK
  <2>2. \A d \in debits : d.createdAt \in Nat /\ d.createdAt < clock
    BY <2>1 DEF WellFormed, Clocked, Debit
  <2>3. \A v \in Workers : pc[v] = "commit" => job[v].now \in Nat /\ job[v].now < clock
    <3> TAKE v \in Workers
    <3>1. HAVE pc[v] = "commit"
    <3>2. job[v] \in Job /\ job[v].op # "none"
      BY <3>1 DEF WellFormed, TypeOK, Handlers
    <3>3. job[v].op \in Changes \cup {"Create"}
      BY <3>2 DEF Job, NoJob
    <3> QED BY <3>1, <3>2, <3>3, JobTypes DEF WellFormed, Clocked
  <2>4. /\ \A d \in debits' : d.createdAt < clock'
        /\ \A d, e \in debits' : d.createdAt = e.createdAt => d = e
    BY <1>2, <2>2 DEF WellFormed, Clocked
  <2>5. ASSUME NEW v \in Workers, pc'[v] = "commit"
        PROVE  /\ job'[v].now < clock'
               /\ \A d \in debits' : d.createdAt # job'[v].now
               /\ \A u \in Workers \ {v} : pc'[u] = "commit" => job'[u].now # job'[v].now
    <3>1. CASE v = w
      <4>1. job'[v].now = clock /\ clock < clock'
        BY <1>1, <2>5, <3>1
      <4>2. \A u \in Workers \ {w} : pc'[u] = "commit" => job'[u].now # clock
        BY <1>1, <1>2, <2>3
      <4> QED BY <1>2, <2>2, <3>1, <4>1, <4>2
    <3>2. CASE v # w
      <4>1. pc[v] = "commit" /\ job'[v] = job[v] /\ job[v].now \in Nat /\ job[v].now < clock
        BY <1>1, <2>3, <2>5, <3>2
      <4>2. pc'[w] = "commit" => job'[w].now = clock
        BY <1>1
      <4>3. \A u \in Workers \ {v} : pc'[u] = "commit" => job'[u].now # job[v].now
        BY <1>1, <1>2, <4>1, <4>2 DEF WellFormed, Clocked
      <4>4. \A d \in debits : d.createdAt # job[v].now
        BY <4>1 DEF WellFormed, Clocked
      <4> QED BY <1>2, <4>1, <4>3, <4>4
    <3> QED BY <3>1, <3>2
  <2> QED BY <2>4, <2>5 DEF Clocked
<1> QED BY <1>3, <1>4

\* A handler that ends gives its id and its time to what it wrote, or to none.
LEMMA Finished ==
    ASSUME WellFormed, NEW w \in Workers, Finish(w), UNCHANGED clock,
           (Commits(w) /\ pc[w] = "commit") \/ UNCHANGED rows
    PROVE  Handlers' /\ Clocked'
<1>1. /\ pc'[w] = "idle" /\ job'[w].op = "none"
      /\ \A v \in Workers \ {w} : pc'[v] = pc[v] /\ job'[v] = job[v]
  BY FinishType DEF WellFormed, NoJob
<1>2. /\ DOMAIN expenses \subseteq DOMAIN expenses'
      /\ DOMAIN expenses' \subseteq DOMAIN expenses \cup {job[w].id}
  BY DEF Commits, Creates, Updates, Deactivates, Cancels, Touches, rows
<1>3. \/ debits' = debits
      \/ /\ pc[w] = "commit"
         /\ \E d : debits' = debits \cup {d} /\ d.createdAt = job[w].now
  BY DEF Commits, Creates, Updates, Deactivates, Cancels, Posts, rows
<1>4. Handlers'
  <2>1. ASSUME NEW v \in Workers \ {w}, job[v].op = "Create"
        PROVE  job[v].id \notin DOMAIN expenses'
    <3>1. CASE job[w].op = "Create"
      BY <1>2, <2>1, <3>1 DEF WellFormed, Handlers
    <3>2. CASE job[w].op \in Changes
      BY <1>2, <2>1, <3>2 DEF WellFormed, Handlers
    <3>3. CASE pc[w] = "idle" \/ DOMAIN expenses' = DOMAIN expenses
      <4>1. DOMAIN expenses' = DOMAIN expenses
        BY <3>3 DEF rows
      <4> QED BY <2>1, <4>1 DEF WellFormed, Handlers
    <3>4. job[w] \in Job /\ (pc[w] # "idle" => job[w].op # "none")
      BY DEF WellFormed, TypeOK, Handlers
    <3>5. job[w].op \in Changes \cup {"Create", "none"}
      BY <3>4 DEF Job, NoJob
    <3> QED BY <3>1, <3>2, <3>3, <3>4, <3>5
  <2> QED BY <1>1, <1>2, <2>1 DEF WellFormed, Handlers, Changes
<1>5. Clocked'
  <2>1. CASE debits' = debits
    BY <1>1, <2>1 DEF WellFormed, Clocked
  <2>2. CASE debits' # debits
    <3>1. PICK d : debits' = debits \cup {d} /\ d.createdAt = job[w].now
      BY <1>3, <2>2
    <3>2. pc[w] = "commit"
      BY <1>3, <2>2
    <3>3. /\ d.createdAt < clock
          /\ \A e \in debits : e.createdAt # d.createdAt
          /\ \A v \in Workers \ {w} : pc[v] = "commit" => job[v].now # d.createdAt
      BY <3>1, <3>2 DEF WellFormed, Clocked
    <3>4. /\ \A e \in debits' : e.createdAt < clock'
          /\ \A e, f \in debits' : e.createdAt = f.createdAt => e = f
      BY <3>1, <3>3 DEF WellFormed, Clocked
    <3>5. ASSUME NEW v \in Workers, pc'[v] = "commit"
          PROVE  /\ job'[v].now < clock'
                 /\ \A e \in debits' : e.createdAt # job'[v].now
                 /\ \A u \in Workers \ {v} : pc'[u] = "commit" => job'[u].now # job'[v].now
      <4>1. v # w /\ pc[v] = "commit" /\ job'[v] = job[v]
        BY <1>1, <3>5
      <4> QED BY <1>1, <3>1, <3>3, <4>1 DEF WellFormed, Clocked
    <3> QED BY <3>4, <3>5 DEF Clocked
  <2> QED BY <2>1, <2>2
<1> QED BY <1>4, <1>5

LEMMA HandlersStep ==
    ASSUME WellFormed, [Next]_vars
    PROVE  Handlers' /\ Clocked'
<1>1. TypeOK' /\ clock \in Nat /\ clock + 1 >= clock /\ clock + 1 > clock /\ clock >= clock
  BY TypeStep DEF WellFormed, TypeOK
<1>2. ASSUME NEW w \in Workers, BeginCreate(w)
      PROVE  Handlers' /\ Clocked'
  <2>1. PICK x \in Ids \ DOMAIN expenses, j \in Journeys, a \in Amounts,
             s \in DOMAIN expenses \cup {NoId} :
            /\ \A v \in Workers : pc[v] # "idle" => job[v].id # x
            /\ Goto(w, "commit", [op |-> "Create", id |-> x, journey |-> j,
                                  amount |-> a, recreatedFrom |-> s, now |-> clock])
    BY <1>2 DEF BeginCreate
  <2>2. UNCHANGED rows /\ clock' = clock + 1
    BY <1>2 DEF BeginCreate
  <2> DEFINE c == [op |-> "Create", id |-> x, journey |-> j, amount |-> a,
                   recreatedFrom |-> s, now |-> clock]
  <2>3. c.op = "Create" /\ c.id = x /\ c.now = clock
    OBVIOUS
  <2> HIDE DEF c
  <2> QED BY <1>1, <2>1, <2>2, <2>3, Taken DEF c, Changes
<1>3. ASSUME NEW w \in Workers, BeginUpdate(w)
      PROVE  Handlers' /\ Clocked'
  <2>1. PICK x \in DOMAIN expenses, j \in Journeys, a \in Amounts :
            Goto(w, "collaborator", [op |-> "Update", id |-> x, journey |-> j,
                                     amount |-> a, now |-> 0])
    BY <1>3 DEF BeginUpdate
  <2>2. UNCHANGED rows /\ clock' = clock
    BY <1>3 DEF BeginUpdate
  <2> QED BY <1>1, <2>1, <2>2, Taken
<1>4. ASSUME NEW w \in Workers, ReadCollaborator(w)
      PROVE  Handlers' /\ Clocked'
  <2>1. UNCHANGED rows
    BY <1>4 DEF ReadCollaborator
  <2>2. CASE job[w].journey \in closed
    BY <1>4, <2>1, <2>2, Finished DEF ReadCollaborator
  <2>3. CASE job[w].journey \notin closed
    <3>1. Goto(w, "commit", [job[w] EXCEPT !.now = clock]) /\ clock' = clock + 1
      BY <1>4, <2>3 DEF ReadCollaborator
    <3>2. job[w].op = "Update" /\ job[w].op \in Changes /\ job[w] \in Job
      BY <1>4 DEF WellFormed, TypeOK, Handlers, ReadCollaborator, Changes
    <3> DEFINE c == [job[w] EXCEPT !.now = clock]
    <3>3. c.op = "Update" /\ c.id = job[w].id /\ c.now = clock
      BY <1>1, <3>2, JobTypes
    <3>4. c.id \in DOMAIN expenses
      BY <3>2, <3>3 DEF WellFormed, Handlers
    <3> HIDE DEF c
    <3> QED BY <1>1, <2>1, <3>1, <3>3, <3>4, Taken DEF c
  <2> QED BY <2>2, <2>3
<1>5. ASSUME NEW w \in Workers, BeginEnding(w)
      PROVE  Handlers' /\ Clocked'
  <2>1. PICK op \in {"Cancel", "Deactivate"}, x \in DOMAIN expenses :
            Goto(w, "commit", [op |-> op, id |-> x, journey |-> expenses[x].journey,
                               amount |-> expenses[x].amount, now |-> clock])
    BY <1>5 DEF BeginEnding
  <2>2. UNCHANGED rows /\ clock' = clock + 1
    BY <1>5 DEF BeginEnding
  <2> QED BY <1>1, <2>1, <2>2, Taken
<1>6. ASSUME NEW w \in Workers,
             CommitCreate(w) \/ CommitUpdate(w) \/ CommitDeactivate(w) \/ CommitCancel(w)
      PROVE  Handlers' /\ Clocked'
  <2>1. Finish(w) /\ UNCHANGED clock /\ pc[w] = "commit"
    BY <1>6 DEF CommitCreate, CommitUpdate, CommitDeactivate, CommitCancel, Committing
  <2> QED BY <1>6, <2>1, CommitKinds, Finished
<1>7. ASSUME CorrectEntry \/ ReturnReceipt \/ CloseJourney \/ UNCHANGED vars
      PROVE  Handlers' /\ Clocked'
  <2>1. UNCHANGED <<expenses, debits, clock, pc, job>>
    BY <1>7 DEF CorrectEntry, ReturnReceipt, CloseJourney, rows, vars
  <2> QED BY <2>1 DEF WellFormed, Handlers, Clocked
<1> QED BY <1>2, <1>3, <1>4, <1>5, <1>6, <1>7 DEF Next, Handling

LEMMA ChainsStep ==
    ASSUME WellFormed, [Next]_vars
    PROVE  Chains'
<1> USE DEF Chains, DebitsOf
<1>1. CASE UNCHANGED rows
  BY <1>1 DEF WellFormed, rows
<1>2. ASSUME NEW d, Creates(d) PROVE Chains'
  BY <1>2 DEF WellFormed, Creates, Posts
<1>3. ASSUME NEW d, Updates(d) PROVE Chains'
  BY <1>3 DEF WellFormed, Updates, Posts, Touches, Uncharges, Live
<1>4. ASSUME NEW x, Deactivates(x) \/ Cancels(x) PROVE Chains'
  BY <1>4 DEF WellFormed, Deactivates, Cancels, Touches, Uncharges, Live
<1>5. ASSUME NEW d, Corrects(d) \/ Returns(d) PROVE Chains'
  BY <1>5 DEF WellFormed, Corrects, Returns
<1> QED BY <1>1, <1>2, <1>3, <1>4, <1>5, StepKinds

LEMMA WellFormedInit == Init => WellFormed
<1> SUFFICES ASSUME Init PROVE WellFormed
  OBVIOUS
<1>1. DOMAIN expenses = {} /\ DOMAIN receipts = {} /\ NoJob.op = "none"
  BY DEF Init, NoJob
<1>2. TypeOK
  BY <1>1, JobTypes DEF Init, TypeOK
<1>3. Handlers /\ Clocked /\ Chains
  BY <1>1 DEF Init, Handlers, Clocked, Chains, Changes
<1> QED BY <1>2, <1>3 DEF WellFormed

LEMMA WellFormedStep == WellFormed /\ [Next]_vars => WellFormed'
BY TypeStep, HandlersStep, ChainsStep DEF WellFormed

LEMMA AlwaysWellFormed == Spec => []WellFormed
BY WellFormedInit, WellFormedStep, PTL DEF Spec

\* Rows, clock and jobs keep their types, however requests interleave (the
\* CHECK constraints and foreign keys of the schema).
THEOREM TypeCorrect == Spec => []TypeOK
<1>1. WellFormed => TypeOK
  BY DEF WellFormed
<1> QED BY <1>1, AlwaysWellFormed, PTL
(***************************************************************************)
(* The charge.                                                             *)
(***************************************************************************)
\* Nothing of x changes: its row, its debits, their receipts and reversals.
Kept(x) ==
    /\ expenses'[x] = expenses[x]
    /\ {d \in debits' : d.expense = x} = DebitsOf(x)
    /\ \A d \in DebitsOf(x) : receipts'[d] = receipts[d]
    /\ {r \in reversals' : r.of.expense = x}
        = {r \in reversals : r.of.expense = x}

\* An expense that is kept keeps its charge.
LEMMA ChargeKept ==
    ASSUME NEW x, Kept(x)
    PROVE  Live(x)' = Live(x) /\ Corrected(x)' = Corrected(x)
<1> USE DEF Kept
<1>1. DebitsOf(x)' = DebitsOf(x)
  BY DEF DebitsOf
<1>2. ASSUME NEW d \in DebitsOf(x)
      PROVE  Reversed(d)' = Reversed(d)
  <2>1. d.expense = x
    BY DEF DebitsOf
  <2> QED BY <2>1 DEF Reversed
<1>3. Live(x)' = Live(x)
  BY <1>1, <1>2 DEF Live
<1>4. Corrected(x)' = Corrected(x)
  BY DEF Corrected
<1> QED BY <1>3, <1>4

\* What a change of x does to the other expenses: nothing.
LEMMA OthersKept ==
    ASSUME WellFormed, NEW x, NEW y \in DOMAIN expenses \ {x},
           \/ \E d : d.expense = x /\ (Creates(d) \/ Updates(d) \/ Corrects(d) \/ Returns(d))
           \/ Deactivates(x) \/ Cancels(x)
    PROVE  y \in DOMAIN expenses' /\ Kept(y)
<1> USE DEF DebitsOf
<1>1. ASSUME NEW d, d.expense = x, Creates(d)
      PROVE  /\ y \in DOMAIN expenses' /\ expenses'[y] = expenses[y]
             /\ {e \in debits' : e.expense = y} = DebitsOf(y)
             /\ UNCHANGED reversals
             /\ \A e \in DebitsOf(y) : receipts'[e] = receipts[e]
  BY <1>1 DEF Creates, Posts
<1>2. ASSUME Uncharges(x)
      PROVE  {r \in reversals' : r.of.expense = y} = {r \in reversals : r.of.expense = y}
  BY <1>2 DEF Uncharges, Live
<1>3. ASSUME NEW d, d.expense = x, Updates(d)
      PROVE  /\ y \in DOMAIN expenses' /\ expenses'[y] = expenses[y]
             /\ {e \in debits' : e.expense = y} = DebitsOf(y)
             /\ Uncharges(x)
             /\ \A e \in DebitsOf(y) : receipts'[e] = receipts[e]
  BY <1>3 DEF Updates, Touches, Posts
<1>4. ASSUME Deactivates(x) \/ Cancels(x)
      PROVE  /\ y \in DOMAIN expenses' /\ expenses'[y] = expenses[y]
             /\ UNCHANGED debits
             /\ Uncharges(x)
             /\ \A e \in DebitsOf(y) : receipts'[e] = receipts[e]
  BY <1>4 DEF Deactivates, Cancels, Touches, CancelsReceipt
<1>5. ASSUME NEW d, d.expense = x, Corrects(d) \/ Returns(d)
      PROVE  /\ UNCHANGED <<expenses, debits>>
             /\ {r \in reversals' : r.of.expense = y} = {r \in reversals : r.of.expense = y}
             /\ \A e \in DebitsOf(y) : receipts'[e] = receipts[e]
  BY <1>5 DEF Corrects, Returns
<1> QED BY <1>1, <1>2, <1>3, <1>4, <1>5 DEF Kept

\* A debit that was just posted stands.
LEMMA PostedStands ==
    ASSUME WellFormed, NEW d, Posts(d), Uncharges(d.expense) \/ UNCHANGED reversals
    PROVE  ~Reversed(d)'
<1>1. d \notin debits /\ \A r \in reversals : r.of # d
  BY DEF WellFormed, Chains, Posts
<1>2. Uncharges(d.expense) => LatestDebit(d.expense) # d
  BY <1>1 DEF Uncharges, Live, DebitsOf
<1> QED BY <1>1, <1>2 DEF Uncharges, Reversed

\* If x was charged by one debit, its reversal leaves none of the old ones.
LEMMA UnchargedHasNone ==
    ASSUME NEW x \in DOMAIN expenses, ChargedOnce, Uncharges(x)
    PROVE  /\ Active(x) /\ ~Corrected(x)
           /\ \A e \in DebitsOf(x) : Reversed(e)'
           /\ ~Corrected(x)'
<1>1. PICK p \in Live(x) :
        /\ p = LatestDebit(x)
        /\ reversals' = reversals \cup {[of |-> p, by |-> "EXPENSES"]}
  BY DEF Uncharges
<1>2. Active(x) /\ ~Corrected(x) /\ Live(x) = {p}
  BY <1>1 DEF ChargedOnce
<1>3. \A e \in DebitsOf(x) : Reversed(e) \/ e = p
  BY <1>2 DEF Live
<1>4. \A e : Reversed(e) => Reversed(e)'
  BY <1>1 DEF Reversed
<1>5. Reversed(p)'
  <2>1. [of |-> p, by |-> "EXPENSES"] \in reversals'
    BY <1>1
  <2> QED BY <2>1 DEF Reversed
<1>6. ~Corrected(x)'
  BY <1>1, <1>2 DEF Corrected
<1>7. \A e \in DebitsOf(x) : Reversed(e)'
  BY <1>3, <1>4, <1>5
<1> QED BY <1>2, <1>6, <1>7

\* The conjunct of ChargedOnce about one expense.
Charged(x) ==
    IF Active(x) /\ ~Corrected(x)
    THEN \E d \in debits : /\ Live(x) = {d}
                           /\ d.journey = expenses[x].journey
                           /\ d.amount = expenses[x].amount
    ELSE Live(x) = {}

LEMMA ChargedKept ==
    ASSUME WellFormed, ChargedOnce, NEW x, NEW y \in DOMAIN expenses \ {x},
           \/ \E d : d.expense = x /\ (Creates(d) \/ Updates(d) \/ Corrects(d) \/ Returns(d))
           \/ Deactivates(x) \/ Cancels(x)
    PROVE  Charged(y)'
<1>1. y \in DOMAIN expenses' /\ Kept(y)
  BY OthersKept
<1>2. Live(y)' = Live(y) /\ Corrected(y)' = Corrected(y) /\ Active(y)' = Active(y)
  BY <1>1, ChargeKept DEF Active, Kept
<1>3. \A d \in Live(y) : d \in debits'
  BY <1>1 DEF Live, DebitsOf, Kept
<1> QED BY <1>1, <1>2, <1>3 DEF ChargedOnce, Charged, Kept

LEMMA ChargedOnceStep ==
    ASSUME WellFormed, ChargedOnce, [Next]_vars
    PROVE  ChargedOnce'
<1> SUFFICES ASSUME NEW y \in DOMAIN expenses' PROVE Charged(y)'
  BY DEF ChargedOnce, Charged
<1>1. CASE UNCHANGED rows
  BY <1>1 DEF ChargedOnce, Charged, Active, Corrected, Live, DebitsOf, Reversed, rows
<1>2. ASSUME NEW d, Creates(d) PROVE Charged(y)'
  <2>1. CASE y # d.expense
    BY <1>2, <2>1, ChargedKept DEF Creates
  <2>2. CASE y = d.expense
    <3>1. /\ Active(y)' /\ DebitsOf(y)' = {d}
          /\ d.journey = expenses'[y].journey /\ d.amount = expenses'[y].amount
      BY <1>2, <2>2 DEF WellFormed, Chains, Creates, Posts, Active, DebitsOf
    <3>2. ~Reversed(d)'
      BY <1>2, PostedStands DEF Creates
    <3>3. ~Corrected(y)'
      BY <1>2, <2>2 DEF WellFormed, Chains, Creates, Corrected
    <3>4. Live(y)' = {d} /\ d \in debits'
      BY <1>2, <3>1, <3>2 DEF Live, Creates, Posts
    <3> QED BY <3>1, <3>3, <3>4 DEF Charged
  <2> QED BY <2>1, <2>2
<1>3. ASSUME NEW d, Updates(d) PROVE Charged(y)'
  <2>1. CASE y # d.expense
    BY <1>3, <2>1, ChargedKept DEF Updates, Touches
  <2>2. CASE y = d.expense
    <3>1. y \in DOMAIN expenses /\ Uncharges(y) /\ Posts(d)
      BY <1>3, <2>2 DEF Updates, Touches
    <3>2. /\ Active(y)' /\ d.journey = expenses'[y].journey
          /\ d.amount = expenses'[y].amount
      BY <1>3, <2>2 DEF Updates, Touches, Active
    <3>3. /\ \A e \in DebitsOf(y) : Reversed(e)'
          /\ ~Corrected(y)'
      BY <3>1, UnchargedHasNone
    <3>4. ~Reversed(d)'
      BY <2>2, <3>1, PostedStands
    <3>5. DebitsOf(y)' = DebitsOf(y) \cup {d}
      BY <2>2, <3>1 DEF Posts, DebitsOf
    <3>6. Live(y)' = {d} /\ d \in debits'
      BY <3>1, <3>3, <3>4, <3>5 DEF Live, Posts
    <3> QED BY <3>2, <3>3, <3>6 DEF Charged
  <2> QED BY <2>1, <2>2
<1>4. ASSUME NEW x, Deactivates(x) \/ Cancels(x) PROVE Charged(y)'
  <2>1. CASE y # x
    BY <1>4, <2>1, ChargedKept DEF Deactivates, Cancels, Touches
  <2>2. CASE y = x
    <3>1. /\ y \in DOMAIN expenses /\ Uncharges(y) /\ UNCHANGED debits
          /\ ~Active(y)'
      BY <1>4, <2>2 DEF Deactivates, Cancels, Touches, Active
    <3>2. Live(y)' = {}
      BY <3>1, UnchargedHasNone DEF Live, DebitsOf
    <3> QED BY <3>1, <3>2 DEF Charged
  <2> QED BY <2>1, <2>2
<1>5. ASSUME NEW d, Corrects(d) PROVE Charged(y)'
  <2>1. CASE y # d.expense
    BY <1>5, <2>1, ChargedKept DEF Corrects
  <2>2. CASE y = d.expense
    <3>1. /\ y \in DOMAIN expenses /\ d \in Live(y) /\ UNCHANGED debits
      BY <1>5, <2>2 DEF Corrects, Live, DebitsOf
    <3>2. Live(y) = {d}
      BY <3>1 DEF ChargedOnce
    <3>3. [of |-> d, by |-> "CURRENT_ACCOUNT"] \in reversals'
      BY <1>5 DEF Corrects
    <3>4. Corrected(y)' /\ Reversed(d)'
      BY <2>2, <3>3 DEF Corrected, Reversed
    <3>5. \A e : Reversed(e) => Reversed(e)'
      BY <1>5 DEF Corrects, Reversed
    <3>6. Live(y)' = {}
      BY <3>1, <3>2, <3>4, <3>5 DEF Live, DebitsOf
    <3> QED BY <3>4, <3>6 DEF Charged
  <2> QED BY <2>1, <2>2
<1>6. ASSUME NEW d, Returns(d) PROVE Charged(y)'
  BY <1>6 DEF Returns, ChargedOnce, Charged, Active, Corrected, Live, DebitsOf, Reversed
<1> QED BY <1>1, <1>2, <1>3, <1>4, <1>5, <1>6, StepKinds

\* An active expense is charged exactly once, to the Journey and by the amount
\* of its row, and any other not at all, whatever changes overlap; what the
\* current account corrected stays uncharged (Update, Cancel, Deactivate).
THEOREM ChargedExactlyOnce == Spec => []ChargedOnce
<1>1. Init => ChargedOnce
  BY DEF Init, ChargedOnce
<1>2. WellFormed /\ ChargedOnce /\ [Next]_vars => ChargedOnce'
  BY ChargedOnceStep
<1> QED BY <1>1, <1>2, AlwaysWellFormed, PTL DEF Spec
(***************************************************************************)
(* Receipts.                                                               *)
(***************************************************************************)
LEMMA OwesNoReceiptStep ==
    ASSUME WellFormed, CancelledOwesNoReceipt, [Next]_vars
    PROVE  CancelledOwesNoReceipt'
<1> USE DEF CancelledOwesNoReceipt
<1>1. CASE UNCHANGED rows
  BY <1>1 DEF rows
<1>2. ASSUME NEW d, Creates(d) PROVE CancelledOwesNoReceipt'
  BY <1>2 DEF WellFormed, Chains, Creates, Posts
<1>3. ASSUME NEW d, Updates(d) PROVE CancelledOwesNoReceipt'
  BY <1>3 DEF WellFormed, Chains, Updates, Posts, Touches
<1>4. ASSUME NEW x, Deactivates(x) PROVE CancelledOwesNoReceipt'
  BY <1>4 DEF WellFormed, Chains, Deactivates, Touches
<1>5. ASSUME NEW x, Cancels(x) PROVE CancelledOwesNoReceipt'
  BY <1>5 DEF WellFormed, Chains, Cancels, Touches, CancelsReceipt
<1>6. ASSUME NEW d, Corrects(d) \/ Returns(d) PROVE CancelledOwesNoReceipt'
  BY <1>6 DEF Corrects, Returns
<1> QED BY <1>1, <1>2, <1>3, <1>4, <1>5, <1>6, StepKinds

LEMMA AlwaysOwesNoReceipt == Spec => []CancelledOwesNoReceipt
<1>1. Init => CancelledOwesNoReceipt
  BY DEF Init, CancelledOwesNoReceipt
<1>2. WellFormed /\ CancelledOwesNoReceipt /\ [Next]_vars => CancelledOwesNoReceipt'
  BY OwesNoReceiptStep
<1> QED BY <1>1, <1>2, AlwaysWellFormed, PTL DEF Spec

\* No paper is owed for a cancelled expense, for whichever of its debits it
\* was printed (cancelOpenExpenseReceipt).
THEOREM CancelledOwesNothing == Spec => []CancelledOwesNoReceipt
BY AlwaysOwesNoReceipt

\* Paper that came back stays on record (the receipts' status triggers).
THEOREM ReturnedStays == Spec => ReturnedIsEvidence
<1> DEFINE StaysReturned == \A d \in DOMAIN receipts :
                      receipts[d] = "RETURNED" => receipts'[d] = "RETURNED"
<1>1. ASSUME WellFormed, [Next]_vars PROVE StaysReturned
  <2> DOMAIN receipts = debits
    BY <1>1 DEF WellFormed, TypeOK
  <2>1. ASSUME NEW d, Creates(d) \/ Updates(d) PROVE StaysReturned
    BY <2>1 DEF Creates, Updates, Posts
  <2>2. ASSUME NEW x, Deactivates(x) \/ Cancels(x) PROVE StaysReturned
    BY <2>2 DEF Deactivates, Cancels, CancelsReceipt
  <2>3. ASSUME NEW d, Corrects(d) \/ Returns(d) PROVE StaysReturned
    BY <2>3 DEF Corrects, Returns
  <2>4. CASE UNCHANGED rows
    BY <2>4 DEF rows
  <2> QED BY <1>1, <2>1, <2>2, <2>3, <2>4, StepKinds
<1>2. WellFormed /\ [Next]_vars => [StaysReturned]_vars
  BY <1>1
<1> QED BY <1>2, AlwaysWellFormed, PTL DEF Spec, ReturnedIsEvidence

(***************************************************************************)
(* Cancellation and re-creation.                                           *)
(***************************************************************************)
\* A cancelled row does not change.
LEMMA CancelledRowKept ==
    ASSUME WellFormed, ChargedOnce, [Next]_vars,
           NEW x \in DOMAIN expenses, expenses[x].status = "CANCELLED"
    PROVE  x \in DOMAIN expenses' /\ expenses'[x] = expenses[x]
<1>1. ~Uncharges(x)
  BY UnchargedHasNone DEF Active
<1>2. CASE UNCHANGED rows
  BY <1>2 DEF rows
<1>3. ASSUME NEW d, Creates(d) \/ Updates(d)
      PROVE  x \in DOMAIN expenses' /\ expenses'[x] = expenses[x]
  BY <1>1, <1>3 DEF Creates, Updates, Touches
<1>4. ASSUME NEW y, Deactivates(y) \/ Cancels(y)
      PROVE  x \in DOMAIN expenses' /\ expenses'[x] = expenses[x]
  BY <1>1, <1>4 DEF Deactivates, Cancels, Touches
<1>5. ASSUME NEW d, Corrects(d) \/ Returns(d)
      PROVE  x \in DOMAIN expenses' /\ expenses'[x] = expenses[x]
  BY <1>5 DEF Corrects, Returns
<1> QED BY <1>2, <1>3, <1>4, <1>5, StepKinds

\* Nothing of a cancelled expense changes: neither of the two things a step
\* does to an expense, reversing its charge and posting one, is possible.
LEMMA CancelledKept ==
    ASSUME WellFormed, ChargedOnce, CancelledOwesNoReceipt, [Next]_vars,
           NEW x \in DOMAIN expenses, expenses[x].status = "CANCELLED"
    PROVE  Kept(x)
<1>1. ~Active(x) /\ Live(x) = {} /\ ~Uncharges(x)
  <2>1. ~Active(x)
    BY DEF Active
  <2> QED BY <2>1, UnchargedHasNone DEF ChargedOnce
<1>2. CASE UNCHANGED rows
  BY <1>2 DEF rows, DebitsOf, Kept
<1>3. ASSUME NEW d, Creates(d) \/ Updates(d) PROVE Kept(x)
  <2>1. d.expense # x
    BY <1>1, <1>3 DEF Creates, Updates
  <2> QED BY <1>3, <2>1, OthersKept
<1>4. ASSUME NEW y, Deactivates(y) \/ Cancels(y) PROVE Kept(x)
  <2>1. y # x
    BY <1>1, <1>4 DEF Deactivates, Cancels
  <2> QED BY <1>4, <2>1, OthersKept
<1>5. ASSUME NEW d, Corrects(d) PROVE Kept(x)
  <2>1. d.expense # x
    BY <1>1, <1>5 DEF Corrects, Live, DebitsOf
  <2> QED BY <1>5, <2>1, OthersKept
<1>6. ASSUME NEW d, Returns(d) PROVE Kept(x)
  <2>1. d.expense # x
    BY <1>6 DEF Returns, CancelledOwesNoReceipt
  <2> QED BY <1>6, <2>1, OthersKept
<1> QED BY <1>2, <1>3, <1>4, <1>5, <1>6, StepKinds

\* A cancellation is the end of an expense, whatever change was under way when
\* it committed: row, debits, reversals and receipts stay (Update, Deactivate,
\* the receipts' return and the account's corrections included).
THEOREM CancellationFinal == Spec => CancelIsFinal
<1> DEFINE Final == \A x \in DOMAIN expenses :
                        expenses[x].status = "CANCELLED" => Kept(x)
<1>1. WellFormed /\ ChargedOnce /\ CancelledOwesNoReceipt /\ [Next]_vars => [Final]_vars
  BY CancelledKept
<1> QED
  BY <1>1, AlwaysWellFormed, ChargedExactlyOnce, AlwaysOwesNoReceipt, PTL
  DEF Spec, CancelIsFinal, Kept

\* What an expense was recreated from exists.
Sources ==
    \A x \in DOMAIN expenses :
        expenses[x].recreatedFrom # NoId => expenses[x].recreatedFrom \in DOMAIN expenses

LEMMA RecreatedStep ==
    ASSUME WellFormed, ChargedOnce, Sources, RecreatedOnce, [Next]_vars
    PROVE  Sources' /\ RecreatedOnce'
<1>1. \A s \in DOMAIN expenses : expenses[s].status = "CANCELLED" =>
            s \in DOMAIN expenses' /\ expenses'[s].status = "CANCELLED"
  BY CancelledRowKept
<1>2. CASE /\ DOMAIN expenses' = DOMAIN expenses
           /\ \A x \in DOMAIN expenses : expenses'[x].recreatedFrom = expenses[x].recreatedFrom
  BY <1>1, <1>2 DEF Sources, RecreatedOnce
<1>3. ASSUME NEW d, Creates(d)
      PROVE  Sources' /\ RecreatedOnce'
  <2> DEFINE x == d.expense
             s == expenses'[x].recreatedFrom
  <2>1. /\ x \notin DOMAIN expenses
        /\ DOMAIN expenses' = DOMAIN expenses \cup {x}
        /\ \A y \in DOMAIN expenses : expenses'[y] = expenses[y]
    BY <1>3 DEF Creates
  <2>2. s # NoId => /\ s \in DOMAIN expenses /\ expenses[s].status = "CANCELLED"
                    /\ \A y \in DOMAIN expenses : expenses[y].recreatedFrom # s
    BY <1>3 DEF Creates, MayRecreate, Recreated
  <2> HIDE DEF x, s
  <2>3. Sources'
    BY <2>1, <2>2 DEF Sources, s
  <2>4. \A y, z \in DOMAIN expenses' :
            expenses'[y].recreatedFrom # NoId =>
                /\ expenses'[expenses'[y].recreatedFrom].status = "CANCELLED"
                /\ expenses'[z].recreatedFrom = expenses'[y].recreatedFrom => y = z
    BY <2>1, <2>2 DEF Sources, RecreatedOnce, s
  <2> QED BY <2>3, <2>4 DEF RecreatedOnce
<1>4. ASSUME NEW d, Updates(d) PROVE Sources' /\ RecreatedOnce'
  BY <1>2, <1>4 DEF Updates, Touches
<1>5. ASSUME NEW x, Deactivates(x) \/ Cancels(x) PROVE Sources' /\ RecreatedOnce'
  BY <1>2, <1>5 DEF Deactivates, Cancels, Touches
<1>6. ASSUME NEW d, Corrects(d) \/ Returns(d) PROVE Sources' /\ RecreatedOnce'
  BY <1>2, <1>6 DEF Corrects, Returns
<1>7. CASE UNCHANGED rows
  BY <1>2, <1>7 DEF rows
<1> QED BY <1>3, <1>4, <1>5, <1>6, <1>7, StepKinds

\* An expense is recreated at most once and only once cancelled, although the
\* service's look and the trigger's are two steps with other requests between.
THEOREM RecreatedAtMostOnce == Spec => []RecreatedOnce
<1>1. Init => Sources /\ RecreatedOnce
  BY DEF Init, Sources, RecreatedOnce
<1>2. WellFormed /\ ChargedOnce /\ Sources /\ RecreatedOnce /\ [Next]_vars
        => Sources' /\ RecreatedOnce'
  BY RecreatedStep
<1> QED BY <1>1, <1>2, AlwaysWellFormed, ChargedExactlyOnce, PTL DEF Spec

\* In order: the debit that stands is the latest.
LEMMA StandingIsLatest ==
    ASSUME WellFormed, ChargedOnce, NEW x \in DOMAIN expenses, Active(x),
           ~Corrected(x), ~Overtaken(x)
    PROVE  ReversalFree(LatestDebit(x))
<1>1. PICK d \in debits : Live(x) = {d}
  BY DEF ChargedOnce
<1>2. d \in DebitsOf(x) /\ ~Reversed(d)
  BY <1>1 DEF Live
<1>3. /\ LatestDebit(x) \in DebitsOf(x)
      /\ LatestDebit(x).createdAt >= d.createdAt
  BY <1>2, LatestDebitIsLatest DEF WellFormed, Chains
<1>4. /\ LatestDebit(x) \in debits /\ d \in debits
      /\ LatestDebit(x).createdAt \in Nat /\ d.createdAt \in Nat
  BY <1>1, <1>3 DEF WellFormed, TypeOK, DebitsOf, Debit
<1>5. ~(d.createdAt < LatestDebit(x).createdAt)
  BY <1>2, <1>3 DEF Overtaken
<1>6. LatestDebit(x).createdAt = d.createdAt
  BY <1>3, <1>4, <1>5
<1>7. LatestDebit(x) = d
  BY <1>4, <1>6 DEF WellFormed, Clocked
<1> QED BY <1>2, <1>7 DEF ReversalFree

\* Only the commit itself takes a handler out of its cancellation.
LEMMA OnlyCancelEnds ==
    ASSUME WellFormed, [Next]_vars, NEW w \in Workers, Committing(w, "Cancel"),
           pc'[w] = "idle"
    PROVE  CommitCancel(w)
<1>1. pc[w] = "commit" /\ job[w].op = "Cancel" /\ pc \in [Workers -> {"idle", "collaborator", "commit"}]
  BY DEF Committing, WellFormed, TypeOK
<1>2. ASSUME NEW v \in Workers \ {w}, Handling(v) PROVE pc'[w] = pc[w]
  BY <1>1, <1>2 DEF Handling, BeginCreate, CommitCreate, BeginUpdate, ReadCollaborator,
     CommitUpdate, BeginEnding, CommitCancel, CommitDeactivate, Goto, Finish
<1>3. ASSUME Handling(w) PROVE CommitCancel(w)
  BY <1>1, <1>3 DEF Handling, BeginCreate, CommitCreate, BeginUpdate, ReadCollaborator,
     CommitUpdate, BeginEnding, CommitDeactivate, Committing, Idle
<1>4. ASSUME CorrectEntry \/ ReturnReceipt \/ CloseJourney \/ UNCHANGED vars
      PROVE  pc' = pc
  BY <1>4 DEF CorrectEntry, ReturnReceipt, CloseJourney, vars
<1> QED BY <1>1, <1>2, <1>3, <1>4 DEF Next

\* An active expense resists its cancellation only where the current account
\* corrected its charge, or where two updates committed in another order than
\* they read the clock (latestExpenseLedgerEntry, the index on reversals).
THEOREM CancellationSucceeds == Spec => CancelSucceedsInOrder
<1> DEFINE Succeeds == \A w \in Workers :
                LET x == job[w].id
                IN  Committing(w, "Cancel") =>
                        Corrected(x) \/ Overtaken(x) \/ CancelSucceeds(w)
<1>1. ASSUME WellFormed, ChargedOnce, [Next]_vars PROVE Succeeds
  <2> SUFFICES ASSUME NEW w \in Workers, Committing(w, "Cancel"),
                      ~Corrected(job[w].id), ~Overtaken(job[w].id),
                      Active(job[w].id), pc'[w] = "idle"
               PROVE  expenses'[job[w].id].status = "CANCELLED"
    BY DEF CancelSucceeds
  <2>1. CommitCancel(w)
    BY <1>1, OnlyCancelEnds
  <2>2. job[w].id \in DOMAIN expenses
    BY DEF Active
  <2>3. ReversalFree(LatestDebit(job[w].id))
    BY <1>1, <2>2, StandingIsLatest
  <2>4. expenses' = [expenses EXCEPT ![job[w].id].status = "CANCELLED"]
    BY <2>1, <2>3 DEF CommitCancel
  <2> QED BY <1>1, <2>2, <2>4 DEF WellFormed, TypeOK, Expense
<1>2. WellFormed /\ ChargedOnce /\ [Next]_vars => [Succeeds]_vars
  BY <1>1
<1> QED
  BY <1>2, AlwaysWellFormed, ChargedExactlyOnce, PTL DEF Spec, CancelSucceedsInOrder
=============================================================================
