-------------------------- MODULE PlanningPage_proofs --------------------------
(***************************************************************************)
(* Theorems about the Work Period page and its server for every set of     *)
(* Collaborators, every number of requests under way, every scenario and   *)
(* every budget.                                                           *)
(***************************************************************************)
EXTENDS PlanningPage, SequenceTheorems, WellFoundedInduction, TLAPS

(***************************************************************************)
(* Sequences.                                                              *)
(***************************************************************************)
\* A set of naturals in which nothing is least is empty.
LEMMA NoLeast ==
    ASSUME NEW T \in SUBSET Nat, \A n \in T : \E m \in T : m < n
    PROVE  T = {}
<1> SUFFICES ASSUME T # {} PROVE FALSE
  OBVIOUS
<1>1. PICK n \in T : \A m \in T : ~(<<m, n>> \in OpToRel(<, Nat))
  BY NatLessThanWellFounded, WFMin
<1> QED BY <1>1 DEF OpToRel

\* What is picked from a sequence is a sequence of the same things.
LEMMA PickedType ==
    ASSUME NEW S, NEW s \in Seq(S), NEW at
    PROVE  Picked(s, at) \in Seq(S)
<1> DEFINE N == Len(s)
           Extend(f, n) == IF n = 0 THEN <<>>
                           ELSE IF n \in at THEN Append(f[n - 1], s[n]) ELSE f[n - 1]
           Fits(f, m) == f = [n \in 0..m |-> Extend(f, n)]
           upTo == CHOOSE f : Fits(f, N)
           missing == {m \in 0..N : ~\E f \in [0..m -> Seq(S)] : Fits(f, m)}
           wrong == {m \in 0..N : upTo[m] \notin Seq(S)}
<1>1. N \in Nat /\ \A n \in 1..N : s[n] \in S
  OBVIOUS
<1>2. ASSUME NEW m \in missing PROVE \E k \in missing : k < m
  <2>1. CASE m = 0
    <3>1. [n \in 0..0 |-> <<>>] \in [0..0 -> Seq(S)] /\ Fits([n \in 0..0 |-> <<>>], 0)
      OBVIOUS
    <3> QED BY <1>2, <2>1, <3>1
  <2>2. CASE m # 0 /\ m - 1 \notin missing
    <3>1. m - 1 \in 0..N /\ m \in 0..N
      BY <1>1, <1>2, <2>2
    <3>2. PICK f \in [0..(m - 1) -> Seq(S)] : Fits(f, m - 1)
      BY <2>2, <3>1
    <3> DEFINE g == [n \in 0..m |-> Extend(f, n)]
    <3>3. \A n \in 0..(m - 1) : g[n] = f[n]
      <4> HIDE DEF Extend
      <4> QED BY <3>1, <3>2
    <3>4. \A n \in 0..m : Extend(g, n) = Extend(f, n)
      <4> HIDE DEF g
      <4>1. \A n \in 0..m : n # 0 => n - 1 \in 0..(m - 1)
        BY <1>1, <3>1
      <4> QED BY <3>3, <4>1
    <3>7. Fits(g, m)
      <4> HIDE DEF Extend
      <4> QED BY <3>4
    <3>5. \A n \in 0..m : Extend(f, n) \in Seq(S)
      <4>1. ASSUME NEW n \in 0..m, n # 0 PROVE f[n - 1] \in Seq(S) /\ s[n] \in S
        BY <1>1, <3>1, <3>2, <4>1
      <4>2. ASSUME NEW n \in 0..m, n # 0 PROVE Append(f[n - 1], s[n]) \in Seq(S)
        BY <4>1, <4>2
      <4> QED BY <4>1, <4>2
    <3>6. g \in [0..m -> Seq(S)]
      BY <3>5
    <3>8. ~\E h \in [0..m -> Seq(S)] : Fits(h, m)
      <4> HIDE DEF Fits
      <4> QED BY <1>2
    <3> HIDE DEF g, Fits, missing
    <3> QED BY <3>6, <3>7, <3>8
  <2>3. CASE m # 0 /\ m - 1 \in missing
    <3>1. m \in 0..N
      BY <1>2
    <3> HIDE DEF missing
    <3>2. m - 1 < m
      BY <1>1, <3>1
    <3> QED BY <2>3, <3>2
  <2> QED BY <2>1, <2>2, <2>3
<1>3. missing = {}
  <2> HIDE DEF missing
  <2>1. missing \in SUBSET Nat
    BY DEF missing
  <2> QED BY <1>2, <2>1, NoLeast
<1>4. \E f : Fits(f, N)
  <2> HIDE DEF Fits
  <2>1. N \in 0..N
    BY <1>1
  <2> QED BY <1>3, <2>1
<1>5. Fits(upTo, N)
  <2> HIDE DEF Fits
  <2> QED BY <1>4
<1>6. ASSUME NEW m \in wrong PROVE \E k \in wrong : k < m
  <2> HIDE DEF upTo
  <2>1. upTo[m] = Extend(upTo, m) /\ m \in 0..N /\ upTo[m] \notin Seq(S)
    BY <1>5, <1>6
  <2>2. m # 0
    <3>1. <<>> \in Seq(S)
      OBVIOUS
    <3> QED BY <2>1, <3>1
  <2>3. m - 1 \in wrong
    <3> SUFFICES ASSUME upTo[m - 1] \in Seq(S) PROVE FALSE
      BY <1>1, <2>1, <2>2
    <3>1. s[m] \in S
      BY <1>1, <2>1, <2>2
    <3>2. Append(upTo[m - 1], s[m]) \in Seq(S)
      BY <3>1
    <3> QED BY <2>1, <2>2, <3>2
  <2> QED BY <1>1, <2>1, <2>3
<1>7. wrong = {}
  <2> HIDE DEF wrong
  <2>1. wrong \in SUBSET Nat
    BY DEF wrong
  <2> QED BY <1>6, <2>1, NoLeast
<1>8. upTo[N] \in Seq(S)
  BY <1>1, <1>7
<1> QED BY <1>8 DEF Picked

(***************************************************************************)
(* Types.                                                                  *)
(***************************************************************************)
RunStatuses == {"DRAFT", "PENDING_INPUT", "READY_TO_POST", "POSTED"}
Periods == {"PLANNING", "INFORMED", "PARTIALLY_POSTED", "FULLY_POSTED"}
Calcs == {"OUTCOME", "ABSENT", "TIME_OFF_REPLACEMENT", "TIME_OFF_RETAINED",
          "TIME_OFF_REPLACEMENT_CREDIT", "SICK_REPLACEMENT",
          "SICK_REPLACEMENT_DEBIT", "SICK_REPLACEMENT_CREDIT", "COMMISSION"}
Dirs == {"CREDIT", "DEBIT"}
Waiting == {"PENDING", "READY", "SKIPPED"}
SomeoneOrNo == Collaborators \cup {NoOne}
Plans == [Collaborators -> Rows]

Lines == [of : Collaborators, calc : Calcs, dir : Dirs, status : Waiting]
Items == [run : Nat, made : Nat, of : Collaborators, calc : Calcs, dir : Dirs,
          status : Waiting \cup {"POSTED"}]
Entries == [made : Nat, of : Collaborators, calc : Calcs, dir : Dirs]

SentRows == [of : Collaborators, selected : BOOLEAN, away : BOOLEAN,
             changed : BOOLEAN, covers : SomeoneOrNo]
FormRows == [selected : BOOLEAN, away : BOOLEAN, original : BOOLEAN,
             covers : SomeoneOrNo]
TemplateRows == [selected : BOOLEAN, away : BOOLEAN, covers : SomeoneOrNo]
RunRows == [status : RunStatuses, ready : BOOLEAN]

(* Requests, by how far they are.                                          *)
Senders == {"page", "tabLeft", "elsewhere"}
RequestKinds ==
    {"bulk", "outcome", "refine", "inform", "create", "calculate", "post"}

BulkSent == [kind : {"bulk"}, by : Senders, step : {"sent"}, rows : Seq(SentRows)]
BulkSaving ==
    [kind : {"bulk"}, by : Senders, step : {"saving"}, toSave : Seq(SentRows),
     toCover : Seq(SentRows), read : Plans, saved : Plans]
OutcomeSent ==
    [kind : {"outcome"}, by : Senders, step : {"sent"}, of : Collaborators,
     outcome : Outcomes]
OutcomeSaving ==
    [kind : {"outcome"}, by : Senders, step : {"saving"}, of : Collaborators,
     row : Rows]
Refining ==
    [kind : {"refine"}, by : Senders, step : {"sent", "done"}, of : SomeoneOrNo]
Informings == [kind : {"inform"}, by : Senders, step : {"sent", "saving"}]
Creating == [kind : {"create"}, by : Senders, step : {"sent"}]
Calculating ==
    [kind : {"create", "calculate"}, by : Senders, step : {"calculate"}, run : Nat]
Replacing ==
    [kind : {"create", "calculate"}, by : Senders, step : {"replace"}, run : Nat,
     items : SUBSET Items]
PostSent == [kind : {"post"}, by : Senders, step : {"sent"}, run : Nat]
PostPosting ==
    [kind : {"post"}, by : Senders, step : {"posting"}, run : Nat,
     ready : SUBSET Items, partial : BOOLEAN]
Ended == [kind : RequestKinds, by : Senders, step : {"done", "failed"}]

RequestTypes ==
    {Free} \cup BulkSent \cup BulkSaving \cup OutcomeSent \cup OutcomeSaving
    \cup Refining \cup Informings \cup Creating \cup Calculating
    \cup Replacing \cup PostSent \cup PostPosting \cup Ended

\* Items are of the n runs there are and the m calculations made, and a
\* request that names a run names one there is.
ItemsMade(is, n, m) == \A i \in is : i.run \in 1..n /\ i.made \in 1..m

InRange(q, n, m) ==
    /\ q \in Calculating \cup Replacing \cup PostSent \cup PostPosting
        => q.run \in 1..n
    /\ q \in Replacing => ItemsMade(q.items, n, m)
    /\ q \in PostPosting => ItemsMade(q.ready, n, m)

ServerTypes ==
    /\ period \in Periods
    /\ plan \in Plans
    /\ produced \in BOOLEAN
    /\ runs \in Seq(RunStatuses)
    /\ made \in Nat
    /\ items \subseteq Items /\ ItemsMade(items, Len(runs), made)
    /\ ledger \subseteq Entries /\ \A e \in ledger : e.made \in 1..made

RequestsTyped ==
    /\ requests \in [Slots -> RequestTypes]
    /\ \A s \in Slots : InRange(requests[s], Len(runs), made)

\* Runs are added and never removed, calculations counted and never forgotten.
Grows == Len(runs) <= Len(runs') /\ made <= made'

(***************************************************************************)
(* Requests.                                                               *)
(***************************************************************************)
\* What a request is follows from its kind and step.
LEMMA RequestForms ==
    ASSUME NEW q \in RequestTypes
    PROVE  /\ q.kind = "bulk" /\ q.step = "sent" => q \in BulkSent
           /\ q.kind = "bulk" /\ q.step = "saving" => q \in BulkSaving
           /\ q.kind = "outcome" /\ q.step = "sent" => q \in OutcomeSent
           /\ q.kind = "outcome" /\ q.step = "saving" => q \in OutcomeSaving
           /\ q.kind = "refine" /\ q.step = "sent" => q \in Refining
           /\ q.kind = "inform" /\ q.step \in {"sent", "saving"} => q \in Informings
           /\ q.kind = "create" /\ q.step = "sent" => q \in Creating
           /\ q.step = "calculate" => q \in Calculating
           /\ q.step = "replace" => q \in Replacing
           /\ q.kind = "post" /\ q.step = "sent" => q \in PostSent
           /\ q.kind = "post" /\ q.step = "posting" => q \in PostPosting
           /\ q # Free => q.by \in Senders /\ q.kind \in RequestKinds
BY DEF RequestTypes, BulkSent, BulkSaving, OutcomeSent, OutcomeSaving, Refining,
   Informings, Creating, Calculating, Replacing, PostSent, PostPosting, Ended, Free,
   RequestKinds

LEMMA InRangeKept ==
    ASSUME NEW n \in Nat, NEW m \in Nat, NEW n1 \in Nat, NEW m1 \in Nat, n <= n1, m <= m1,
           NEW q, InRange(q, n, m)
    PROVE  InRange(q, n1, m1)
<1>1. 1..n \subseteq 1..n1 /\ 1..m \subseteq 1..m1
  OBVIOUS
<1> QED BY <1>1 DEF InRange, ItemsMade

\* A request gives way to another; the others stay.
LEMMA BecomesTyped ==
    ASSUME RequestsTyped, ServerTypes, ServerTypes', Grows, NEW s \in Slots,
           NEW q \in RequestTypes, InRange(q, Len(runs'), made'), Becomes(s, q)
    PROVE  RequestsTyped'
<1>1. /\ requests' \in [Slots -> RequestTypes]
      /\ \A t \in Slots : requests'[t] = IF t = s THEN q ELSE requests[t]
  BY DEF RequestsTyped, Becomes
<1>2. /\ Len(runs) \in Nat /\ made \in Nat /\ Len(runs') \in Nat /\ made' \in Nat
      /\ Len(runs) <= Len(runs') /\ made <= made'
  BY DEF ServerTypes, Grows
<1>3. \A t \in Slots : InRange(requests[t], Len(runs), made)
  BY DEF RequestsTyped
<1>4. ASSUME NEW t \in Slots PROVE InRange(requests'[t], Len(runs'), made')
  <2>1. CASE t = s
    BY <1>1, <2>1
  <2>2. CASE t # s
    BY <1>1, <1>2, <1>3, <2>2, InRangeKept
  <2> QED BY <2>1, <2>2
<1> QED BY <1>1, <1>4 DEF RequestsTyped

\* What needs no run is in range.
LEMMA RunlessInRange ==
    ASSUME NEW q, NEW n, NEW m, \/ q.step \notin {"calculate", "replace", "posting"} /\ q.kind # "post"
                  \/ q.step \in {"done", "failed"}
    PROVE  InRange(q, n, m)
BY DEF InRange, Calculating, Replacing, PostSent, PostPosting

\* The server's state is as it was.
Still == UNCHANGED <<period, plan, produced, runs, items, made, ledger>>

LEMMA StillTypes ==
    ASSUME ServerTypes, Still
    PROVE  ServerTypes' /\ Grows
BY DEF ServerTypes, Still, Grows

\* A request under way ends.
LEMMA AnsweredTyped ==
    ASSUME RequestsTyped, ServerTypes, ServerTypes', Grows, NEW s \in Slots,
           requests[s] # Free, Done(s) \/ Refused(s)
    PROVE  RequestsTyped'
<1>1. requests[s] \in RequestTypes
  BY DEF RequestsTyped
<1>2. requests[s].kind \in RequestKinds /\ requests[s].by \in Senders
  BY <1>1, RequestForms
<1>3. PICK step \in {"done", "failed"} : Becomes(s, Answered(s, step))
  BY DEF Done, Refused
<1>4. Answered(s, step) \in RequestTypes
  BY <1>2 DEF Answered, RequestTypes, Ended
<1>5. InRange(Answered(s, step), Len(runs'), made')
  BY RunlessInRange DEF Answered
<1> QED BY <1>3, <1>4, <1>5, BecomesTyped

(***************************************************************************)
(* The server: the plan.                                                   *)
(***************************************************************************)
LEMMA RowsTyped ==
    /\ NoRow \in Rows
    /\ \A row \in SentRows, old \in Rows : SavedRow(row, old) \in Rows \ {NoRow}
    /\ \A row \in Rows, c \in SomeoneOrNo : row # NoRow => [row EXCEPT !.covers = c] \in Rows \ {NoRow}
    /\ \A row \in Rows, o \in Outcomes : row # NoRow => [row EXCEPT !.outcome = o] \in Rows
BY DEF Rows, NoRow, SentRows, SavedRow, SomeoneOrNo, Outcomes, Paid, Unmarked

LEMMA TailTyped ==
    ASSUME NEW S, NEW seq \in Seq(S), seq # <<>>
    PROVE  Head(seq) \in S /\ Tail(seq) \in Seq(S)
OBVIOUS

LEMMA BulkReadTypes ==
    ASSUME ServerTypes, RequestsTyped, NEW s \in Slots, BulkRead(s)
    PROVE  ServerTypes' /\ RequestsTyped' /\ Grows
<1> DEFINE sent == requests[s].rows
           q == [kind |-> "bulk", by |-> requests[s].by, step |-> "saving",
                 toSave |-> Picked(sent, {k \in DOMAIN sent : ShouldSave(sent[k])}),
                 toCover |-> Picked(sent, {k \in DOMAIN sent : sent[k].covers # NoOne}),
                 read |-> plan, saved |-> [c \in Collaborators |-> NoRow]]
<1>1. ServerTypes' /\ Grows /\ Becomes(s, q)
  BY StillTypes DEF BulkRead, Still
<1>2. requests[s] \in BulkSent
  BY RequestForms DEF BulkRead, At, RequestsTyped
<1>3. sent \in Seq(SentRows) /\ requests[s].by \in Senders
  BY <1>2 DEF BulkSent
<1>4. plan \in Plans /\ [c \in Collaborators |-> NoRow] \in Plans
  BY RowsTyped DEF ServerTypes, Plans
<1>5. \A at : Picked(sent, at) \in Seq(SentRows)
  BY <1>3, PickedType
<1>6. q \in RequestTypes
  BY <1>3, <1>4, <1>5 DEF RequestTypes, BulkSaving
<1>7. InRange(q, Len(runs'), made')
  BY RunlessInRange
<1> HIDE DEF q
<1> QED BY <1>1, <1>6, <1>7, BecomesTyped

\* A bulk request that is saving goes on saving, or is answered.
LEMMA BulkGoesOn ==
    ASSUME ServerTypes, RequestsTyped, NEW s \in Slots, NEW q \in BulkSaving,
           requests[s] \in BulkSaving, ServerTypes', Grows, Done(s) \/ Becomes(s, q)
    PROVE  RequestsTyped'
<1>1. CASE Done(s)
  <2>1. requests[s] # Free
    BY DEF BulkSaving, Free
  <2> QED BY <1>1, <2>1, AnsweredTyped
<1>2. CASE Becomes(s, q)
  <2>1. q \in RequestTypes
    BY DEF RequestTypes
  <2>2. q.step = "saving" /\ q.kind = "bulk"
    BY DEF BulkSaving
  <2> QED BY <1>2, <2>1, <2>2, RunlessInRange, BecomesTyped
<1> QED BY <1>1, <1>2

LEMMA PlanTyped ==
    ASSUME ServerTypes, NEW c \in Collaborators, NEW row \in Rows,
           plan' = [plan EXCEPT ![c] = row],
           UNCHANGED <<period, produced, runs, items, made, ledger>>
    PROVE  ServerTypes' /\ Grows
BY DEF ServerTypes, Plans, Grows

\* The next request of a save, once a row is saved or covers another.
LEMMA SavingTyped ==
    ASSUME NEW q \in BulkSaving, NEW c \in Collaborators, NEW row \in Rows
    PROVE  /\ q.toSave # <<>> =>
                [q EXCEPT !.toSave = Tail(@), !.saved[c] = row] \in BulkSaving
           /\ q.toCover # <<>> =>
                [q EXCEPT !.toCover = Tail(@), !.saved[c] = row] \in BulkSaving
<1>1. /\ q.toSave # <<>> => Tail(q.toSave) \in Seq(SentRows)
      /\ q.toCover # <<>> => Tail(q.toCover) \in Seq(SentRows)
  BY TailTyped DEF BulkSaving
<1>2. [q.saved EXCEPT ![c] = row] \in Plans
  BY DEF BulkSaving, Plans
<1> QED BY <1>1, <1>2 DEF BulkSaving

LEMMA BulkSaveTypes ==
    ASSUME ServerTypes, RequestsTyped, NEW s \in Slots, BulkSave(s)
    PROVE  ServerTypes' /\ RequestsTyped' /\ Grows
<1> DEFINE now == requests[s]
           row == Head(now.toSave)
           old == now.read[row.of]
           new == [now EXCEPT !.toSave = Tail(@), !.saved[row.of] = SavedRow(row, old)]
<1>1. now \in BulkSaving /\ now.toSave # <<>>
  BY RequestForms DEF BulkSave, At, RequestsTyped
<1>2. row \in SentRows
  BY <1>1, TailTyped DEF BulkSaving
<1>3. row.of \in Collaborators /\ old \in Rows
  BY <1>1, <1>2 DEF BulkSaving, SentRows, Plans
<1>4. SavedRow(row, old) \in Rows
  BY <1>2, <1>3, RowsTyped
<1>5. new \in BulkSaving
  BY <1>1, <1>3, <1>4, SavingTyped
<1>6. CASE old = NoRow /\ plan[row.of] # NoRow
  <2>1. Refused(s) /\ Still
    BY <1>6 DEF BulkSave, Still
  <2>2. now # Free
    BY <1>1 DEF BulkSaving, Free
  <2> QED BY <2>1, <2>2, StillTypes, AnsweredTyped
<1>7. CASE ~(old = NoRow /\ plan[row.of] # NoRow)
  <2>1. /\ plan' = [plan EXCEPT ![row.of] = SavedRow(row, old)]
        /\ Done(s) \/ Becomes(s, new)
        /\ UNCHANGED <<period, produced, runs, items, made, ledger>>
    BY <1>7 DEF BulkSave
  <2>2. ServerTypes' /\ Grows
    BY <1>3, <1>4, <2>1, PlanTyped
  <2> HIDE DEF new, now
  <2> QED BY <1>1, <1>5, <2>1, <2>2, BulkGoesOn DEF now
<1> QED BY <1>6, <1>7

LEMMA BulkCoverTypes ==
    ASSUME ServerTypes, RequestsTyped, NEW s \in Slots, BulkCover(s)
    PROVE  ServerTypes' /\ RequestsTyped' /\ Grows
<1> DEFINE now == requests[s]
           row == Head(now.toCover)
           covering == [now.saved[row.of] EXCEPT !.covers = row.covers]
           new == [now EXCEPT !.toCover = Tail(@), !.saved[row.of] = covering]
<1>1. now \in BulkSaving /\ now.toCover # <<>>
  BY RequestForms DEF BulkCover, At, RequestsTyped
<1>2. row \in SentRows
  BY <1>1, TailTyped DEF BulkSaving
<1>3. row.of \in Collaborators /\ row.covers \in SomeoneOrNo /\ now.saved[row.of] \in Rows
  BY <1>1, <1>2 DEF BulkSaving, SentRows, Plans
<1>4. CASE MayCover(now, row.of, row.covers)
  <2>1. /\ plan' = [plan EXCEPT ![row.of] = covering]
        /\ Done(s) \/ Becomes(s, new)
        /\ UNCHANGED <<period, produced, runs, items, made, ledger>>
    BY <1>4 DEF BulkCover
  <2>2. now.saved[row.of] # NoRow
    BY <1>4 DEF MayCover, NoRow
  <2>3. covering \in Rows
    BY <1>3, <2>2, RowsTyped
  <2>4. new \in BulkSaving
    BY <1>1, <1>3, <2>3, SavingTyped
  <2>5. ServerTypes' /\ Grows
    BY <1>3, <2>1, <2>3, PlanTyped
  <2> HIDE DEF new, now
  <2> QED BY <1>1, <2>1, <2>4, <2>5, BulkGoesOn DEF now
<1>5. CASE ~MayCover(now, row.of, row.covers)
  <2>1. Refused(s) /\ Still
    BY <1>5 DEF BulkCover, Still
  <2>2. now # Free
    BY <1>1 DEF BulkSaving, Free
  <2> QED BY <2>1, <2>2, StillTypes, AnsweredTyped
<1> QED BY <1>4, <1>5

LEMMA OutcomeTypes ==
    ASSUME ServerTypes, RequestsTyped, NEW s \in Slots, OutcomeRead(s) \/ OutcomeSave(s)
    PROVE  ServerTypes' /\ RequestsTyped' /\ Grows
<1> DEFINE now == requests[s]
<1>1. CASE OutcomeRead(s)
  <2> DEFINE row == plan[now.of]
             q == [kind |-> "outcome", by |-> now.by, step |-> "saving", of |-> now.of,
                   row |-> [row EXCEPT !.outcome = now.outcome]]
  <2>1. now \in OutcomeSent
    BY <1>1, RequestForms DEF OutcomeRead, At, RequestsTyped
  <2>2. /\ now.by \in Senders /\ now.of \in Collaborators /\ now.outcome \in Outcomes
        /\ row \in Rows /\ now # Free
    BY <2>1 DEF OutcomeSent, ServerTypes, Plans, Free
  <2>3. ServerTypes' /\ Grows
    BY <1>1, StillTypes DEF OutcomeRead, Still
  <2>4. CASE row.planned
    <3>1. Becomes(s, q)
      BY <1>1, <2>4 DEF OutcomeRead
    <3>2. [row EXCEPT !.outcome = now.outcome] \in Rows
      BY <2>2, <2>4, RowsTyped DEF NoRow
    <3>3. q \in RequestTypes
      BY <2>2, <3>2 DEF RequestTypes, OutcomeSaving
    <3>4. InRange(q, Len(runs'), made')
      BY RunlessInRange
    <3> HIDE DEF q
    <3> QED BY <2>3, <3>1, <3>3, <3>4, BecomesTyped
  <2>5. CASE ~row.planned
    <3>1. Refused(s)
      BY <1>1, <2>5 DEF OutcomeRead
    <3> QED BY <2>2, <2>3, <3>1, AnsweredTyped
  <2> QED BY <2>4, <2>5
<1>2. CASE OutcomeSave(s)
  <2>1. now \in OutcomeSaving
    BY <1>2, RequestForms DEF OutcomeSave, At, RequestsTyped
  <2>2. now.of \in Collaborators /\ now.row \in Rows /\ now # Free
    BY <2>1 DEF OutcomeSaving, Free
  <2>3. /\ plan' = [plan EXCEPT ![now.of] = now.row] /\ Done(s)
        /\ UNCHANGED <<period, produced, runs, items, made, ledger>>
    BY <1>2 DEF OutcomeSave
  <2>4. ServerTypes' /\ Grows
    BY <2>2, <2>3, PlanTyped
  <2> QED BY <2>2, <2>3, <2>4, AnsweredTyped
<1> QED BY <1>1, <1>2

LEMMA RefineInformTypes ==
    ASSUME ServerTypes, RequestsTyped, NEW s \in Slots,
           RefineSave(s) \/ InformRead(s) \/ InformSave(s)
    PROVE  ServerTypes' /\ RequestsTyped' /\ Grows
<1> DEFINE now == requests[s]
<1>1. CASE RefineSave(s)
  <2>1. now \in Refining
    BY <1>1, RequestForms DEF RefineSave, At, RequestsTyped
  <2>2. Becomes(s, [now EXCEPT !.step = "done"]) /\ ServerTypes' /\ Grows
    BY <1>1, StillTypes DEF RefineSave, Still
  <2>3. [now EXCEPT !.step = "done"] \in RequestTypes
    BY <2>1 DEF Refining, RequestTypes
  <2>4. InRange([now EXCEPT !.step = "done"], Len(runs'), made')
    BY <2>1, RunlessInRange DEF Refining
  <2> QED BY <2>2, <2>3, <2>4, BecomesTyped
<1>2. CASE InformRead(s)
  <2>1. now \in Informings
    BY <1>2, RequestForms DEF InformRead, At, RequestsTyped
  <2>2. ServerTypes' /\ Grows /\ now # Free
    BY <1>2, <2>1, StillTypes DEF InformRead, Still, Informings, Free
  <2>3. Becomes(s, [now EXCEPT !.step = "saving"]) \/ Done(s) \/ Refused(s)
    BY <1>2 DEF InformRead
  <2>4. [now EXCEPT !.step = "saving"] \in RequestTypes
    BY <2>1 DEF Informings, RequestTypes
  <2>5. InRange([now EXCEPT !.step = "saving"], Len(runs'), made')
    BY <2>1, RunlessInRange DEF Informings
  <2> QED BY <2>2, <2>3, <2>4, <2>5, BecomesTyped, AnsweredTyped
<1>3. CASE InformSave(s)
  <2>1. now # Free
    BY <1>3 DEF InformSave, At, Free
  <2>2. ServerTypes' /\ Grows /\ Done(s)
    BY <1>3 DEF InformSave, ServerTypes, Periods, Grows
  <2> QED BY <2>1, <2>2, AnsweredTyped
<1> QED BY <1>1, <1>2, <1>3

(***************************************************************************)
(* The server: accruals.                                                   *)
(***************************************************************************)
\* A request names a run there is.
LEMMA RunThere ==
    ASSUME ServerTypes, RequestsTyped, NEW s \in Slots,
           requests[s] \in Calculating \cup Replacing \cup PostSent \cup PostPosting
    PROVE  requests[s].run \in 1..Len(runs) /\ requests[s].run \in Nat
BY DEF ServerTypes, RequestsTyped, InRange

LEMMA CreateRunTypes ==
    ASSUME ServerTypes, RequestsTyped, NEW s \in Slots, CreateRun(s)
    PROVE  ServerTypes' /\ RequestsTyped' /\ Grows
<1> DEFINE q == [kind |-> "create", by |-> requests[s].by, step |-> "calculate",
                 run |-> Len(runs) + 1]
<1>1. requests[s].by \in Senders
  BY RequestForms DEF CreateRun, At, RequestsTyped, Creating
<1>2. /\ runs' = Append(runs, "DRAFT") /\ Becomes(s, q)
      /\ UNCHANGED <<period, plan, produced, items, made, ledger>>
  BY DEF CreateRun
<1>3. /\ runs' \in Seq(RunStatuses) /\ Len(runs') = Len(runs) + 1 /\ Len(runs) \in Nat
  BY <1>2 DEF ServerTypes, RunStatuses
<1>4. Grows
  BY <1>2, <1>3 DEF Grows, ServerTypes
<1>5. ItemsMade(items', Len(runs'), made')
  BY <1>2, <1>3 DEF ItemsMade, ServerTypes
<1>6. ServerTypes'
  BY <1>2, <1>3, <1>5 DEF ServerTypes
<1>7. q \in RequestTypes
  BY <1>1, <1>3 DEF RequestTypes, Calculating
<1>8. InRange(q, Len(runs'), made')
  BY <1>3 DEF InRange, Replacing, PostPosting
<1> HIDE DEF q
<1> QED BY <1>2, <1>4, <1>6, <1>7, <1>8, BecomesTyped

\* The lines of a Collaborator that is planned, whoever replaces it.
LEMMA LinesTyped ==
    ASSUME plan \in Plans, NEW c \in Included, NEW sub \in Included \cup {NoOne}
    PROVE  LinesFor(c, sub) \subseteq Lines
<1>1. c \in Collaborators /\ (sub # NoOne => sub \in Collaborators)
  BY DEF Included
<1>2. plan[c].outcome \in Outcomes \cup {Unmarked}
  BY <1>1 DEF Included, Plans, Rows, NoRow
<1>3. Due \in Waiting
  BY DEF Due, Waiting
<1>4. \A b \in Collaborators, calc \in Calcs, dir \in Dirs, st \in Waiting :
        Line(b, calc, dir, st) \in Lines
  BY DEF Line, Lines
<1>5. TimeOffLines(c, sub) \subseteq Lines
  BY <1>1, <1>3, <1>4 DEF TimeOffLines, Calcs, Dirs, Waiting
<1>6. SickLines(c, sub) \subseteq Lines
  BY <1>1, <1>3, <1>4 DEF SickLines, Calcs, Dirs, Waiting
<1>7. /\ Line(c, "OUTCOME", "CREDIT", "PENDING") \in Lines
      /\ Line(c, "ABSENT", "CREDIT", "SKIPPED") \in Lines
      /\ Line(c, "COMMISSION", "CREDIT", Due) \in Lines
  BY <1>1, <1>3, <1>4 DEF Calcs, Dirs, Waiting
<1> HIDE DEF Lines
<1>8. CASE plan[c].outcome = Unmarked
  BY <1>7, <1>8 DEF LinesFor, Unmarked, Paid
<1>9. CASE plan[c].outcome = "ABSENT"
  BY <1>7, <1>9 DEF LinesFor, Unmarked, Paid
<1>10. CASE plan[c].outcome \in Paid /\ ForTimeOff(c)
  BY <1>10 DEF LinesFor, Unmarked, Paid
<1>11. CASE plan[c].outcome = "TIME_OFF" /\ ~ForTimeOff(c)
  BY <1>5, <1>11 DEF LinesFor, Unmarked, Paid
<1>12. CASE plan[c].outcome = "WORKED" /\ ~ForTimeOff(c)
  BY <1>7, <1>12 DEF LinesFor, Unmarked, Paid
<1>13. CASE plan[c].outcome = "SICK_DAY_OFF" /\ ~ForTimeOff(c)
  BY <1>6, <1>7, <1>13 DEF LinesFor, Unmarked, Paid
<1> QED BY <1>2, <1>8, <1>9, <1>10, <1>11, <1>12, <1>13 DEF Outcomes, Paid

\* What a calculation makes: items of its run, none of them posted.
LEMMA CalculatedTyped ==
    ASSUME ServerTypes, NEW r \in Nat, NEW first \in FirstReplacement
    PROVE  \A i \in Calculated(r, first) :
            i \in Items /\ i.run = r /\ i.made = made + 1 /\ i.status # "POSTED"
<1>1. \A c \in Included : first[c] \in Included \cup {NoOne}
  BY DEF FirstReplacement
<1>2. \A l \in UNION {LinesFor(c, first[c]) : c \in Included} : l \in Lines
  BY <1>1, LinesTyped DEF ServerTypes
<1>3. ASSUME NEW i \in Calculated(r, first)
      PROVE  i \in Items /\ i.run = r /\ i.made = made + 1 /\ i.status # "POSTED"
  <2>1. PICK l \in UNION {LinesFor(c, first[c]) : c \in Included} :
            i = [run |-> r, made |-> made + 1, of |-> l.of, calc |-> l.calc,
                 dir |-> l.dir, status |-> l.status]
    BY DEF Calculated
  <2>2. l \in Lines
    BY <1>2
  <2>3. /\ l.of \in Collaborators /\ l.calc \in Calcs /\ l.dir \in Dirs /\ l.status \in Waiting
        /\ made + 1 \in Nat
    BY <2>2 DEF Lines, ServerTypes
  <2> QED BY <2>1, <2>3 DEF Items, Waiting
<1> QED BY <1>3

LEMMA CalculateTypes ==
    ASSUME ServerTypes, RequestsTyped, NEW s \in Slots, Calculate(s)
    PROVE  ServerTypes' /\ RequestsTyped' /\ Grows
<1> DEFINE r == requests[s].run
<1>1. requests[s] \in Calculating
  BY RequestForms DEF Calculate, RequestsTyped
<1>2. /\ r \in 1..Len(runs) /\ r \in Nat /\ requests[s].by \in Senders
      /\ requests[s].kind \in {"create", "calculate"} /\ requests[s] # Free
  BY <1>1, RunThere DEF Calculating, Free
<1>3. UNCHANGED <<period, plan, produced, runs, items, ledger>>
  BY DEF Calculate
<1>4. CASE runs[r] = "POSTED"
  <2>1. Refused(s) /\ Still
    BY <1>3, <1>4 DEF Calculate, Still
  <2> QED BY <1>2, <2>1, StillTypes, AnsweredTyped
<1>5. CASE runs[r] # "POSTED"
  <2>1. PICK first \in FirstReplacement :
            /\ made' = made + 1
            /\ Becomes(s, [kind |-> requests[s].kind, by |-> requests[s].by,
                           step |-> "replace", run |-> r, items |-> Calculated(r, first)])
    BY <1>5 DEF Calculate
  <2> DEFINE new == Calculated(r, first)
             q == [kind |-> requests[s].kind, by |-> requests[s].by,
                   step |-> "replace", run |-> r, items |-> new]
  <2>2. \A i \in new : i \in Items /\ i.run = r /\ i.made = made + 1
    BY <1>2, CalculatedTyped
  <2>3. made \in Nat /\ made' = made + 1
    BY <2>1 DEF ServerTypes
  <2>4. Grows
    BY <1>3, <2>3 DEF Grows, ServerTypes
  <2>5. ItemsMade(items', Len(runs'), made') /\ \A e \in ledger' : e.made \in 1..made'
    BY <1>3, <2>3 DEF ItemsMade, ServerTypes
  <2>6. ServerTypes'
    BY <1>3, <2>3, <2>5 DEF ServerTypes
  <2>7. ItemsMade(new, Len(runs'), made')
    BY <1>2, <1>3, <2>2, <2>3 DEF ItemsMade
  <2> HIDE DEF new, r
  <2>8. q \in RequestTypes
    BY <1>2, <2>2 DEF RequestTypes, Replacing
  <2>9. InRange(q, Len(runs'), made')
    BY <1>2, <1>3, <2>7 DEF InRange, PostPosting
  <2>10. Becomes(s, q)
    BY <2>1 DEF r, new
  <2> HIDE DEF q
  <2> QED BY <2>4, <2>6, <2>8, <2>9, <2>10, BecomesTyped
<1> QED BY <1>4, <1>5

\* A run gets another status.
LEMMA RunStatusTyped ==
    ASSUME ServerTypes, NEW r \in 1..Len(runs), NEW st \in RunStatuses,
           runs' = [runs EXCEPT ![r] = st]
    PROVE  runs' \in Seq(RunStatuses) /\ Len(runs') = Len(runs)
BY ExceptSeq DEF ServerTypes

LEMMA ReplaceItemsTypes ==
    ASSUME ServerTypes, RequestsTyped, NEW s \in Slots, ReplaceItems(s)
    PROVE  ServerTypes' /\ RequestsTyped' /\ Grows
<1> DEFINE now == requests[s]
<1>1. now \in Replacing
  BY RequestForms DEF ReplaceItems, RequestsTyped
<1>2. now.run \in 1..Len(runs) /\ ItemsMade(now.items, Len(runs), made)
  BY <1>1 DEF RequestsTyped, InRange
<1>3. now.items \subseteq Items /\ now # Free
  BY <1>1 DEF Replacing, Free
<1>4. /\ items' = Kept(now.run) \cup now.items
      /\ runs' = [runs EXCEPT ![now.run] = StatusFor(now.items)]
      /\ Done(s) /\ UNCHANGED <<period, plan, produced, made, ledger>>
  BY DEF ReplaceItems
<1>5. runs' \in Seq(RunStatuses) /\ Len(runs') = Len(runs)
  <2>1. StatusFor(now.items) \in RunStatuses
    BY DEF StatusFor, RunStatuses
  <2> QED BY <1>2, <1>4, <2>1, RunStatusTyped
<1>6. Kept(now.run) \subseteq items
  BY DEF Kept
<1>7. items' \subseteq Items /\ ItemsMade(items', Len(runs'), made')
  BY <1>2, <1>3, <1>4, <1>5, <1>6 DEF ServerTypes, ItemsMade
<1>8. ServerTypes'
  BY <1>4, <1>5, <1>7 DEF ServerTypes
<1>9. Grows
  BY <1>4, <1>5 DEF Grows, ServerTypes
<1> QED BY <1>3, <1>4, <1>8, <1>9, AnsweredTyped

LEMMA PostReadTypes ==
    ASSUME ServerTypes, RequestsTyped, NEW s \in Slots, PostRead(s)
    PROVE  ServerTypes' /\ RequestsTyped' /\ Grows
<1> DEFINE now == requests[s]
           r == now.run
           q == [kind |-> "post", by |-> now.by, step |-> "posting", run |-> r,
                 ready |-> ItemsOf(r, "READY"), partial |-> ItemsOf(r, "PENDING") # {}]
<1>1. now \in PostSent
  BY RequestForms DEF PostRead, At, RequestsTyped
<1>2. r \in 1..Len(runs) /\ r \in Nat /\ now.by \in Senders /\ now # Free
  BY <1>1, RunThere DEF PostSent, Free
<1>3. ServerTypes' /\ Grows /\ UNCHANGED <<runs, made>>
  BY StillTypes DEF PostRead, Still
<1>4. Done(s) \/ Refused(s) \/ Becomes(s, q)
  BY DEF PostRead
<1>5. ItemsOf(r, "READY") \subseteq Items /\ ItemsMade(ItemsOf(r, "READY"), Len(runs), made)
  BY DEF ItemsOf, ServerTypes, ItemsMade
<1>6. q \in RequestTypes
  BY <1>2, <1>5 DEF RequestTypes, PostPosting
<1>7. InRange(q, Len(runs'), made')
  BY <1>2, <1>3, <1>5 DEF InRange, Replacing
<1> HIDE DEF q
<1> QED BY <1>2, <1>3, <1>4, <1>6, <1>7, BecomesTyped, AnsweredTyped

\* What a posting writes, of the items it read.
LEMMA EntriesTyped ==
    ASSUME NEW n \in Nat, NEW m \in Nat, NEW is \in SUBSET Items, ItemsMade(is, n, m)
    PROVE  /\ Posting(is) \subseteq Entries
           /\ \A e \in Posting(is) : e.made \in 1..m
BY DEF Posting, EntryFor, Entries, Items, ItemsMade

LEMMA PostedTyped ==
    ASSUME NEW i \in Items
    PROVE  LET p == [i EXCEPT !.status = "POSTED"]
           IN  /\ p \in Items /\ p.status = "POSTED"
               /\ p.run = i.run /\ p.made = i.made /\ p.of = i.of
               /\ p.calc = i.calc /\ p.dir = i.dir
BY DEF Items

LEMMA PostReadyItemsTypes ==
    ASSUME ServerTypes, RequestsTyped, NEW s \in Slots, PostReadyItems(s)
    PROVE  ServerTypes' /\ RequestsTyped' /\ Grows
<1> DEFINE now == requests[s]
           r == now.run
<1>1. now \in PostPosting
  BY RequestForms DEF PostReadyItems, At, RequestsTyped
<1>2. r \in 1..Len(runs) /\ now # Free /\ now.ready \in SUBSET Items
      /\ ItemsMade(now.ready, Len(runs), made)
  BY <1>1 DEF RequestsTyped, InRange, PostPosting, Free
<1>3. /\ ledger' = ledger \cup Fresh(Posting(now.ready))
      /\ items' = (items \ Marked(now)) \cup {[i EXCEPT !.status = "POSTED"] : i \in Marked(now)}
      /\ runs' = [runs EXCEPT ![r] = "POSTED"]
      /\ period' \in Periods
      /\ Done(s) /\ UNCHANGED <<plan, produced, made>>
  BY DEF PostReadyItems, Periods
<1>4. runs' \in Seq(RunStatuses) /\ Len(runs') = Len(runs) /\ Len(runs) \in Nat /\ made \in Nat
  <2>1. "POSTED" \in RunStatuses
    BY DEF RunStatuses
  <2> QED BY <1>2, <1>3, <2>1, RunStatusTyped DEF ServerTypes
<1>5. ledger' \subseteq Entries /\ \A e \in ledger' : e.made \in 1..made'
  <2>1. Posting(now.ready) \subseteq Entries /\ \A e \in Posting(now.ready) : e.made \in 1..made
    BY <1>2, <1>4, EntriesTyped
  <2>2. Fresh(Posting(now.ready)) \subseteq Posting(now.ready)
    BY DEF Fresh
  <2> QED BY <1>3, <2>1, <2>2 DEF ServerTypes
<1>6. Marked(now) \subseteq items
  BY DEF Marked, ItemsOf
<1>7. \A i \in items' : i \in Items /\ i.run \in 1..Len(runs) /\ i.made \in 1..made
  <2>1. \A i \in items : i \in Items /\ i.run \in 1..Len(runs) /\ i.made \in 1..made
    BY DEF ServerTypes, ItemsMade
  <2>2. ASSUME NEW i \in Marked(now)
        PROVE  LET p == [i EXCEPT !.status = "POSTED"]
               IN  p \in Items /\ p.run \in 1..Len(runs) /\ p.made \in 1..made
    BY <1>6, <2>1, PostedTyped
  <2>3. ASSUME NEW i \in items'
        PROVE  i \in items \/ \E j \in Marked(now) : i = [j EXCEPT !.status = "POSTED"]
    BY <1>3
  <2> QED BY <2>1, <2>2, <2>3
<1>8. items' \subseteq Items /\ ItemsMade(items', Len(runs'), made')
  BY <1>3, <1>4, <1>7 DEF ItemsMade
<1>9. ServerTypes'
  BY <1>3, <1>4, <1>5, <1>8 DEF ServerTypes
<1>10. Grows
  BY <1>3, <1>4 DEF Grows
<1> QED BY <1>2, <1>3, <1>9, <1>10, AnsweredTyped

LEMMA BreaksTypes ==
    ASSUME ServerTypes, RequestsTyped, NEW s \in Slots, Breaks(s)
    PROVE  ServerTypes' /\ RequestsTyped' /\ Grows
<1>1. requests[s] # Free /\ Refused(s) /\ Still
  BY DEF Breaks, Free, Still
<1> QED BY <1>1, StillTypes, AnsweredTyped

LEMMA ServeTypes ==
    ASSUME ServerTypes, RequestsTyped, NEW s \in Slots, Serve(s)
    PROVE  ServerTypes' /\ RequestsTyped' /\ Grows
BY BulkReadTypes, BulkSaveTypes, BulkCoverTypes, OutcomeTypes, RefineInformTypes,
   CreateRunTypes, CalculateTypes, ReplaceItemsTypes, PostReadTypes, PostReadyItemsTypes
   DEF Serve

(***************************************************************************)
(* The page.                                                               *)
(***************************************************************************)
\* An answer to a query, when there are n runs.
IsAnswer(q, d, n) ==
    /\ q = "template" => d \in [Collaborators -> TemplateRows]
    /\ q = "assignments" => d \in Plans
    /\ q = "detail" => d \in Periods
    /\ q = "runs" => d \in Seq(RunRows) /\ Len(d) <= n

PageTypes ==
    /\ tab \in Tabs
    /\ rows \in [Collaborators -> FormRows]
    /\ DOMAIN seen = Queries
    /\ \A q \in Queries : IsAnswer(q, seen[q], Len(runs))
    /\ DOMAIN fetch = Queries
    /\ \A q \in Queries :
        \/ fetch[q] = Idle \/ fetch[q] = Sent
        \/ \E d : IsAnswer(q, d, Len(runs)) /\ fetch[q] = [state |-> "read", data |-> d]
    /\ unsure \in BOOLEAN /\ overwritten \in BOOLEAN

Types == ServerTypes /\ RequestsTyped /\ PageTypes

LEMMA TypesImply == Types => TypeOK
<1> SUFFICES ASSUME Types PROVE TypeOK
  OBVIOUS
<1>1. /\ period \in {"PLANNING", "INFORMED", "PARTIALLY_POSTED", "FULLY_POSTED"}
      /\ plan \in [Collaborators -> Rows] /\ produced \in BOOLEAN
      /\ \A r \in 1..Len(runs) :
            runs[r] \in {"DRAFT", "PENDING_INPUT", "READY_TO_POST", "POSTED"}
  BY DEF Types, ServerTypes, Periods, Plans, RunStatuses
<1>2. /\ \A i \in items :
            /\ i.run \in 1..Len(runs) /\ i.made \in 1..made
            /\ i.of \in Collaborators
            /\ i.status \in {"PENDING", "READY", "POSTED", "SKIPPED"}
      /\ \A e \in ledger : e.of \in Collaborators /\ e.made \in 1..made
  BY DEF Types, ServerTypes, ItemsMade, Items, Waiting, Entries
<1>3. DOMAIN requests = Slots
  BY DEF Types, RequestsTyped
<1>4. /\ \A c \in Collaborators :
            /\ rows[c].covers \in Collaborators \cup {NoOne}
            /\ {rows[c].selected, rows[c].away, rows[c].original} \subseteq BOOLEAN
  BY DEF Types, PageTypes, FormRows, SomeoneOrNo
<1>5. seen.assignments \in [Collaborators -> Rows]
  BY DEF Types, PageTypes, IsAnswer, Plans, Queries
<1>6. tab \in Tabs /\ DOMAIN fetch = Queries /\ {unsure, overwritten} \subseteq BOOLEAN
  BY DEF Types, PageTypes
<1> QED BY <1>1, <1>2, <1>3, <1>4, <1>5, <1>6 DEF TypeOK

LEMMA AnswerKept ==
    ASSUME NEW q, NEW d, NEW n \in Nat, NEW m \in Nat, n <= m, IsAnswer(q, d, n)
    PROVE  IsAnswer(q, d, m)
<1>1. q = "runs" => Len(d) \in Nat
  BY DEF IsAnswer
<1> QED BY <1>1 DEF IsAnswer

LEMMA CurrentTyped ==
    ASSUME ServerTypes, NEW q \in Queries
    PROVE  IsAnswer(q, Current(q), Len(runs))
<1>1. Template(plan) \in [Collaborators -> TemplateRows]
  <2>1. ASSUME NEW row \in Rows
        PROVE  row.planned \in BOOLEAN /\ row.away \in BOOLEAN /\ row.covers \in SomeoneOrNo
    <3>1. CASE row = NoRow
      BY <3>1 DEF NoRow, SomeoneOrNo
    <3>2. CASE row # NoRow
      BY <3>2 DEF Rows, SomeoneOrNo
    <3> QED BY <3>1, <3>2
  <2>2. \A c \in Collaborators : plan[c] \in Rows
    BY DEF ServerTypes, Plans
  <2> QED BY <2>1, <2>2 DEF Template, TemplateRows
<1>2. Len(runs) \in Nat /\ \A r \in 1..Len(runs) : runs[r] \in RunStatuses
  BY DEF ServerTypes
<1>3. RunList \in [1..Len(runs) -> RunRows]
  BY <1>2 DEF RunList, RunRows
<1>4. RunList \in Seq(RunRows) /\ Len(RunList) = Len(runs)
  <2>1. RunList \in Seq(RunRows)
    BY <1>2, <1>3, IsASeq
  <2>2. DOMAIN RunList = 1..Len(runs)
    BY <1>3
  <2> QED BY <1>2, <2>1, <2>2, LenProperties
<1>5. period \in Periods /\ plan \in Plans
  BY DEF ServerTypes
<1> QED BY <1>1, <1>2, <1>4, <1>5 DEF IsAnswer, Current, Queries

\* What the page has stays of its type while the runs grow.
LEMMA PageKept ==
    ASSUME PageTypes, ServerTypes, ServerTypes', Grows, UNCHANGED <<tab, rows, seen, fetch>>,
           unsure' \in BOOLEAN, overwritten' \in BOOLEAN
    PROVE  PageTypes'
<1>1. Len(runs) \in Nat /\ Len(runs') \in Nat /\ Len(runs) <= Len(runs')
  BY DEF ServerTypes, Grows
<1>2. \A d : \A q \in Queries : IsAnswer(q, d, Len(runs)) => IsAnswer(q, d, Len(runs'))
  BY <1>1, AnswerKept
<1>3. \A q \in Queries : IsAnswer(q, seen'[q], Len(runs'))
  BY <1>2 DEF PageTypes
<1>4. ASSUME NEW q \in Queries
      PROVE  \/ fetch'[q] = Idle \/ fetch'[q] = Sent
             \/ \E d : IsAnswer(q, d, Len(runs')) /\ fetch'[q] = [state |-> "read", data |-> d]
  BY <1>2 DEF PageTypes
<1> QED BY <1>3, <1>4 DEF PageTypes

LEMMA FormTyped ==
    ASSUME rows \in [Collaborators -> FormRows]
    PROVE  /\ \A c \in Collaborators :
                /\ [rows EXCEPT ![c].selected = ~@] \in [Collaborators -> FormRows]
                /\ Refined(c) \in [Collaborators -> FormRows]
                /\ [rows EXCEPT ![c].covers = NoOne] \in [Collaborators -> FormRows]
                /\ [d \in Collaborators |->
                        IF d = c THEN [rows[d] EXCEPT !.away = ~@]
                        ELSE IF rows[d].covers = c /\ rows[c].away
                             THEN [rows[d] EXCEPT !.covers = NoOne]
                             ELSE rows[d]] \in [Collaborators -> FormRows]
           /\ \A c, t \in Collaborators :
                [rows EXCEPT ![c].covers = t, ![c].selected = TRUE]
                    \in [Collaborators -> FormRows]
           /\ EmptyForm \in [Collaborators -> FormRows]
           /\ \A template \in [Collaborators -> TemplateRows] :
                Loaded(template) \in [Collaborators -> FormRows]
<1>1. \A row \in FormRows :
        /\ [row EXCEPT !.selected = ~@] \in FormRows
        /\ [row EXCEPT !.selected = TRUE] \in FormRows
        /\ [row EXCEPT !.covers = NoOne] \in FormRows
        /\ [row EXCEPT !.away = ~@] \in FormRows
        /\ \A t \in Collaborators : [[row EXCEPT !.covers = t] EXCEPT !.selected = TRUE] \in FormRows
  BY DEF FormRows, SomeoneOrNo
<1>2. EmptyForm \in [Collaborators -> FormRows]
  BY DEF EmptyForm, FormRows, SomeoneOrNo
<1>3. ASSUME NEW template \in [Collaborators -> TemplateRows]
      PROVE  Loaded(template) \in [Collaborators -> FormRows]
  BY DEF Loaded, FormRows, TemplateRows
<1> HIDE DEF FormRows
<1>4. ASSUME NEW c \in Collaborators
      PROVE  /\ [rows EXCEPT ![c].selected = ~@] \in [Collaborators -> FormRows]
             /\ Refined(c) \in [Collaborators -> FormRows]
             /\ [rows EXCEPT ![c].covers = NoOne] \in [Collaborators -> FormRows]
             /\ [d \in Collaborators |->
                    IF d = c THEN [rows[d] EXCEPT !.away = ~@]
                    ELSE IF rows[d].covers = c /\ rows[c].away
                         THEN [rows[d] EXCEPT !.covers = NoOne]
                         ELSE rows[d]] \in [Collaborators -> FormRows]
  BY <1>1 DEF Refined
<1>5. ASSUME NEW c \in Collaborators, NEW t \in Collaborators
      PROVE  [rows EXCEPT ![c].covers = t, ![c].selected = TRUE]
                \in [Collaborators -> FormRows]
  BY <1>1
<1> QED BY <1>2, <1>3, <1>4, <1>5

\* The user edits the plan.
LEMMA EditTypes ==
    ASSUME Types, NEW form \in [Collaborators -> FormRows], Edit(form)
    PROVE  Types'
BY DEF Types, ServerTypes, RequestsTyped, PageTypes, Edit, serverVars

LEMMA OpenTabTypes ==
    ASSUME Types, NEW t \in Tabs, OpenTab(t)
    PROVE  Types'
<1>1. Still
  BY DEF OpenTab, Still
<1>2. ServerTypes'
  BY <1>1, StillTypes DEF Types
<1>3. rows' \in [Collaborators -> FormRows]
  <2>1. seen.template \in [Collaborators -> TemplateRows]
    BY DEF Types, PageTypes, IsAnswer, Queries
  <2> QED BY <2>1, FormTyped DEF OpenTab, Types, PageTypes
<1>4. ASSUME NEW q \in RequestTypes
      PROVE  Forgotten(q) \in RequestTypes
             /\ \A n, m : InRange(q, n, m) => InRange(Forgotten(q), n, m)
  <2>1. CASE q.kind \in AccrualRequests /\ q.by = "page"
    <3>1. Forgotten(q) = [q EXCEPT !.by = "tabLeft"] /\ q # Free
      BY <2>1 DEF Forgotten, Free
    <3>2. "tabLeft" \in Senders
      BY DEF Senders
    <3>3. CASE q \in Creating \/ q \in Ended
      <4>1. [q EXCEPT !.by = "tabLeft"] \in Creating \/ [q EXCEPT !.by = "tabLeft"] \in Ended
        BY <3>2, <3>3 DEF Creating, Ended
      <4>2. InRange([q EXCEPT !.by = "tabLeft"], 0, 0) /\ \A n, m : InRange([q EXCEPT !.by = "tabLeft"], n, m)
        BY <4>1 DEF InRange, Creating, Ended, Calculating, Replacing, PostSent, PostPosting
      <4> QED BY <3>1, <4>1, <4>2 DEF RequestTypes
    <3>4. CASE q \in Calculating
      <4>1. [q EXCEPT !.by = "tabLeft"] \in Calculating /\ [q EXCEPT !.by = "tabLeft"].run = q.run
        BY <3>2, <3>4 DEF Calculating
      <4> QED BY <3>1, <3>4, <4>1 DEF RequestTypes, InRange, Calculating, Replacing, PostPosting
    <3>5. CASE q \in Replacing
      <4>1. /\ [q EXCEPT !.by = "tabLeft"] \in Replacing /\ [q EXCEPT !.by = "tabLeft"].run = q.run
            /\ [q EXCEPT !.by = "tabLeft"].items = q.items
        BY <3>2, <3>5 DEF Replacing
      <4> QED BY <3>1, <3>5, <4>1 DEF RequestTypes, InRange, Replacing, PostPosting
    <3>6. CASE q \in PostSent
      <4>1. [q EXCEPT !.by = "tabLeft"] \in PostSent /\ [q EXCEPT !.by = "tabLeft"].run = q.run
        BY <3>2, <3>6 DEF PostSent
      <4> QED BY <3>1, <3>6, <4>1 DEF RequestTypes, InRange, PostSent, Replacing, PostPosting
    <3>7. CASE q \in PostPosting
      <4>1. /\ [q EXCEPT !.by = "tabLeft"] \in PostPosting /\ [q EXCEPT !.by = "tabLeft"].run = q.run
            /\ [q EXCEPT !.by = "tabLeft"].ready = q.ready
        BY <3>2, <3>7 DEF PostPosting
      <4> QED BY <3>1, <3>7, <4>1 DEF RequestTypes, InRange, Replacing, PostPosting
    <3> QED
      BY <2>1, <3>1, <3>3, <3>4, <3>5, <3>6, <3>7
      DEF RequestTypes, AccrualRequests, BulkSent, BulkSaving, OutcomeSent, OutcomeSaving,
          Refining, Informings
  <2>2. CASE q.kind = "refine"
    <3>1. Forgotten(q) = [q EXCEPT !.of = NoOne]
      BY <2>2 DEF Forgotten, AccrualRequests
    <3>2. q \in Refining \/ q \in Ended
      BY <2>2 DEF RequestTypes, Free, BulkSent, BulkSaving, OutcomeSent, OutcomeSaving,
         Informings, Creating, Calculating, Replacing, PostSent, PostPosting
    <3>3. [q EXCEPT !.of = NoOne] \in Refining \/ [q EXCEPT !.of = NoOne] \in Ended
      BY <3>2 DEF Refining, Ended, SomeoneOrNo
    <3>4. \A n, m : InRange([q EXCEPT !.of = NoOne], n, m)
      BY <3>3 DEF InRange, Refining, Ended, Calculating, Replacing, PostSent, PostPosting
    <3> QED BY <3>1, <3>3, <3>4 DEF RequestTypes
  <2>3. CASE ~(q.kind \in AccrualRequests /\ q.by = "page") /\ q.kind # "refine"
    BY <2>3 DEF Forgotten
  <2> QED BY <2>1, <2>2, <2>3
<1>5. RequestsTyped'
  <2>1. requests' = requests \/ requests' = [s \in Slots |-> Forgotten(requests[s])]
    BY DEF OpenTab
  <2> QED BY <1>1, <1>4, <2>1 DEF Types, RequestsTyped, Still
<1>6. PageTypes'
  <2>1. \A q \in Queries : fetch'[q] = fetch[q] \/ fetch'[q] = Sent
    BY DEF OpenTab, Types, PageTypes
  <2>2. DOMAIN fetch' = Queries
    BY DEF OpenTab, Types, PageTypes
  <2>3. tab' \in Tabs /\ UNCHANGED <<seen, unsure, overwritten, runs>>
    BY DEF OpenTab
  <2> QED BY <1>3, <2>1, <2>2, <2>3 DEF Types, PageTypes
<1> QED BY <1>2, <1>5, <1>6 DEF Types

(***************************************************************************)
(* What the page and the other operators send, and what comes back.        *)
(***************************************************************************)
LEMMA SendTypes ==
    ASSUME Types, NEW s \in Slots, NEW q \in RequestTypes, InRange(q, Len(runs), made),
           Send(s, q), UNCHANGED <<tab, rows, seen, fetch>>,
           unsure' \in BOOLEAN, overwritten' \in BOOLEAN
    PROVE  Types'
<1>1. Becomes(s, q) /\ Still
  BY DEF Send, Still
<1>2. ServerTypes' /\ Grows /\ UNCHANGED <<runs, made>>
  BY <1>1, StillTypes DEF Types, Still
<1>3. RequestsTyped'
  BY <1>1, <1>2, BecomesTyped DEF Types
<1>4. PageTypes'
  BY <1>2, PageKept DEF Types
<1> QED BY <1>2, <1>3, <1>4 DEF Types

LEMMA PayloadTyped ==
    ASSUME rows \in [Collaborators -> FormRows]
    PROVE  Payload \in Seq(SentRows)
<1> DEFINE sent == Picked(Order, {k \in DOMAIN Order : IsSent(Order[k])})
           row(k) == [of |-> sent[k], selected |-> rows[sent[k]].selected,
                      away |-> rows[sent[k]].away, changed |-> Changed(sent[k]),
                      covers |-> rows[sent[k]].covers]
<1>1. sent \in Seq(Collaborators)
  BY PlanningAssumption, PickedType
<1>2. Payload = [k \in 1..Len(sent) |-> row(k)]
  BY DEF Payload
<1> HIDE DEF sent
<1>3. Len(sent) \in Nat /\ \A k \in 1..Len(sent) : sent[k] \in Collaborators
  BY <1>1
<1>4. ASSUME NEW k \in 1..Len(sent)
      PROVE  row(k) \in SentRows
  <2>1. sent[k] \in Collaborators /\ rows[sent[k]] \in FormRows
    BY <1>3
  <2>2. Changed(sent[k]) \in BOOLEAN
    BY DEF Changed
  <2> QED BY <2>1, <2>2 DEF SentRows, FormRows
<1> HIDE DEF row
<1>5. Payload \in [1..Len(sent) -> SentRows]
  BY <1>2, <1>4
<1> QED BY <1>3, <1>5, IsASeq

LEMMA RequestsTypes ==
    ASSUME Types, NEW s \in Slots, Requests(s)
    PROVE  Types'
<1> DEFINE n == Len(runs)
<1>1. /\ rows \in [Collaborators -> FormRows] /\ unsure \in BOOLEAN /\ overwritten \in BOOLEAN
      /\ seen.runs \in Seq(RunRows) /\ Len(seen.runs) <= n /\ n \in Nat
  BY DEF Types, PageTypes, IsAnswer, Queries, ServerTypes
<1>2. DOMAIN seen.runs \subseteq 1..n
  <2>1. DOMAIN seen.runs = 1..Len(seen.runs) /\ Len(seen.runs) \in Nat
    BY <1>1
  <2> QED BY <1>1, <2>1
<1>3. "page" \in Senders /\ "elsewhere" \in Senders
  BY DEF Senders
<1>4. ASSUME NEW what, NEW q \in RequestTypes, InRange(q, Len(runs), made), FromPage(s, what, q)
      PROVE  Types'
  BY <1>1, <1>4, SendTypes DEF FromPage
<1>5. \A r \in 1..n, by \in Senders :
        /\ [kind |-> "calculate", by |-> by, step |-> "calculate", run |-> r] \in RequestTypes
        /\ InRange([kind |-> "calculate", by |-> by, step |-> "calculate", run |-> r], n, made)
        /\ [kind |-> "post", by |-> by, step |-> "sent", run |-> r] \in RequestTypes
        /\ InRange([kind |-> "post", by |-> by, step |-> "sent", run |-> r], n, made)
  BY <1>1 DEF RequestTypes, Calculating, PostSent, InRange, Replacing, PostPosting
<1>6. \A by \in Senders :
        /\ [kind |-> "create", by |-> by, step |-> "sent"] \in RequestTypes
        /\ InRange([kind |-> "create", by |-> by, step |-> "sent"], n, made)
  BY RunlessInRange DEF RequestTypes, Creating
<1>7. CASE SavePlan(s)
  <2> DEFINE q == [kind |-> "bulk", by |-> "page", step |-> "sent", rows |-> Payload]
  <2>1. FromPage(s, "saves", q)
    BY <1>7 DEF SavePlan
  <2>2. q \in RequestTypes /\ InRange(q, Len(runs), made)
    BY <1>1, <1>3, PayloadTyped, RunlessInRange DEF RequestTypes, BulkSent
  <2> QED BY <1>4, <2>1, <2>2
<1>8. CASE Inform(s)
  <2> DEFINE q == [kind |-> "inform", by |-> "page", step |-> "sent"]
  <2>1. FromPage(s, "informs", q)
    BY <1>8 DEF Inform
  <2>2. q \in RequestTypes /\ InRange(q, Len(runs), made)
    BY <1>3, RunlessInRange DEF RequestTypes, Informings
  <2> QED BY <1>4, <2>1, <2>2
<1>9. CASE Create(s)
  BY <1>3, <1>4, <1>6, <1>9 DEF Create
<1>10. CASE Elsewhere(s)
  <2>1. unsure' \in BOOLEAN /\ overwritten' \in BOOLEAN /\ UNCHANGED <<tab, rows, seen, fetch>>
    BY <1>1, <1>10 DEF Elsewhere
  <2>2. CASE Send(s, [kind |-> "create", by |-> "elsewhere", step |-> "sent"])
    BY <1>3, <1>6, <2>1, <2>2, SendTypes
  <2>3. ASSUME NEW r \in 1..n,
               \/ Send(s, [kind |-> "calculate", by |-> "elsewhere", step |-> "calculate", run |-> r])
               \/ Send(s, [kind |-> "post", by |-> "elsewhere", step |-> "sent", run |-> r])
        PROVE  Types'
    BY <1>3, <1>5, <2>1, <2>3, SendTypes
  <2> QED BY <1>10, <2>2, <2>3 DEF Elsewhere
<1>11. ASSUME NEW c \in Collaborators, RefineForFuture(s, c)
       PROVE  Types'
  <2> DEFINE q == [kind |-> "refine", by |-> "page", step |-> "sent", of |-> c]
  <2>1. FromPage(s, "refines", q)
    BY <1>11 DEF RefineForFuture
  <2>2. q \in RequestTypes /\ InRange(q, Len(runs), made)
    BY <1>3, RunlessInRange DEF RequestTypes, Refining, SomeoneOrNo
  <2> QED BY <1>4, <2>1, <2>2
<1>12. ASSUME NEW c \in Collaborators, NEW o \in Outcomes, MarkOutcome(s, c, o)
       PROVE  Types'
  <2> DEFINE q == [kind |-> "outcome", by |-> "page", step |-> "sent", of |-> c, outcome |-> o]
  <2>1. FromPage(s, "outcomes", q)
    BY <1>12 DEF MarkOutcome
  <2>2. q \in RequestTypes /\ InRange(q, Len(runs), made)
    BY <1>3, RunlessInRange DEF RequestTypes, OutcomeSent
  <2> QED BY <1>4, <2>1, <2>2
<1>13. ASSUME NEW r \in DOMAIN seen.runs, Recalculate(s, r) \/ Post(s, r)
       PROVE  Types'
  BY <1>2, <1>3, <1>4, <1>5, <1>13 DEF Recalculate, Post
<1> QED
  BY <1>7, <1>8, <1>9, <1>10, <1>11, <1>12, <1>13 DEF Requests

LEMMA ReceiveTypes ==
    ASSUME Types, NEW s \in Slots, Receive(s)
    PROVE  Types'
<1>1. Becomes(s, Free) /\ Still /\ UNCHANGED <<tab, overwritten>>
  BY DEF Receive, Still
<1>2. ServerTypes' /\ Grows /\ UNCHANGED <<runs, made>>
  BY <1>1, StillTypes DEF Types, Still
<1>3. RequestsTyped'
  <2>1. Free \in RequestTypes /\ InRange(Free, Len(runs'), made')
    BY RunlessInRange DEF RequestTypes, Free
  <2> QED BY <1>1, <1>2, <2>1, BecomesTyped DEF Types
<1>4. rows' \in [Collaborators -> FormRows]
  <2>1. requests[s] \in RequestTypes /\ requests[s] # Free /\ requests[s].step \in {"done", "failed"}
    BY DEF Receive, Types, RequestsTyped
  <2>2. CASE requests[s].kind = "refine" /\ requests[s].of # NoOne
    <3>1. rows' = Refined(requests[s].of)
      BY <2>2 DEF Receive
    <3>2. CASE requests[s].of \in Collaborators
      BY <3>1, <3>2, FormTyped DEF Types, PageTypes
    <3>3. CASE requests[s].of \notin Collaborators
      <4>1. \A c : c \notin Collaborators => Refined(c) = rows
        BY DEF Refined, Types, PageTypes
      <4> QED BY <3>1, <3>3, <4>1 DEF Types, PageTypes
    <3> QED BY <3>2, <3>3
  <2>3. CASE ~(requests[s].kind = "refine" /\ requests[s].of # NoOne)
    BY <2>3 DEF Receive, Types, PageTypes
  <2> QED BY <2>2, <2>3
<1>5. DOMAIN seen' = Queries /\ \A q \in Queries : IsAnswer(q, seen'[q], Len(runs'))
  <2>1. seen' = seen \/ seen' = [seen EXCEPT !.detail = "INFORMED"]
    BY DEF Receive
  <2>2. IsAnswer("detail", "INFORMED", Len(runs'))
    BY DEF IsAnswer, Periods
  <2> QED BY <1>2, <2>1, <2>2 DEF Types, PageTypes
<1>6. /\ DOMAIN fetch' = Queries
      /\ \A q \in Queries : fetch'[q] = fetch[q] \/ fetch'[q] = Sent
  <2>1. fetch' = fetch \/ \E qs : Invalidate(qs)
    BY DEF Receive
  <2> QED BY <2>1 DEF Invalidate, Types, PageTypes
<1>7. PageTypes'
  <2>1. unsure' \in BOOLEAN
    BY DEF Receive, Types, PageTypes
  <2> QED BY <1>1, <1>2, <1>4, <1>5, <1>6, <2>1 DEF Types, PageTypes
<1> QED BY <1>2, <1>3, <1>7 DEF Types

LEMMA FetchTypes ==
    ASSUME Types, NEW q \in Queries, FetchRead(q) \/ FetchDelivered(q)
    PROVE  Types'
<1>1. /\ UNCHANGED <<serverVars, tab, unsure, overwritten>>
      /\ DOMAIN fetch' = Queries /\ DOMAIN seen' = Queries
  BY DEF FetchRead, FetchDelivered, Types, PageTypes
<1>2. ServerTypes' /\ RequestsTyped' /\ UNCHANGED <<runs>>
  BY <1>1 DEF Types, ServerTypes, RequestsTyped, serverVars
<1>3. CASE FetchRead(q)
  <2>1. IsAnswer(q, Current(q), Len(runs))
    BY CurrentTyped DEF Types
  <2>2. \A p \in Queries : IF p = q THEN fetch'[p] = [state |-> "read", data |-> Current(q)]
                           ELSE fetch'[p] = fetch[p]
    BY <1>3 DEF FetchRead, Types, PageTypes
  <2>3. UNCHANGED <<rows, seen>>
    BY <1>3 DEF FetchRead
  <2> HIDE DEF Current
  <2> QED BY <1>1, <1>2, <2>1, <2>2, <2>3 DEF Types, PageTypes
<1>4. CASE FetchDelivered(q)
  <2>1. PICK d : IsAnswer(q, d, Len(runs)) /\ fetch[q] = [state |-> "read", data |-> d]
    BY <1>4 DEF FetchDelivered, Types, PageTypes, Idle, Sent
  <2>2. /\ \A p \in Queries : seen'[p] = IF p = q THEN d ELSE seen[p]
        /\ \A p \in Queries : fetch'[p] = IF p = q THEN Idle ELSE fetch[p]
        /\ rows' = IF Reloads(q, d) THEN Loaded(d) ELSE rows
    BY <1>4, <2>1 DEF FetchDelivered, Types, PageTypes
  <2>3. rows' \in [Collaborators -> FormRows]
    BY <2>1, <2>2, FormTyped DEF Reloads, IsAnswer, Types, PageTypes
  <2> QED BY <1>1, <1>2, <2>1, <2>2, <2>3 DEF Types, PageTypes
<1> QED BY <1>2, <1>3, <1>4

LEMMA TypesInit == Init => Types
<1> SUFFICES ASSUME Init PROVE Types
  OBVIOUS
<1>1. PICK scenario \in Scenarios : plan = scenario.plan
  BY DEF Init
<1>2. plan \in Plans
  BY <1>1, PlanningAssumption DEF Plans
<1>3. ServerTypes
  <2>0. runs = <<>> /\ produced = FALSE /\ made = 0 /\ period = "PLANNING"
    BY DEF Init
  <2>1. runs \in Seq(RunStatuses) /\ produced \in BOOLEAN /\ made \in Nat /\ period \in Periods
    <3>1. <<>> \in Seq(RunStatuses)
      OBVIOUS
    <3> QED BY <2>0, <3>1 DEF Periods
  <2>2. items = {} /\ ledger = {}
    BY DEF Init
  <2>3. items \subseteq Items /\ ItemsMade(items, Len(runs), made)
    BY <2>2 DEF ItemsMade
  <2>4. ledger \subseteq Entries /\ \A e \in ledger : e.made \in 1..made
    BY <2>2
  <2> QED BY <1>2, <2>1, <2>3, <2>4 DEF ServerTypes
<1>4. RequestsTyped
  <2>1. Free \in RequestTypes /\ InRange(Free, Len(runs), made)
    BY RunlessInRange DEF RequestTypes, Free
  <2> QED BY <2>1 DEF Init, RequestsTyped
<1>5. \A q \in Queries : IsAnswer(q, Current(q), Len(runs))
  BY <1>3, CurrentTyped
<1>6. DOMAIN seen = Queries /\ \A q \in Queries : seen[q] = Current(q)
  BY DEF Init, Current, Queries
<1>7. rows \in [Collaborators -> FormRows]
  <2>1. Template(plan) \in [Collaborators -> TemplateRows]
    BY <1>5 DEF IsAnswer, Current, Queries
  <2>2. Loaded(Template(plan)) \in [Collaborators -> FormRows]
    BY <2>1 DEF Loaded, FormRows, TemplateRows
  <2> QED BY <2>2 DEF Init
<1>8. /\ tab \in Tabs /\ DOMAIN fetch = Queries /\ \A q \in Queries : fetch[q] = Idle
      /\ unsure \in BOOLEAN /\ overwritten \in BOOLEAN
  BY DEF Init, Tabs
<1>9. PageTypes
  BY <1>5, <1>6, <1>7, <1>8 DEF PageTypes
<1> QED BY <1>3, <1>4, <1>9 DEF Types

LEMMA TypesStep == Types /\ [Next]_vars => Types'
<1> SUFFICES ASSUME Types, [Next]_vars PROVE Types'
  OBVIOUS
<1>1. CASE User
  <2>1. rows \in [Collaborators -> FormRows]
    BY DEF Types, PageTypes
  <2>2. ASSUME NEW c \in Collaborators, Select(c) \/ SetAway(c) \/ Refine(c) \/ Uncover(c)
        PROVE  Types'
    BY <2>1, <2>2, FormTyped, EditTypes DEF Select, SetAway, Refine, Uncover
  <2>3. ASSUME NEW c \in Collaborators, NEW t \in Offered(c), Cover(c, t)
        PROVE  Types'
    <3>1. t \in Collaborators
      BY DEF Offered
    <3> QED BY <2>1, <2>3, <3>1, FormTyped, EditTypes DEF Cover
  <2> QED BY <1>1, <2>2, <2>3, OpenTabTypes DEF User
<1>2. ASSUME NEW s \in Slots, Work(s) \/ Fault(s)
      PROVE  Types'
  <2>1. ServerTypes' /\ RequestsTyped' /\ Grows
    BY <1>2, ServeTypes, BreaksTypes DEF Work, Fault, Types
  <2>2. UNCHANGED <<tab, rows, seen, fetch>> /\ unsure' \in BOOLEAN /\ overwritten' \in BOOLEAN
    BY <1>2 DEF Work, Fault, Types, PageTypes
  <2> QED BY <2>1, <2>2, PageKept DEF Types
<1>3. CASE Produce
  <2>1. ServerTypes' /\ RequestsTyped' /\ PageTypes'
    BY <1>3 DEF Produce, RecordProduction, pageVars, Types, ServerTypes, RequestsTyped, PageTypes
  <2> QED BY <2>1 DEF Types
<1>4. CASE UNCHANGED vars
  BY <1>4 DEF vars, serverVars, pageVars, Types, ServerTypes, RequestsTyped, PageTypes
<1> QED
  BY <1>1, <1>2, <1>3, <1>4, RequestsTypes, ReceiveTypes, FetchTypes DEF Next

\* The page, what it has fetched and what it has sent stay of their types,
\* and so does the server, whatever requests interleave and break off.
THEOREM AlwaysTyped == Spec => []Types
BY TypesInit, TypesStep, PTL DEF Spec

\* TypeOK, the form in which TLC checks the same.
THEOREM TypeCorrect == Spec => []TypeOK
BY AlwaysTyped, TypesImply, PTL
===============================================================================
