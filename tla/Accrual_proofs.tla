---------------------------- MODULE Accrual_proofs ----------------------------
(***************************************************************************)
(* Theorems about accrual: what the runs of a Work Period post, however    *)
(* the requests that create, recalculate and post them interleave.         *)
(***************************************************************************)
EXTENDS PlanningPage_proofs

(***************************************************************************)
(* The invariant.  An entry is dropped when its id is taken, which makes   *)
(* an earning unique only among earlier postings: within one posting it is *)
(* unique because one calculation gives a Collaborator one earning, and    *)
(* the READY items of a run all come from one calculation.                 *)
(***************************************************************************)
\* An id of an earning names its direction: there is only one.
Credited(es) == \A e \in es : e.calc \in Earnings => e.dir = "CREDIT"

SameEarning(i, j) == i.calc \in Earnings /\ j.calc \in Earnings /\ i.of = j.of

OneEarning(is) == \A i, j \in is : SameEarning(i, j) => i = j

Sound(q) ==
    /\ q.step = "replace" =>
        /\ OneEarning(q.items) /\ Credited(q.items)
        /\ \A i \in q.items : i.run = q.run /\ i.status # "POSTED"
    /\ q.step = "posting" => OneEarning(q.ready) /\ Credited(q.ready)

ReadyOnce(is) ==
    \A i, j \in is :
        i.status = "READY" /\ j.status = "READY" /\ i.run = j.run /\ SameEarning(i, j)
        => i = j

Accrual ==
    /\ \A s \in Slots : Sound(requests[s])
    /\ Credited(items) /\ Credited(ledger)
    /\ ReadyOnce(items)
    /\ EarningPaidOnce /\ PostedMeansPaid

(***************************************************************************)
(* One calculation.                                                        *)
(***************************************************************************)
\* The only earning in the lines of a Collaborator is its own, and what it is
\* follows from the outcome.
LEMMA EarningOf ==
    ASSUME NEW c, NEW sub, plan[c].outcome \in Outcomes \cup {Unmarked},
           NEW l \in LinesFor(c, sub), l.calc \in Earnings
    PROVE  /\ l.of = c /\ l.dir = "CREDIT" /\ l.status = Due
           /\ l.calc = IF plan[c].outcome = "TIME_OFF" THEN "TIME_OFF_RETAINED"
                                                      ELSE "COMMISSION"
<1>1. CASE plan[c].outcome = Unmarked
  BY <1>1 DEF LinesFor, Unmarked, Paid, Line, Earnings
<1>2. CASE plan[c].outcome = "ABSENT"
  BY <1>2 DEF LinesFor, Unmarked, Paid, Line, Earnings
<1>3. CASE plan[c].outcome \in Paid /\ ForTimeOff(c)
  BY <1>3 DEF LinesFor, Unmarked, Paid
<1>4. CASE plan[c].outcome = "TIME_OFF" /\ ~ForTimeOff(c)
  <2>1. l \in TimeOffLines(c, sub)
    BY <1>4 DEF LinesFor, Unmarked, Paid
  <2> QED BY <1>4, <2>1 DEF TimeOffLines, Line, Earnings
<1>5. CASE plan[c].outcome = "WORKED" /\ ~ForTimeOff(c)
  BY <1>5 DEF LinesFor, Unmarked, Paid, Line
<1>6. CASE plan[c].outcome = "SICK_DAY_OFF" /\ ~ForTimeOff(c)
  <2>1. l = Line(c, "COMMISSION", "CREDIT", Due) \/ l \in SickLines(c, sub)
    BY <1>6 DEF LinesFor, Unmarked, Paid
  <2>2. l \notin SickLines(c, sub)
    BY DEF SickLines, Line, Earnings
  <2> QED BY <1>6, <2>1, <2>2 DEF Line
<1> QED BY <1>1, <1>2, <1>3, <1>4, <1>5, <1>6 DEF Outcomes, Paid

LEMMA CalculatedSound ==
    ASSUME ServerTypes, NEW r \in Nat, NEW first \in FirstReplacement
    PROVE  OneEarning(Calculated(r, first)) /\ Credited(Calculated(r, first))
<1> DEFINE Made(l) == [run |-> r, made |-> made + 1, of |-> l.of, calc |-> l.calc,
                       dir |-> l.dir, status |-> l.status]
<1>1. ASSUME NEW i \in Calculated(r, first), i.calc \in Earnings
      PROVE  /\ i.dir = "CREDIT"
             /\ i = [run |-> r, made |-> made + 1, of |-> i.of,
                     calc |-> IF plan[i.of].outcome = "TIME_OFF" THEN "TIME_OFF_RETAINED"
                                                                 ELSE "COMMISSION",
                     dir |-> "CREDIT", status |-> Due]
  <2>1. PICK l \in UNION {LinesFor(c, first[c]) : c \in Included} : i = Made(l)
    BY DEF Calculated
  <2>2. PICK c \in Included : l \in LinesFor(c, first[c])
    BY <2>1
  <2>3. plan[c].outcome \in Outcomes \cup {Unmarked}
    BY <2>2 DEF Included, ServerTypes, Plans, Rows, NoRow
  <2>4. l.calc \in Earnings
    BY <1>1, <2>1
  <2>5. /\ l.of = c /\ l.dir = "CREDIT" /\ l.status = Due
        /\ l.calc = IF plan[c].outcome = "TIME_OFF" THEN "TIME_OFF_RETAINED" ELSE "COMMISSION"
    BY <2>2, <2>3, <2>4, EarningOf
  <2> QED BY <2>1, <2>5
<1>2. ASSUME NEW i \in Calculated(r, first), NEW j \in Calculated(r, first), SameEarning(i, j)
      PROVE  i = j
  <2>1. i.calc \in Earnings /\ j.calc \in Earnings /\ i.of = j.of
    BY <1>2 DEF SameEarning
  <2> HIDE DEF Made
  <2> QED BY <1>1, <2>1
<1> QED BY <1>1, <1>2 DEF OneEarning, Credited

(***************************************************************************)
(* Ids of entries.                                                         *)
(***************************************************************************)
\* An id tells entries apart, but for the earnings of an assignment.
LEMMA IdsDiffer ==
    ASSUME NEW e \in Entries, NEW f \in Entries, EntryId(e) = EntryId(f)
    PROVE  e = f \/ SameEarning(e, f)
<1>1. CASE e.calc \in Earnings /\ f.calc \in Earnings
  BY <1>1 DEF EntryId, SameEarning
<1>2. CASE e.calc \notin Earnings /\ f.calc \notin Earnings
  <2>1. e.made = f.made /\ e.of = f.of /\ e.calc = f.calc /\ e.dir = f.dir
    BY <1>2 DEF EntryId
  <2> QED BY <2>1 DEF Entries
<1>3. ASSUME NEW g, NEW h, g.calc \in Earnings, h.calc \notin Earnings
      PROVE  EntryId(g) # EntryId(h)
  <2>1. EntryId(g)[1] = "assignment" /\ EntryId(h)[1] = "item"
    BY <1>3 DEF EntryId
  <2> QED BY <2>1
<1> QED BY <1>1, <1>2, <1>3

LEMMA SameEarningSameId ==
    ASSUME NEW e, NEW f, SameEarning(e, f), e.dir = "CREDIT", f.dir = "CREDIT"
    PROVE  EntryId(e) = EntryId(f)
BY DEF SameEarning, EntryId

\* The entry of an item is dropped only for one that stands for it.
LEMMA PostedOrThere ==
    ASSUME ledger \subseteq Entries, NEW is \in SUBSET Items, NEW i \in is
    PROVE  \E e \in ledger \cup Fresh(Posting(is)) : e = EntryFor(i) \/ SameEarning(e, i)
<1>1. EntryFor(i) \in Posting(is) /\ EntryFor(i) \in Entries
  BY DEF Posting, EntryFor, Entries, Items
<1>2. CASE EntryFor(i) \in Fresh(Posting(is))
  BY <1>2
<1>3. CASE EntryFor(i) \notin Fresh(Posting(is))
  <2>1. PICK f \in ledger : EntryId(f) = EntryId(EntryFor(i))
    BY <1>1, <1>3 DEF Fresh
  <2>2. f = EntryFor(i) \/ SameEarning(f, EntryFor(i))
    BY <1>1, <2>1, IdsDiffer
  <2> QED BY <2>2 DEF SameEarning, EntryFor
<1> QED BY <1>2, <1>3

\* What a posting adds to the ledger pays nobody twice.
LEMMA PaidOnceMore ==
    ASSUME NEW is \in SUBSET Items, OneEarning(is), Credited(is), Credited(ledger),
           EarningPaidOnce
    PROVE  LET new == ledger \cup Fresh(Posting(is))
           IN  /\ Credited(new)
               /\ \A e, f \in new : SameEarning(e, f) => e = f
<1> DEFINE new == Fresh(Posting(is))
<1>1. \A e \in new : \E i \in is : e = EntryFor(i)
  BY DEF Fresh, Posting
<1>2. \A e \in new : e.calc \in Earnings => e.dir = "CREDIT"
  BY <1>1 DEF EntryFor, Credited
<1>3. \A e \in ledger : e.calc \in Earnings => e.dir = "CREDIT"
  BY DEF Credited
<1>4. ASSUME NEW e \in new, NEW f \in ledger
      PROVE  ~SameEarning(e, f) /\ ~SameEarning(f, e)
  <2>1. EntryId(f) # EntryId(e)
    BY DEF Fresh
  <2> QED BY <1>2, <1>3, <2>1, SameEarningSameId DEF SameEarning
<1>5. ASSUME NEW e \in new, NEW f \in new, SameEarning(e, f)
      PROVE  e = f
  <2>1. PICK i \in is, j \in is : e = EntryFor(i) /\ f = EntryFor(j)
    BY <1>1
  <2>2. SameEarning(i, j)
    BY <1>5, <2>1 DEF SameEarning, EntryFor
  <2> QED BY <2>1, <2>2 DEF OneEarning
<1>6. \A e, f \in ledger : SameEarning(e, f) => e = f
  BY DEF EarningPaidOnce, SameEarning
<1> HIDE DEF new
<1>7. \A e, f \in ledger \cup new : SameEarning(e, f) => e = f
  BY <1>4, <1>5, <1>6
<1>8. Credited(ledger \cup new)
  BY <1>2, <1>3 DEF Credited
<1> QED BY <1>7, <1>8 DEF new

(***************************************************************************)
(* The steps.                                                              *)
(***************************************************************************)
\* A request that is neither replacing nor posting is sound.
LEMMA OthersSound ==
    ASSUME NEW q, q.step \notin {"replace", "posting"}
    PROVE  Sound(q)
BY DEF Sound

LEMMA SoundBecomes ==
    ASSUME \A s \in Slots : Sound(requests[s]), requests \in [Slots -> RequestTypes],
           NEW s \in Slots, NEW q, Sound(q), Becomes(s, q)
    PROVE  \A t \in Slots : Sound(requests'[t])
BY DEF Becomes

LEMMA SoundAnswered ==
    ASSUME \A s \in Slots : Sound(requests[s]), requests \in [Slots -> RequestTypes],
           NEW s \in Slots, Done(s) \/ Refused(s)
    PROVE  \A t \in Slots : Sound(requests'[t])
<1>1. \A step \in {"done", "failed"} : Sound(Answered(s, step))
  BY OthersSound DEF Answered
<1> QED BY <1>1, SoundBecomes DEF Done, Refused

\* Nothing but requests changes in what accrual is about.
LEMMA AccrualKept ==
    ASSUME Accrual, UNCHANGED <<items, ledger>>, \A t \in Slots : Sound(requests'[t])
    PROVE  Accrual'
BY DEF Accrual, EarningPaidOnce, PostedMeansPaid, Credited, ReadyOnce

LEMMA CalculateAccrual ==
    ASSUME Types, Accrual, NEW s \in Slots, Calculate(s)
    PROVE  Accrual'
<1> DEFINE r == requests[s].run
<1>1. requests[s] \in Calculating /\ requests \in [Slots -> RequestTypes]
  BY RequestForms DEF Calculate, Types, RequestsTyped
<1>2. r \in Nat /\ UNCHANGED <<items, ledger>>
  BY <1>1 DEF Calculating, Calculate
<1>3. CASE Refused(s)
  BY <1>1, <1>2, <1>3, SoundAnswered, AccrualKept DEF Accrual
<1>4. CASE ~Refused(s)
  <2>1. PICK first \in FirstReplacement :
            Becomes(s, [kind |-> requests[s].kind, by |-> requests[s].by,
                        step |-> "replace", run |-> r, items |-> Calculated(r, first)])
    BY <1>4 DEF Calculate
  <2> DEFINE q == [kind |-> requests[s].kind, by |-> requests[s].by,
                   step |-> "replace", run |-> r, items |-> Calculated(r, first)]
  <2>2. /\ OneEarning(Calculated(r, first)) /\ Credited(Calculated(r, first))
        /\ \A i \in Calculated(r, first) : i.run = r /\ i.status # "POSTED"
    BY <1>2, CalculatedSound, CalculatedTyped DEF Types
  <2>3. Sound(q)
    BY <2>2 DEF Sound
  <2> HIDE DEF q
  <2>4. \A t \in Slots : Sound(requests'[t])
    BY <1>1, <2>1, <2>3, SoundBecomes DEF Accrual, q
  <2> QED BY <1>2, <2>4, AccrualKept
<1> QED BY <1>3, <1>4

LEMMA ReplaceItemsAccrual ==
    ASSUME Types, Accrual, NEW s \in Slots, ReplaceItems(s)
    PROVE  Accrual'
<1> DEFINE now == requests[s]
           r == now.run
<1>1. requests \in [Slots -> RequestTypes] /\ \A t \in Slots : Sound(requests'[t])
  BY SoundAnswered DEF ReplaceItems, Types, RequestsTyped, Accrual
<1>2. /\ OneEarning(now.items) /\ Credited(now.items)
      /\ \A i \in now.items : i.run = r /\ i.status # "POSTED"
  BY DEF ReplaceItems, Accrual, Sound
<1>3. items' = Kept(r) \cup now.items /\ ledger' = ledger
  BY DEF ReplaceItems
<1>4. /\ Kept(r) \subseteq items
      /\ \A i \in Kept(r) : i.run # r \/ i.status = "POSTED"
  BY DEF Kept
<1>5. Credited(items')
  BY <1>2, <1>3, <1>4 DEF Accrual, Credited
<1>6. ReadyOnce(items')
  <2> SUFFICES ASSUME NEW i \in items', NEW j \in items', i.status = "READY",
                      j.status = "READY", i.run = j.run, SameEarning(i, j)
               PROVE  i = j
    BY DEF ReadyOnce
  <2>1. CASE i.run = r
    <3>1. i \in now.items /\ j \in now.items
      BY <1>3, <1>4, <2>1
    <3> QED BY <1>2, <3>1 DEF OneEarning
  <2>2. CASE i.run # r
    <3>1. i \in items /\ j \in items
      BY <1>2, <1>3, <1>4, <2>2
    <3> QED BY <3>1 DEF Accrual, ReadyOnce
  <2> QED BY <2>1, <2>2
<1>7. PostedMeansPaid'
  <2>1. \A i \in items' : i.status = "POSTED" => i \in items
    BY <1>2, <1>3, <1>4
  <2> QED BY <1>3, <2>1 DEF Accrual, PostedMeansPaid
<1>8. EarningPaidOnce' /\ Credited(ledger')
  BY <1>3 DEF Accrual, EarningPaidOnce
<1> QED BY <1>1, <1>5, <1>6, <1>7, <1>8 DEF Accrual

LEMMA PostReadAccrual ==
    ASSUME Types, Accrual, NEW s \in Slots, PostRead(s)
    PROVE  Accrual'
<1> DEFINE r == requests[s].run
           q == [kind |-> "post", by |-> requests[s].by, step |-> "posting", run |-> r,
                 ready |-> ItemsOf(r, "READY"), partial |-> ItemsOf(r, "PENDING") # {}]
<1>1. requests \in [Slots -> RequestTypes] /\ UNCHANGED <<items, ledger>>
  BY DEF PostRead, Types, RequestsTyped
<1>2. \/ Done(s) \/ Refused(s) \/ Becomes(s, q)
  BY DEF PostRead
<1>3. OneEarning(ItemsOf(r, "READY")) /\ Credited(ItemsOf(r, "READY"))
  BY DEF ItemsOf, OneEarning, Credited, Accrual, ReadyOnce
<1>4. Sound(q)
  BY <1>3 DEF Sound
<1> HIDE DEF q
<1>5. \A t \in Slots : Sound(requests'[t])
  BY <1>1, <1>2, <1>4, SoundAnswered, SoundBecomes DEF Accrual
<1> QED BY <1>1, <1>5, AccrualKept

LEMMA PostReadyItemsAccrual ==
    ASSUME Types, Accrual, NEW s \in Slots, PostReadyItems(s)
    PROVE  Accrual'
<1> DEFINE now == requests[s]
           AsPosted(i) == [i EXCEPT !.status = "POSTED"]
<1>1. requests \in [Slots -> RequestTypes] /\ \A t \in Slots : Sound(requests'[t])
  BY SoundAnswered DEF PostReadyItems, Types, RequestsTyped, Accrual
<1>2. now \in PostPosting
  BY RequestForms DEF PostReadyItems, At, Types, RequestsTyped
<1>3. now.ready \in SUBSET Items /\ OneEarning(now.ready) /\ Credited(now.ready)
  BY <1>2 DEF PostPosting, Accrual, Sound
<1>4. /\ ledger' = ledger \cup Fresh(Posting(now.ready))
      /\ items' = (items \ Marked(now)) \cup {AsPosted(i) : i \in Marked(now)}
  BY DEF PostReadyItems
<1>5. Marked(now) \subseteq items /\ Marked(now) \subseteq now.ready
  BY DEF Marked, ItemsOf
<1>6. items \subseteq Items /\ ledger \subseteq Entries
  BY DEF Types, ServerTypes
<1>7. ASSUME NEW i \in items'
      PROVE  \/ i \in items
             \/ \E j \in Marked(now) : /\ i.status = "POSTED" /\ i.calc = j.calc /\ i.dir = j.dir
                                       /\ EntryFor(i) = EntryFor(j) /\ i.of = j.of
  <2>1. CASE i \in items
    BY <2>1
  <2>2. CASE i \notin items
    <3>1. PICK j \in Marked(now) : i = AsPosted(j)
      BY <1>4, <2>2
    <3>2. j \in Items
      BY <1>5, <1>6
    <3> QED BY <3>1, <3>2, PostedTyped DEF EntryFor
  <2> QED BY <2>1, <2>2
<1>8. Credited(items')
  BY <1>5, <1>7 DEF Accrual, Credited
<1>9. ReadyOnce(items')
  <2>1. \A i \in items' : i.status = "READY" => i \in items
    BY <1>7
  <2> QED BY <2>1 DEF Accrual, ReadyOnce
<1>10. Credited(ledger') /\ EarningPaidOnce'
  <2>1. /\ Credited(ledger')
        /\ \A e, f \in ledger' : SameEarning(e, f) => e = f
    BY <1>3, <1>4, PaidOnceMore DEF Accrual
  <2> QED BY <2>1 DEF EarningPaidOnce, SameEarning
<1>11. PostedMeansPaid'
  <2> SUFFICES ASSUME NEW i \in items', i.status = "POSTED"
               PROVE  \E e \in ledger' : e = EntryFor(i) \/ SameEarning(e, i)
    BY DEF PostedMeansPaid, EntryFor, SameEarning
  <2>1. CASE i \in items
    <3>1. \E e \in ledger : e = EntryFor(i) \/ SameEarning(e, i)
      BY <2>1 DEF Accrual, PostedMeansPaid, EntryFor, SameEarning
    <3> QED BY <1>4, <3>1
  <2>2. CASE i \notin items
    <3>1. PICK j \in Marked(now) : /\ i.calc = j.calc /\ EntryFor(i) = EntryFor(j) /\ i.of = j.of
      BY <1>7, <2>2
    <3>2. j \in now.ready
      BY <1>5
    <3>3. \E e \in ledger' : e = EntryFor(j) \/ SameEarning(e, j)
      BY <1>3, <1>4, <1>6, <3>2, PostedOrThere
    <3> QED BY <3>1, <3>3 DEF SameEarning
  <2> QED BY <2>1, <2>2
<1> QED BY <1>1, <1>8, <1>9, <1>10, <1>11 DEF Accrual

\* The other steps leave items and ledger alone, and begin no replacement.
LEMMA ServeAccrual ==
    ASSUME Types, Accrual, NEW s \in Slots, Serve(s) \/ Breaks(s)
    PROVE  Accrual'
<1>1. requests \in [Slots -> RequestTypes]
  BY DEF Types, RequestsTyped
<1>2. ASSUME UNCHANGED <<items, ledger>>,
             Done(s) \/ Refused(s) \/ \E q : Becomes(s, q) /\ q.step \in {"sent", "saving", "calculate", "done"}
      PROVE  Accrual'
  <2>1. \A t \in Slots : Sound(requests'[t])
    <3>1. ASSUME NEW q, q.step \in {"sent", "saving", "calculate", "done"}, Becomes(s, q)
          PROVE  \A t \in Slots : Sound(requests'[t])
      BY <1>1, <3>1, OthersSound, SoundBecomes DEF Accrual
    <3> QED BY <1>1, <1>2, <3>1, SoundAnswered DEF Accrual
  <2> QED BY <1>2, <2>1, AccrualKept
<1>3. CASE BulkRead(s)
  BY <1>2, <1>3 DEF BulkRead
<1>4. CASE BulkSave(s) \/ BulkCover(s)
  <2>1. requests[s].step = "saving" /\ requests[s] \in BulkSaving
    BY <1>1, <1>4, RequestForms DEF BulkSave, BulkCover, At
  <2>2. UNCHANGED <<items, ledger>>
    BY <1>4 DEF BulkSave, BulkCover
  <2>3. Done(s) \/ Refused(s) \/ \E q : Becomes(s, q) /\ q.step = "saving"
    <3>1. CASE BulkSave(s)
      <4> DEFINE row == Head(requests[s].toSave)
                 q == [requests[s] EXCEPT !.toSave = Tail(@),
                            !.saved[row.of] = SavedRow(row, requests[s].read[row.of])]
      <4>1. Done(s) \/ Refused(s) \/ Becomes(s, q)
        BY <3>1 DEF BulkSave
      <4>2. q.step = "saving"
        BY <2>1 DEF BulkSaving
      <4> HIDE DEF q
      <4> QED BY <4>1, <4>2
    <3>2. CASE BulkCover(s)
      <4> DEFINE row == Head(requests[s].toCover)
                 q == [requests[s] EXCEPT !.toCover = Tail(@),
                            !.saved[row.of] = [requests[s].saved[row.of] EXCEPT !.covers = row.covers]]
      <4>1. Done(s) \/ Refused(s) \/ Becomes(s, q)
        BY <3>2 DEF BulkCover
      <4>2. q.step = "saving"
        BY <2>1 DEF BulkSaving
      <4> HIDE DEF q
      <4> QED BY <4>1, <4>2
    <3> QED BY <1>4, <3>1, <3>2
  <2> QED BY <1>2, <2>2, <2>3
<1>5. CASE OutcomeRead(s) \/ OutcomeSave(s)
  BY <1>2, <1>5 DEF OutcomeRead, OutcomeSave
<1>6. CASE RefineSave(s) \/ InformRead(s) \/ InformSave(s)
  <2>1. requests[s] # Free /\ UNCHANGED <<items, ledger>>
    BY <1>6 DEF RefineSave, InformRead, InformSave, At, Free
  <2>2. requests[s].step \in {"sent", "saving"} /\ requests[s].kind \in {"refine", "inform"}
    BY <1>6 DEF RefineSave, InformRead, InformSave, At
  <2>3. requests[s] \in Refining \cup Informings
    BY <1>1, <1>6, RequestForms DEF RefineSave, InformRead, InformSave, At
  <2>4. \A st \in {"done", "saving"} : [requests[s] EXCEPT !.step = st].step = st
    BY <2>3 DEF Refining, Informings
  <2>5. Done(s) \/ Refused(s) \/ \E st \in {"done", "saving"} : Becomes(s, [requests[s] EXCEPT !.step = st])
    BY <1>6 DEF RefineSave, InformRead, InformSave
  <2> QED BY <1>2, <2>1, <2>4, <2>5
<1>7. CASE CreateRun(s)
  BY <1>2, <1>7 DEF CreateRun
<1>8. CASE Breaks(s)
  BY <1>2, <1>8 DEF Breaks
<1> QED
  BY <1>3, <1>4, <1>5, <1>6, <1>7, <1>8, CalculateAccrual, ReplaceItemsAccrual,
     PostReadAccrual, PostReadyItemsAccrual DEF Serve

\* A request that is sent begins at the beginning.
LEMMA RequestsAccrual ==
    ASSUME Types, Accrual, NEW s \in Slots, Requests(s)
    PROVE  Accrual'
<1>1. \E q : Send(s, q) /\ q.step \in {"sent", "calculate"}
  <2> DEFINE Begins(q) == Send(s, q) /\ q.step \in {"sent", "calculate"}
  <2>1. ASSUME NEW what, NEW q, q.step \in {"sent", "calculate"}, FromPage(s, what, q)
        PROVE  \E p : Begins(p)
    BY <2>1 DEF FromPage
  <2>2. ASSUME NEW q, q.step \in {"sent", "calculate"}, Send(s, q)
        PROVE  \E p : Begins(p)
    BY <2>2
  <2> SUFFICES \E p : Begins(p)
    OBVIOUS
  <2> HIDE DEF Begins
  <2>3. CASE SavePlan(s) \/ Inform(s) \/ Create(s)
    BY <2>1, <2>3 DEF SavePlan, Inform, Create
  <2>4. CASE Elsewhere(s)
    <3>1. CASE Send(s, [kind |-> "create", by |-> "elsewhere", step |-> "sent"])
      BY <2>2, <3>1
    <3>2. ASSUME NEW r, Send(s, [kind |-> "calculate", by |-> "elsewhere",
                                 step |-> "calculate", run |-> r])
          PROVE  \E p : Begins(p)
      BY <2>2, <3>2
    <3>3. ASSUME NEW r, Send(s, [kind |-> "post", by |-> "elsewhere", step |-> "sent", run |-> r])
          PROVE  \E p : Begins(p)
      BY <2>2, <3>3
    <3> QED BY <2>4, <3>1, <3>2, <3>3 DEF Elsewhere
  <2>5. ASSUME NEW c, RefineForFuture(s, c)
        PROVE  \E p : Begins(p)
    BY <2>1, <2>5 DEF RefineForFuture
  <2>6. ASSUME NEW c, NEW o, MarkOutcome(s, c, o)
        PROVE  \E p : Begins(p)
    BY <2>1, <2>6 DEF MarkOutcome
  <2>7. ASSUME NEW r, Recalculate(s, r) \/ Post(s, r)
        PROVE  \E p : Begins(p)
    BY <2>1, <2>7 DEF Recalculate, Post
  <2> QED BY <2>3, <2>4, <2>5, <2>6, <2>7 DEF Requests
<1>2. PICK q : Send(s, q) /\ q.step \in {"sent", "calculate"}
  BY <1>1
<1>3. \A t \in Slots : Sound(requests'[t])
  BY <1>2, OthersSound, SoundBecomes DEF Send, Types, RequestsTyped, Accrual
<1> QED BY <1>2, <1>3, AccrualKept DEF Send

\* Leaving a tab changes who waits for a request, not what the server does.
LEMMA ForgottenSound ==
    ASSUME NEW q \in RequestTypes, Sound(q)
    PROVE  Sound(Forgotten(q))
<1>1. CASE q.step = "replace"
  <2>1. q \in Replacing
    BY <1>1, RequestForms
  <2>2. /\ [q EXCEPT !.by = "tabLeft"].step = q.step
        /\ [q EXCEPT !.by = "tabLeft"].items = q.items
        /\ [q EXCEPT !.by = "tabLeft"].run = q.run
        /\ q.kind # "refine"
    BY <2>1 DEF Replacing
  <2> QED BY <1>1, <2>2 DEF Forgotten, Sound
<1>2. CASE q.step = "posting"
  <2>1. q \in PostPosting
    BY <1>2 DEF RequestTypes, Free, BulkSent, BulkSaving, OutcomeSent, OutcomeSaving, Refining,
       Informings, Creating, Calculating, Replacing, PostSent, Ended
  <2>2. /\ [q EXCEPT !.by = "tabLeft"].step = q.step
        /\ [q EXCEPT !.by = "tabLeft"].ready = q.ready
        /\ q.kind # "refine"
    BY <2>1 DEF PostPosting
  <2> QED BY <1>2, <2>2 DEF Forgotten, Sound
<1>3. CASE q.step \notin {"replace", "posting"}
  <2>1. [q EXCEPT !.by = "tabLeft"].step \notin {"replace", "posting"}
        /\ [q EXCEPT !.of = NoOne].step \notin {"replace", "posting"}
    BY <1>3 DEF RequestTypes, Free, BulkSent, BulkSaving, OutcomeSent, OutcomeSaving, Refining,
       Informings, Creating, Calculating, Replacing, PostSent, PostPosting, Ended
  <2> QED BY <1>3, <2>1, OthersSound DEF Forgotten
<1> QED BY <1>1, <1>2, <1>3

LEMMA AccrualStep == Types /\ Accrual /\ [Next]_vars => Accrual'
<1> SUFFICES ASSUME Types, Accrual, [Next]_vars PROVE Accrual'
  OBVIOUS
<1>1. requests \in [Slots -> RequestTypes] /\ \A t \in Slots : Sound(requests[t])
  BY DEF Types, RequestsTyped, Accrual
<1>2. CASE UNCHANGED <<items, ledger, requests>>
  BY <1>1, <1>2, AccrualKept
<1>3. ASSUME NEW t \in Tabs, OpenTab(t)
      PROVE  Accrual'
  <2>1. requests' = requests \/ requests' = [s \in Slots |-> Forgotten(requests[s])]
    BY <1>3 DEF OpenTab
  <2>2. \A s \in Slots : Sound(requests'[s])
    BY <1>1, <2>1, ForgottenSound
  <2> QED BY <1>3, <2>2, AccrualKept DEF OpenTab
<1>4. ASSUME NEW s \in Slots, Receive(s)
      PROVE  Accrual'
  <2>1. Becomes(s, Free) /\ Sound(Free) /\ UNCHANGED <<items, ledger>>
    BY <1>4, OthersSound DEF Receive, Free
  <2>2. \A t \in Slots : Sound(requests'[t])
    BY <1>1, <2>1, SoundBecomes
  <2> QED BY <2>1, <2>2, AccrualKept
<1>5. ASSUME NEW s \in Slots, Work(s) \/ Fault(s)
      PROVE  Accrual'
  BY <1>5, ServeAccrual DEF Work, Fault
<1>6. ASSUME NEW form, Edit(form)
      PROVE  Accrual'
  BY <1>2, <1>6 DEF Edit, serverVars
<1>7. CASE User
  BY <1>3, <1>6, <1>7 DEF User, Select, SetAway, Refine, Uncover, Cover
<1>8. ASSUME NEW q \in Queries, FetchRead(q) \/ FetchDelivered(q)
      PROVE  Accrual'
  BY <1>2, <1>8 DEF FetchRead, FetchDelivered, serverVars
<1>9. CASE Produce
  BY <1>2, <1>9 DEF Produce, RecordProduction
<1>10. CASE UNCHANGED vars
  BY <1>2, <1>10 DEF vars, serverVars
<1> QED BY <1>4, <1>5, <1>7, <1>8, <1>9, <1>10, RequestsAccrual DEF Next

LEMMA AccrualInit == Init => Accrual
<1> SUFFICES ASSUME Init PROVE Accrual
  OBVIOUS
<1>1. items = {} /\ ledger = {} /\ \A s \in Slots : requests[s] = Free
  BY DEF Init
<1>2. \A s \in Slots : Sound(requests[s])
  BY <1>1, OthersSound DEF Free
<1> QED BY <1>1, <1>2 DEF Accrual, Credited, ReadyOnce, EarningPaidOnce, PostedMeansPaid

(***************************************************************************)
(* The theorems.                                                           *)
(***************************************************************************)
\* The invariant: a run's READY items pay nobody two earnings, and what a
\* handler has calculated or read to post neither (CalculateRun, PostRun).
THEOREM AccrualHolds == Spec => []Accrual
BY AccrualInit, AccrualStep, AlwaysTyped, PTL DEF Spec

\* An assignment earns once, however many runs are created, recalculated and
\* posted at the same time and whatever outcomes are saved meanwhile (PostRun).
THEOREM EarnedOnce == Spec => []EarningPaidOnce
BY AccrualHolds, PTL DEF Accrual

\* What the Accrual tab calls posted is in the Current Account.
THEOREM PostedIsPaid == Spec => []PostedMeansPaid
BY AccrualHolds, PTL DEF Accrual

\* An item that is posted stays as it is, whichever recalculation of its run was
\* under way when it was posted (ReplaceItemsForRun).
THEOREM PostedStays == Spec => PostedIsKept
<1> DEFINE Keeps == \A i \in items : i.status = "POSTED" => i \in items'
<1>1. Types /\ [Next]_vars => [Keeps]_serverVars
  <2> SUFFICES ASSUME Types, [Next]_vars PROVE Keeps \/ UNCHANGED serverVars
    OBVIOUS
  <2>1. CASE items' = items
    BY <2>1
  <2>2. ASSUME NEW s \in Slots, ReplaceItems(s)
        PROVE  Keeps
    BY <2>2 DEF ReplaceItems, Kept
  <2>3. ASSUME NEW s \in Slots, PostReadyItems(s)
        PROVE  Keeps
    BY <2>3 DEF PostReadyItems, Marked, ItemsOf
  <2>4. ASSUME NEW s \in Slots, Serve(s) \/ Breaks(s)
        PROVE  Keeps
    BY <2>1, <2>2, <2>3, <2>4
    DEF Serve, BulkRead, BulkSave, BulkCover, OutcomeRead, OutcomeSave, RefineSave, InformRead,
        InformSave, CreateRun, Calculate, PostRead, Breaks
  <2>5. ASSUME NEW s \in Slots, Requests(s)
        PROVE  items' = items
    BY <2>5 DEF Requests, SavePlan, Inform, Create, Elsewhere, RefineForFuture, MarkOutcome,
       Recalculate, Post, FromPage, Send
  <2>6. CASE User
    BY <2>6 DEF User, Select, SetAway, Refine, Uncover, Cover, Edit, OpenTab, serverVars
  <2>7. ASSUME NEW s \in Slots, Receive(s)
        PROVE  items' = items
    BY <2>7 DEF Receive
  <2>8. ASSUME NEW q \in Queries, FetchRead(q) \/ FetchDelivered(q)
        PROVE  items' = items
    BY <2>8 DEF FetchRead, FetchDelivered, serverVars
  <2>9. CASE Produce
    BY <2>9 DEF Produce, RecordProduction
  <2>10. CASE UNCHANGED vars
    BY <2>10 DEF vars, serverVars
  <2> HIDE DEF Keeps
  <2> QED BY <2>1, <2>4, <2>5, <2>6, <2>7, <2>8, <2>9, <2>10 DEF Next, Work, Fault
<1> QED BY <1>1, AlwaysTyped, PTL DEF Spec, PostedIsKept
===============================================================================
