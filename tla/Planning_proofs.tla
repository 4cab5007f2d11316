---------------------------- MODULE Planning_proofs ----------------------------
(***************************************************************************)
(* Theorems about planning: the replacements that saves of the plan leave, *)
(* and what the page shows once it is quiet.                               *)
(***************************************************************************)
EXTENDS PlanningPage_proofs

(***************************************************************************)
(* Replacements.  A save checks them against the plan as it read it, under *)
(* what it has saved.  That this is the plan there is, as far as           *)
(* replacements go, rests on one save being under way at a time: only the  *)
(* page sends saves, one after the other, and a save is not forgotten when *)
(* the tab is left.                                                        *)
(***************************************************************************)
NoTwoCover(p) ==
    \A c, d \in Collaborators : p[c].covers # NoOne /\ p[c].covers = p[d].covers => c = d

SavesAlone(reqs) ==
    /\ \A s \in Slots : reqs[s].kind = "bulk" => reqs[s].by = "page"
    /\ \A s, t \in Slots : reqs[s].kind = "bulk" /\ reqs[t].kind = "bulk" => s = t

\* What a save under way takes the plan p to be, of the replacements.
Knows(q, p) ==
    q.kind = "bulk" /\ q.step = "saving" =>
        \A c \in Collaborators : p[c].covers = Effective(q)[c].covers

Covering ==
    /\ SavesAlone(requests)
    /\ ~overwritten =>
        /\ NoTwoCover(plan)
        /\ \A s \in Slots : Knows(requests[s], plan)

\* A request keeps its kind and sender until it is answered and received.
LEMMA ServeKeepsKind ==
    ASSUME ServerTypes, RequestsTyped, NEW s \in Slots, Serve(s) \/ Breaks(s)
    PROVE  /\ \A t \in Slots \ {s} : requests'[t] = requests[t]
           /\ requests'[s].kind = requests[s].kind /\ requests'[s].by = requests[s].by
           /\ requests[s] # Free /\ requests'[s] # Free
<1> DEFINE q == requests[s]
<1>1. requests \in [Slots -> RequestTypes] /\ q \in RequestTypes
  BY DEF RequestsTyped
<1>2. q.step # "done"
  BY DEF Serve, BulkRead, BulkSave, BulkCover, OutcomeRead, OutcomeSave, RefineSave, InformRead,
     InformSave, CreateRun, Calculate, ReplaceItems, PostRead, PostReadyItems, Breaks, At
<1>3. q # Free
  BY <1>2 DEF Free
<1>4. q.kind \in RequestKinds
  BY <1>1, <1>3, RequestForms
<1> HIDE DEF q
<1>5. ASSUME NEW p, Becomes(s, p), p.kind = q.kind, p.by = q.by
      PROVE  /\ \A t \in Slots \ {s} : requests'[t] = requests[t]
             /\ requests'[s].kind = q.kind /\ requests'[s].by = q.by /\ requests'[s] # Free
  BY <1>1, <1>4, <1>5 DEF Becomes, RequestKinds, Free
<1>6. ASSUME Done(s) \/ Refused(s)
      PROVE  \E p : Becomes(s, p) /\ p.kind = q.kind /\ p.by = q.by
  BY <1>6 DEF Done, Refused, Answered, q
<1>7. \E p : Becomes(s, p) /\ p.kind = q.kind /\ p.by = q.by
  <2> DEFINE Goes(p) == Becomes(s, p) /\ p.kind = q.kind /\ p.by = q.by
  <2> SUFFICES \E p : Goes(p)
    OBVIOUS
  <2> HIDE DEF Goes
  <2>1. CASE Done(s) \/ Refused(s)
    BY <1>6, <2>1 DEF Goes
  <2>2. ASSUME NEW p, Becomes(s, p), p.kind = q.kind, p.by = q.by
        PROVE  \E r : Goes(r)
    BY <2>2 DEF Goes
  <2>3. CASE BulkRead(s)
    BY <2>2, <2>3 DEF BulkRead, At, q
  <2>4. CASE BulkSave(s)
    <3> DEFINE row == Head(q.toSave)
               p == [q EXCEPT !.toSave = Tail(@), !.saved[row.of] = SavedRow(row, q.read[row.of])]
    <3>1. Done(s) \/ Refused(s) \/ Becomes(s, p)
      BY <2>4 DEF BulkSave, q
    <3>2. q \in BulkSaving
      BY <1>1, <2>4, RequestForms DEF BulkSave, At, q
    <3>3. p.kind = q.kind /\ p.by = q.by
      BY <3>2 DEF BulkSaving
    <3> HIDE DEF p
    <3> QED BY <2>1, <2>2, <3>1, <3>3
  <2>5. CASE BulkCover(s)
    <3> DEFINE row == Head(q.toCover)
               p == [q EXCEPT !.toCover = Tail(@),
                              !.saved[row.of] = [q.saved[row.of] EXCEPT !.covers = row.covers]]
    <3>1. Done(s) \/ Refused(s) \/ Becomes(s, p)
      BY <2>5 DEF BulkCover, q
    <3>2. q \in BulkSaving
      BY <1>1, <2>5, RequestForms DEF BulkCover, At, q
    <3>3. p.kind = q.kind /\ p.by = q.by
      BY <3>2 DEF BulkSaving
    <3> HIDE DEF p
    <3> QED BY <2>1, <2>2, <3>1, <3>3
  <2>6. CASE OutcomeRead(s)
    BY <2>1, <2>2, <2>6 DEF OutcomeRead, At, q
  <2>7. CASE RefineSave(s) \/ InformRead(s)
    <3>1. q \in Refining \cup Informings
      BY <1>1, <2>7, RequestForms DEF RefineSave, InformRead, At, q
    <3>2. \A st : LET p == [q EXCEPT !.step = st] IN p.kind = q.kind /\ p.by = q.by
      BY <3>1 DEF Refining, Informings
    <3>3. Done(s) \/ Refused(s) \/ \E st : Becomes(s, [q EXCEPT !.step = st])
      BY <2>7 DEF RefineSave, InformRead, q
    <3> QED BY <2>1, <2>2, <3>2, <3>3
  <2>8. CASE CreateRun(s)
    BY <2>2, <2>8 DEF CreateRun, At, q
  <2>9. CASE Calculate(s)
    <3>1. ASSUME NEW is, Becomes(s, [kind |-> q.kind, by |-> q.by, step |-> "replace",
                                     run |-> q.run, items |-> is])
          PROVE  \E p : Goes(p)
      BY <2>2, <3>1
    <3> QED BY <2>1, <2>9, <3>1 DEF Calculate, q
  <2>10. CASE PostRead(s)
    <3>1. ASSUME NEW is, NEW some, Becomes(s, [kind |-> "post", by |-> q.by, step |-> "posting",
                                     run |-> q.run, ready |-> is, partial |-> some])
          PROVE  \E p : Goes(p)
      BY <2>2, <2>10, <3>1 DEF PostRead, At, q
    <3> QED BY <2>1, <2>10, <3>1 DEF PostRead, q
  <2>11. CASE OutcomeSave(s) \/ InformSave(s) \/ ReplaceItems(s) \/ PostReadyItems(s) \/ Breaks(s)
    BY <2>1, <2>11 DEF OutcomeSave, InformSave, ReplaceItems, PostReadyItems, Breaks
  <2> QED BY <2>3, <2>4, <2>5, <2>6, <2>7, <2>8, <2>9, <2>10, <2>11 DEF Serve
<1> QED BY <1>3, <1>5, <1>7 DEF q

\* Once a save has saved a row, that is what it takes the plan to hold.
LEMMA SavedIsEffective ==
    ASSUME NEW q \in BulkSaving, NEW c \in Collaborators, NEW row \in Rows \ {NoRow}
    PROVE  /\ Effective([q EXCEPT !.toSave = Tail(@), !.saved[c] = row])
                = [Effective(q) EXCEPT ![c] = row]
           /\ Effective([q EXCEPT !.toCover = Tail(@), !.saved[c] = row])
                = [Effective(q) EXCEPT ![c] = row]
BY DEF BulkSaving, Plans, Effective

LEMMA KnowsKept ==
    ASSUME NEW q, NEW p, NEW new, Knows(q, p),
           \A c \in Collaborators : new[c].covers = p[c].covers
    PROVE  Knows(q, new)
BY DEF Knows

LEMMA NoTwoCoverKept ==
    ASSUME NEW p, NEW new, NoTwoCover(p),
           \A c \in Collaborators : new[c].covers = p[c].covers
    PROVE  NoTwoCover(new)
BY DEF NoTwoCover

\* The plan and what the save under way knows of it, when it saves a row that
\* covers nobody, or somebody nobody else is known to cover.
LEMMA SavingCovers ==
    ASSUME Types, Covering, ~overwritten, NEW s \in Slots, NEW q \in BulkSaving,
           requests[s] \in BulkSaving, NEW c \in Collaborators, NEW row \in Rows \ {NoRow},
           Effective(q) = [Effective(requests[s]) EXCEPT ![c] = row],
           row.covers = NoOne \/ Unclaimed(requests[s], c, row.covers),
           plan' = [plan EXCEPT ![c] = row], Done(s) \/ Becomes(s, q)
    PROVE  NoTwoCover(plan') /\ \A t \in Slots : Knows(requests'[t], plan')
<1>1. requests \in [Slots -> RequestTypes] /\ plan \in Plans
  BY DEF Types, RequestsTyped, ServerTypes
<1>2. requests[s].kind = "bulk" /\ requests[s].step = "saving"
  BY DEF BulkSaving
<1>3. \A d \in Collaborators : plan[d].covers = Effective(requests[s])[d].covers
  BY <1>2 DEF Covering, Knows
<1>4. \A d \in Collaborators : plan'[d] = IF d = c THEN row ELSE plan[d]
  BY <1>1 DEF Plans
<1>5. NoTwoCover(plan)
  BY DEF Covering
<1>6. \A d \in Collaborators \ {c} : row.covers # NoOne => plan[d].covers # row.covers
  BY <1>3 DEF Unclaimed
<1>7. NoTwoCover(plan')
  BY <1>4, <1>5, <1>6 DEF NoTwoCover
<1>8. \A t \in Slots \ {s} : requests[t].kind # "bulk" /\ requests'[t] = requests[t]
  BY <1>1, <1>2 DEF Covering, SavesAlone, Done, Becomes
<1>9. Knows(requests'[s], plan')
  <2>1. CASE Done(s)
    <3>1. requests'[s].step = "done"
      BY <1>1, <2>1 DEF Done, Becomes, Answered
    <3> QED BY <3>1 DEF Knows
  <2>2. CASE Becomes(s, q)
    <3>1. requests'[s] = q
      BY <1>1, <2>2 DEF Becomes
    <3>2. \A d \in Collaborators : Effective(q)[d] = IF d = c THEN row ELSE Effective(requests[s])[d]
      BY DEF Effective
    <3>3. \A d \in Collaborators : plan'[d].covers = Effective(q)[d].covers
      BY <1>3, <1>4, <3>2
    <3>4. Knows(q, plan')
      BY <3>3 DEF Knows
    <3> QED BY <3>1, <3>4
  <2> QED BY <2>1, <2>2
<1>10. \A t \in Slots \ {s} : Knows(requests'[t], plan')
  BY <1>8 DEF Knows
<1> QED BY <1>7, <1>9, <1>10

LEMMA BulkSaveCovering ==
    ASSUME Types, Covering, ~overwritten, NEW s \in Slots, BulkSave(s), ~Refused(s)
    PROVE  NoTwoCover(plan') /\ \A t \in Slots : Knows(requests'[t], plan')
<1> DEFINE now == requests[s]
           row == Head(now.toSave)
           old == now.read[row.of]
           new == [now EXCEPT !.toSave = Tail(@), !.saved[row.of] = SavedRow(row, old)]
<1>1. now \in BulkSaving /\ now.toSave # <<>>
  BY RequestForms DEF BulkSave, At, RequestsTyped, Types
<1>2. row \in SentRows
  BY <1>1, TailTyped DEF BulkSaving
<1>3. row.of \in Collaborators /\ old \in Rows
  BY <1>1, <1>2 DEF BulkSaving, SentRows, Plans
<1>4. SavedRow(row, old) \in Rows \ {NoRow} /\ SavedRow(row, old).covers = NoOne
  BY <1>2, <1>3, RowsTyped DEF SavedRow
<1>5. new \in BulkSaving /\ Effective(new) = [Effective(now) EXCEPT ![row.of] = SavedRow(row, old)]
  BY <1>1, <1>3, <1>4, SavingTyped, SavedIsEffective
<1>6. plan' = [plan EXCEPT ![row.of] = SavedRow(row, old)] /\ (Done(s) \/ Becomes(s, new))
  BY DEF BulkSave
<1> HIDE DEF new, now, row, old
<1> QED BY <1>1, <1>3, <1>4, <1>5, <1>6, SavingCovers DEF now

LEMMA BulkCoverCovering ==
    ASSUME Types, Covering, ~overwritten, NEW s \in Slots, BulkCover(s), ~Refused(s)
    PROVE  NoTwoCover(plan') /\ \A t \in Slots : Knows(requests'[t], plan')
<1> DEFINE now == requests[s]
           row == Head(now.toCover)
           covering == [now.saved[row.of] EXCEPT !.covers = row.covers]
           new == [now EXCEPT !.toCover = Tail(@), !.saved[row.of] = covering]
<1>1. now \in BulkSaving /\ now.toCover # <<>>
  BY RequestForms DEF BulkCover, At, RequestsTyped, Types
<1>2. row \in SentRows
  BY <1>1, TailTyped DEF BulkSaving
<1>3. row.of \in Collaborators /\ now.saved[row.of] \in Rows /\ row.covers \in SomeoneOrNo
  BY <1>1, <1>2 DEF BulkSaving, SentRows, Plans
<1>4. plan' = [plan EXCEPT ![row.of] = covering] /\ (Done(s) \/ Becomes(s, new))
  BY DEF BulkCover
<1>5. MayCover(now, row.of, row.covers)
  BY DEF BulkCover
<1>6. now.saved[row.of] # NoRow
  BY <1>5 DEF MayCover, NoRow
<1>7. covering \in Rows \ {NoRow} /\ covering.covers = row.covers
  <2>1. covering \in Rows \ {NoRow}
    BY <1>3, <1>6, RowsTyped
  <2>2. covering.covers = row.covers
    BY <1>3, <1>6 DEF Rows
  <2> QED BY <2>1, <2>2
<1>8. new \in BulkSaving /\ Effective(new) = [Effective(now) EXCEPT ![row.of] = covering]
  <2> HIDE DEF covering, row
  <2> QED BY <1>1, <1>3, <1>7, SavingTyped, SavedIsEffective
<1>9. Unclaimed(now, row.of, covering.covers)
  BY <1>7, <1>5 DEF MayCover
<1> HIDE DEF new, now, row, covering
<1> QED BY <1>1, <1>3, <1>4, <1>7, <1>8, <1>9, SavingCovers DEF now

\* An outcome that is saved over the row it was read from changes no replacement.
LEMMA OutcomeKeepsCovers ==
    ASSUME Types, NEW s \in Slots, OutcomeSave(s), ~Overwrites(s)
    PROVE  \A c \in Collaborators :
             plan'[c].covers = plan[c].covers /\ plan'[c].planned = plan[c].planned
             /\ plan'[c].away = plan[c].away
<1> DEFINE now == requests[s]
<1>1. now \in OutcomeSaving /\ plan \in Plans
  BY RequestForms DEF OutcomeSave, At, RequestsTyped, ServerTypes, Types
<1>2. plan' = [plan EXCEPT ![now.of] = now.row] /\ now.of \in Collaborators
  BY <1>1 DEF OutcomeSave, OutcomeSaving
<1>3. [plan[now.of] EXCEPT !.outcome = now.row.outcome] = now.row
  BY DEF Overwrites, OutcomeSave
<1>4. plan[now.of] \in Rows
  BY <1>1, <1>2 DEF Plans
<1>5. /\ now.row.covers = plan[now.of].covers /\ now.row.planned = plan[now.of].planned
      /\ now.row.away = plan[now.of].away
  BY <1>3, <1>4 DEF Rows, NoRow
<1> QED BY <1>1, <1>2, <1>5 DEF Plans

LEMMA ServeCovering ==
    ASSUME Types, Covering, NEW s \in Slots, Serve(s) \/ Breaks(s),
           overwritten => overwritten', Overwrites(s) => overwritten'
    PROVE  Covering'
<1>1. requests \in [Slots -> RequestTypes] /\ plan \in Plans
  BY DEF Types, RequestsTyped, ServerTypes
<1>2. /\ \A t \in Slots \ {s} : requests'[t] = requests[t]
      /\ requests'[s].kind = requests[s].kind /\ requests'[s].by = requests[s].by
  BY ServeKeepsKind DEF Types
<1>3. SavesAlone(requests')
  BY <1>2 DEF Covering, SavesAlone
<1> SUFFICES ASSUME ~overwritten'
             PROVE  NoTwoCover(plan') /\ \A t \in Slots : Knows(requests'[t], plan')
  BY <1>3 DEF Covering
<1>4. ~overwritten /\ ~Overwrites(s)
  OBVIOUS
<1>5. NoTwoCover(plan) /\ \A t \in Slots : Knows(requests[t], plan)
  BY <1>4 DEF Covering
<1>6. ASSUME \A c \in Collaborators : plan'[c].covers = plan[c].covers, Knows(requests'[s], plan')
      PROVE  NoTwoCover(plan') /\ \A t \in Slots : Knows(requests'[t], plan')
  BY <1>2, <1>5, <1>6, KnowsKept, NoTwoCoverKept
<1>7. requests[s].kind # "bulk" => Knows(requests'[s], plan')
  BY <1>2 DEF Knows
<1>8. CASE BulkRead(s)
  <2>1. /\ plan' = plan /\ requests'[s].read = plan
        /\ requests'[s].saved = [c \in Collaborators |-> NoRow]
    BY <1>1, <1>8 DEF BulkRead, Becomes
  <2>2. Knows(requests'[s], plan')
    BY <2>1 DEF Knows, Effective
  <2> QED BY <1>6, <2>1, <2>2
<1>9. CASE (BulkSave(s) \/ BulkCover(s) \/ Breaks(s)) /\ Refused(s)
  <2>1. requests'[s].step = "failed"
    BY <1>1, <1>9 DEF Refused, Becomes, Answered
  <2>2. plan' = plan
    <3>1. CASE BulkSave(s)
      <4>1. requests[s] \in BulkSaving
        BY <1>1, <3>1, RequestForms DEF BulkSave, At
      <4> DEFINE row == Head(requests[s].toSave)
                 new == [requests[s] EXCEPT !.toSave = Tail(@),
                            !.saved[row.of] = SavedRow(row, requests[s].read[row.of])]
      <4>2. new.step = "saving"
        BY <4>1 DEF BulkSaving
      <4>3. plan' = plan \/ Done(s) \/ Becomes(s, new)
        BY <3>1 DEF BulkSave
      <4> HIDE DEF new
      <4> QED BY <1>1, <2>1, <4>2, <4>3 DEF Done, Becomes, Answered
    <3>2. CASE BulkCover(s)
      <4>1. requests[s] \in BulkSaving
        BY <1>1, <3>2, RequestForms DEF BulkCover, At
      <4> DEFINE row == Head(requests[s].toCover)
                 new == [requests[s] EXCEPT !.toCover = Tail(@),
                            !.saved[row.of] = [requests[s].saved[row.of] EXCEPT !.covers = row.covers]]
      <4>2. new.step = "saving"
        BY <4>1 DEF BulkSaving
      <4>3. plan' = plan \/ Done(s) \/ Becomes(s, new)
        BY <3>2 DEF BulkCover
      <4> HIDE DEF new
      <4> QED BY <1>1, <2>1, <4>2, <4>3 DEF Done, Becomes, Answered
    <3> QED BY <1>9, <3>1, <3>2 DEF Breaks
  <2>3. Knows(requests'[s], plan')
    BY <2>1 DEF Knows
  <2> QED BY <1>6, <2>2, <2>3
<1>10. CASE (BulkSave(s) \/ BulkCover(s)) /\ ~Refused(s)
  BY <1>4, <1>10, BulkSaveCovering, BulkCoverCovering
<1>11. CASE OutcomeSave(s)
  <2>1. requests[s].kind = "outcome"
    BY <1>11 DEF OutcomeSave, At
  <2> QED BY <1>4, <1>6, <1>7, <1>11, <2>1, OutcomeKeepsCovers
<1>12. ASSUME plan' = plan, requests[s].kind # "bulk"
       PROVE  NoTwoCover(plan') /\ \A t \in Slots : Knows(requests'[t], plan')
  BY <1>6, <1>7, <1>12
<1>13. CASE Calculate(s) \/ ReplaceItems(s)
  <2>1. requests[s].kind # "bulk"
    BY <1>1, <1>13, RequestForms DEF Calculate, ReplaceItems, Calculating, Replacing
  <2> QED BY <1>12, <1>13, <2>1 DEF Calculate, ReplaceItems
<1>14. CASE OutcomeRead(s) \/ RefineSave(s) \/ InformRead(s) \/ InformSave(s) \/ CreateRun(s)
            \/ PostRead(s) \/ PostReadyItems(s)
  BY <1>12, <1>14 DEF OutcomeRead, RefineSave, InformRead, InformSave, CreateRun, PostRead,
     PostReadyItems, At
<1>15. CASE Breaks(s)
  BY <1>9, <1>15 DEF Breaks
<1> QED BY <1>8, <1>9, <1>10, <1>11, <1>13, <1>14, <1>15 DEF Serve

\* What is sent is sent where nothing was, from the page or from elsewhere; only
\* another operator's page makes the page unsure by that.
LEMMA RequestsSent ==
    ASSUME NEW s \in Slots, Requests(s)
    PROVE  \E q : /\ Send(s, q) /\ q.step \in {"sent", "calculate"}
                  /\ q.kind = "bulk" => q.by = "page" /\ ~Pending("bulk")
                  /\ q.by = "elsewhere" => unsure' = TRUE
                  /\ unsure' = unsure \/ unsure' = TRUE
                  /\ UNCHANGED <<tab, seen, fetch, overwritten>>
<1> DEFINE Begins(q) == /\ Send(s, q) /\ q.step \in {"sent", "calculate"}
                        /\ q.kind = "bulk" => q.by = "page" /\ ~Pending("bulk")
                        /\ q.by = "elsewhere" => unsure' = TRUE
                        /\ unsure' = unsure \/ unsure' = TRUE
                        /\ UNCHANGED <<tab, seen, fetch, overwritten>>
<1>1. ASSUME NEW what, NEW q, q.step \in {"sent", "calculate"}, FromPage(s, what, q),
             q.by = "page", q.kind = "bulk" => ~Pending("bulk")
      PROVE  \E p : Begins(p)
  BY <1>1 DEF FromPage
<1>2. ASSUME NEW q, q.step \in {"sent", "calculate"}, Send(s, q), q.kind # "bulk",
             unsure' = TRUE, UNCHANGED <<tab, seen, fetch, overwritten>>
      PROVE  \E p : Begins(p)
  BY <1>2
<1> SUFFICES \E p : Begins(p)
  OBVIOUS
<1> HIDE DEF Begins
<1>3. CASE SavePlan(s)
  <2>1. ~Pending("bulk")
    BY <1>3 DEF SavePlan, CanSave, Editable
  <2> QED BY <1>1, <1>3, <2>1 DEF SavePlan
<1>4. CASE Inform(s) \/ Create(s)
  BY <1>1, <1>4 DEF Inform, Create
<1>5. CASE Elsewhere(s)
  <2>1. unsure' = TRUE /\ UNCHANGED <<tab, seen, fetch, overwritten>>
    BY <1>5 DEF Elsewhere
  <2>2. CASE Send(s, [kind |-> "create", by |-> "elsewhere", step |-> "sent"])
    BY <1>2, <2>1, <2>2
  <2>3. ASSUME NEW r, Send(s, [kind |-> "calculate", by |-> "elsewhere",
                               step |-> "calculate", run |-> r])
        PROVE  \E p : Begins(p)
    BY <1>2, <2>1, <2>3
  <2>4. ASSUME NEW r, Send(s, [kind |-> "post", by |-> "elsewhere", step |-> "sent", run |-> r])
        PROVE  \E p : Begins(p)
    BY <1>2, <2>1, <2>4
  <2> QED BY <1>5, <2>2, <2>3, <2>4 DEF Elsewhere
<1>6. ASSUME NEW c, RefineForFuture(s, c)
      PROVE  \E p : Begins(p)
  BY <1>1, <1>6 DEF RefineForFuture
<1>7. ASSUME NEW c, NEW o, MarkOutcome(s, c, o)
      PROVE  \E p : Begins(p)
  BY <1>1, <1>7 DEF MarkOutcome
<1>8. ASSUME NEW r, Recalculate(s, r) \/ Post(s, r)
      PROVE  \E p : Begins(p)
  BY <1>1, <1>8 DEF Recalculate, Post
<1> QED BY <1>3, <1>4, <1>5, <1>6, <1>7, <1>8 DEF Requests

\* Leaving a tab changes only who waits for a request, and for which row.
LEMMA ForgottenKeeps ==
    ASSUME NEW q \in RequestTypes
    PROVE  /\ Forgotten(q).kind = q.kind /\ (q # Free => Forgotten(q) # Free)
           /\ Forgotten(q).by = "elsewhere" <=> q.by = "elsewhere"
           /\ q.kind = "bulk" => Forgotten(q) = q
<1>1. CASE q.kind = "refine"
  <2>1. q \in Refining \/ q \in Ended
    BY <1>1 DEF RequestTypes, Free, BulkSent, BulkSaving, OutcomeSent, OutcomeSaving,
       Informings, Creating, Calculating, Replacing, PostSent, PostPosting
  <2>2. /\ [q EXCEPT !.of = NoOne].kind = q.kind /\ [q EXCEPT !.of = NoOne].by = q.by
    BY <2>1 DEF Refining, Ended
  <2> QED BY <1>1, <2>2 DEF Forgotten, AccrualRequests, Free
<1>2. CASE q.kind \in AccrualRequests /\ q.by = "page"
  <2>1. [q EXCEPT !.by = "tabLeft"].kind = q.kind /\ [q EXCEPT !.by = "tabLeft"].by = "tabLeft"
    BY <1>2 DEF RequestTypes, Free, BulkSent, BulkSaving, OutcomeSent, OutcomeSaving, Refining,
       Informings, Creating, Calculating, Replacing, PostSent, PostPosting, Ended
  <2> QED BY <1>2, <2>1 DEF Forgotten, AccrualRequests, Free
<1>3. CASE q.kind # "refine" /\ ~(q.kind \in AccrualRequests /\ q.by = "page")
  BY <1>3 DEF Forgotten
<1> QED BY <1>1, <1>2, <1>3

LEMMA CoveringStep == Types /\ Covering /\ [Next]_vars => Covering'
<1> SUFFICES ASSUME Types, Covering, [Next]_vars PROVE Covering'
  OBVIOUS
<1>1. requests \in [Slots -> RequestTypes] /\ overwritten \in BOOLEAN
  BY DEF Types, RequestsTyped, PageTypes
<1>2. CASE UNCHANGED <<plan, requests, overwritten>>
  BY <1>2 DEF Covering, SavesAlone
<1>3. ASSUME NEW s \in Slots, NEW q, Becomes(s, q), q.step # "saving",
             q.kind = "bulk" => q.by = "page" /\ \A t \in Slots \ {s} : requests[t].kind # "bulk",
             UNCHANGED <<plan, overwritten>>
      PROVE  Covering'
  <2>1. \A t \in Slots : requests'[t] = IF t = s THEN q ELSE requests[t]
    BY <1>1, <1>3 DEF Becomes
  <2>2. SavesAlone(requests')
    BY <1>3, <2>1 DEF Covering, SavesAlone
  <2>3. Knows(q, plan)
    BY <1>3 DEF Knows
  <2> QED BY <1>3, <2>1, <2>2, <2>3 DEF Covering
<1>4. ASSUME NEW s \in Slots, Requests(s)
      PROVE  Covering'
  <2>1. PICK q : /\ Send(s, q) /\ q.step \in {"sent", "calculate"}
                 /\ q.kind = "bulk" => q.by = "page" /\ ~Pending("bulk")
                 /\ UNCHANGED overwritten
    BY <1>4, RequestsSent
  <2>2. ~Pending("bulk") => \A t \in Slots : requests[t].kind # "bulk"
    BY DEF Pending, Covering, SavesAlone
  <2> QED BY <1>3, <2>1, <2>2 DEF Send
<1>5. ASSUME NEW s \in Slots, Receive(s)
      PROVE  Covering'
  <2>1. Becomes(s, Free) /\ UNCHANGED <<plan, overwritten>>
    BY <1>5 DEF Receive
  <2> QED BY <1>3, <2>1 DEF Free
<1>6. ASSUME NEW s \in Slots, Work(s) \/ Fault(s)
      PROVE  Covering'
  <2>1. CASE Work(s)
    <3>1. overwritten' = (overwritten \/ Overwrites(s)) /\ Serve(s)
      BY <2>1 DEF Work
    <3>2. (overwritten => overwritten') /\ (Overwrites(s) => overwritten')
      BY <3>1
    <3> QED BY <3>1, <3>2, ServeCovering
  <2>2. CASE Fault(s)
    <3>1. overwritten' = overwritten /\ Breaks(s)
      BY <2>2 DEF Fault
    <3>2. ~Overwrites(s)
      BY <3>1 DEF Breaks, Overwrites, At
    <3>3. overwritten => overwritten'
      BY <3>1
    <3> QED BY <3>1, <3>2, <3>3, ServeCovering
  <2> QED BY <1>6, <2>1, <2>2
<1>7. ASSUME NEW t \in Tabs, OpenTab(t)
      PROVE  Covering'
  <2>1. requests' = requests \/ requests' = [s \in Slots |-> Forgotten(requests[s])]
    BY <1>7 DEF OpenTab
  <2>2. \A s \in Slots : /\ requests'[s].kind = requests[s].kind
                         /\ requests[s].kind = "bulk" => requests'[s] = requests[s]
    BY <1>1, <2>1, ForgottenKeeps
  <2>3. SavesAlone(requests')
    BY <2>2 DEF Covering, SavesAlone
  <2>4. \A s \in Slots : Knows(requests[s], plan) => Knows(requests'[s], plan)
    BY <2>2 DEF Knows
  <2> QED BY <1>7, <2>3, <2>4 DEF OpenTab, Covering
<1>8. CASE User
  <2>1. ASSUME NEW form, Edit(form)
        PROVE  Covering'
    BY <1>2, <2>1 DEF Edit, serverVars
  <2> QED BY <1>7, <1>8, <2>1 DEF User, Select, SetAway, Refine, Uncover, Cover
<1>9. ASSUME NEW q \in Queries, FetchRead(q) \/ FetchDelivered(q)
      PROVE  Covering'
  BY <1>2, <1>9 DEF FetchRead, FetchDelivered, serverVars
<1>10. CASE Produce
  BY <1>2, <1>10 DEF Produce, RecordProduction, pageVars
<1>11. CASE UNCHANGED vars
  BY <1>2, <1>11 DEF vars, serverVars, pageVars
<1> QED BY <1>4, <1>5, <1>6, <1>8, <1>9, <1>10, <1>11 DEF Next

LEMMA CoveringInit == Init => Covering
<1> SUFFICES ASSUME Init PROVE Covering
  OBVIOUS
<1>1. \A s \in Slots : requests[s] = Free
  BY DEF Init
<1>2. NoTwoCover(plan)
  <2>1. PICK scenario \in Scenarios : plan = scenario.plan
    BY DEF Init
  <2> QED BY <2>1, PlanningAssumption DEF NoTwoCover
<1> QED BY <1>1, <1>2 DEF Covering, SavesAlone, Knows, Free

\* No two assignments replace the same Collaborator, however saves of the plan
\* interleave with outcomes and break off: the check of BulkPlan against a plan it
\* read earlier is enough, because the page sends one save at a time.
THEOREM ReplacedOnce == Spec => []OneReplacementPerTarget
<1>1. Covering => OneReplacementPerTarget
  BY DEF Covering, NoTwoCover, OneReplacementPerTarget
<1> QED BY <1>1, CoveringInit, CoveringStep, AlwaysTyped, PTL DEF Spec

(***************************************************************************)
(* What the page shows.  A query that is active shows what the server      *)
(* holds, or it is about to: it is being fetched and has still to be read, *)
(* what was read for it is still so, or a request is under way whose       *)
(* answer has it fetched again.  A handler changes only what the answer to *)
(* its request has fetched again, except where an outcome overwrites.      *)
(***************************************************************************)
AnswerDue(q) ==
    \E s \in Slots : /\ requests[s] # Free /\ requests[s].by # "elsewhere"
                     /\ q \in Invalidated(requests[s].kind)

UpToDate(q) ==
    \/ unsure \/ overwritten
    \/ AnswerDue(q)
    \/ fetch[q] = Sent
    \/ fetch[q] = [state |-> "read", data |-> Current(q)]
    \/ fetch[q] = Idle /\ seen[q] = Current(q)

Showing ==
    /\ \A s \in Slots : requests[s].by = "elsewhere" => unsure
    /\ \A q \in Queries : Active(q) => UpToDate(q)

LEMMA CurrentSame ==
    ASSUME NEW q \in Queries,
           q \in {"template", "assignments"} => plan' = plan,
           q = "detail" => period' = period,
           q = "runs" => UNCHANGED <<runs, items>>
    PROVE  Current(q)' = Current(q)
<1>1. plan' = plan => Template(plan)' = Template(plan)
  BY DEF Template
<1>2. UNCHANGED <<runs, items>> => RunList' = RunList
  BY DEF RunList, ItemsOf
<1> QED BY <1>1, <1>2 DEF Current, Queries

\* A handler changes only what the answer has fetched again.
LEMMA ServeChanges ==
    ASSUME Types, NEW s \in Slots, Serve(s) \/ Breaks(s), ~Overwrites(s),
           NEW q \in Queries, q \notin Invalidated(requests[s].kind)
    PROVE  Current(q)' = Current(q)
<1> DEFINE kind == requests[s].kind
<1>1. requests[s] \in RequestTypes /\ plan \in Plans
  BY DEF Types, RequestsTyped, ServerTypes
<1>2. CASE Breaks(s) \/ BulkRead(s) \/ OutcomeRead(s) \/ RefineSave(s) \/ InformRead(s)
           \/ Calculate(s) \/ PostRead(s)
  BY <1>2, CurrentSame DEF Breaks, BulkRead, OutcomeRead, RefineSave, InformRead, Calculate, PostRead
<1>3. CASE BulkSave(s) \/ BulkCover(s)
  <2>1. q \notin {"template", "assignments"} /\ UNCHANGED <<period, runs, items>>
    BY <1>3 DEF BulkSave, BulkCover, At, Invalidated
  <2> QED BY <2>1, CurrentSame
<1>4. CASE OutcomeSave(s)
  <2>1. q # "assignments" /\ UNCHANGED <<period, runs, items>>
    BY <1>4 DEF OutcomeSave, At, Invalidated
  <2>2. CASE q = "template"
    <3>1. Template(plan)' = Template(plan)
      BY <1>4, OutcomeKeepsCovers DEF Template
    <3> QED BY <2>2, <3>1 DEF Current
  <2> QED BY <2>1, <2>2, CurrentSame DEF Queries
<1>5. CASE InformSave(s)
  BY <1>5 DEF InformSave, At, Invalidated
<1>6. CASE CreateRun(s)
  <2>1. q \notin {"runs", "detail"} /\ UNCHANGED plan
    BY <1>6 DEF CreateRun, At, Invalidated
  <2> QED BY <2>1, CurrentSame
<1>7. CASE ReplaceItems(s)
  <2>1. requests[s] \in Replacing /\ UNCHANGED plan
    BY <1>1, <1>7, RequestForms DEF ReplaceItems
  <2>2. q \notin {"runs", "detail"}
    BY <2>1 DEF Replacing, Invalidated
  <2> QED BY <2>1, <2>2, CurrentSame
<1>8. CASE PostReadyItems(s)
  <2>1. q \notin {"runs", "detail"} /\ UNCHANGED plan
    BY <1>8 DEF PostReadyItems, At, Invalidated
  <2> QED BY <2>1, CurrentSame
<1> QED BY <1>2, <1>3, <1>4, <1>5, <1>6, <1>7, <1>8 DEF Serve

LEMMA ServeShowing ==
    ASSUME Types, Showing, NEW s \in Slots, Work(s) \/ Fault(s)
    PROVE  Showing'
<1>1. /\ Serve(s) \/ Breaks(s)
      /\ UNCHANGED <<tab, rows, seen, fetch, unsure>>
      /\ overwritten => overwritten'
      /\ Overwrites(s) => overwritten'
  <2>1. CASE Work(s)
    BY <2>1 DEF Work
  <2>2. CASE Fault(s)
    <3>1. ~Overwrites(s)
      BY <2>2 DEF Fault, Breaks, Overwrites, At
    <3> QED BY <2>2, <3>1 DEF Fault
  <2> QED BY <2>1, <2>2
<1>2. /\ \A t \in Slots \ {s} : requests'[t] = requests[t]
      /\ requests'[s].kind = requests[s].kind /\ requests'[s].by = requests[s].by
      /\ requests[s] # Free /\ requests'[s] # Free
  BY <1>1, ServeKeepsKind DEF Types
<1>3. \A t \in Slots : requests'[t].by = "elsewhere" => unsure'
  BY <1>1, <1>2 DEF Showing
<1>4. ASSUME NEW q \in Queries, Active(q)' PROVE UpToDate(q)'
  <2>1. UpToDate(q)
    BY <1>1, <1>4 DEF Active, Showing
  <2>2. CASE unsure \/ overwritten \/ Overwrites(s)
    BY <1>1, <2>2 DEF UpToDate
  <2>3. CASE AnswerDue(q)
    <3>1. AnswerDue(q)'
      BY <1>2, <2>3 DEF AnswerDue
    <3> QED BY <3>1 DEF UpToDate
  <2>4. CASE q \in Invalidated(requests[s].kind)
    <3>1. CASE requests[s].by = "elsewhere"
      BY <1>2, <1>3, <3>1 DEF UpToDate
    <3>2. CASE requests[s].by # "elsewhere"
      <4>1. AnswerDue(q)'
        BY <1>2, <2>4, <3>2 DEF AnswerDue
      <4> QED BY <4>1 DEF UpToDate
    <3> QED BY <3>1, <3>2
  <2>5. CASE q \notin Invalidated(requests[s].kind) /\ ~Overwrites(s) /\ ~AnswerDue(q)
             /\ ~unsure /\ ~overwritten
    <3>1. Current(q)' = Current(q)
      BY <1>1, <2>5, ServeChanges
    <3> QED BY <1>1, <2>1, <2>5, <3>1 DEF UpToDate
  <2> QED BY <2>2, <2>3, <2>4, <2>5
<1> QED BY <1>3, <1>4 DEF Showing

\* The server's state stays, and so does what the queries answer.
LEMMA CurrentStill ==
    ASSUME UNCHANGED <<period, plan, runs, items>>, NEW q \in Queries
    PROVE  Current(q)' = Current(q)
BY CurrentSame

LEMMA RequestsShowing ==
    ASSUME Types, Showing, NEW s \in Slots, Requests(s)
    PROVE  Showing'
<1>1. PICK r : /\ Send(s, r)
               /\ r.by = "elsewhere" => unsure' = TRUE
               /\ unsure' = unsure \/ unsure' = TRUE
               /\ UNCHANGED <<tab, seen, fetch, overwritten>>
  BY RequestsSent
<1>2. requests[s] = Free /\ \A t \in Slots : requests'[t] = IF t = s THEN r ELSE requests[t]
  BY <1>1 DEF Send, Becomes, Types, RequestsTyped
<1>3. \A t \in Slots : requests'[t].by = "elsewhere" => unsure'
  BY <1>1, <1>2 DEF Showing
<1>4. ASSUME NEW q \in Queries, Active(q)' PROVE UpToDate(q)'
  <2>1. UpToDate(q) /\ Current(q)' = Current(q)
    BY <1>1, <1>4, CurrentStill DEF Active, Showing, Send
  <2>2. CASE AnswerDue(q)
    <3>1. AnswerDue(q)'
      BY <1>2, <2>2 DEF AnswerDue
    <3> QED BY <3>1 DEF UpToDate
  <2> QED BY <1>1, <2>1, <2>2 DEF UpToDate
<1> QED BY <1>3, <1>4 DEF Showing

LEMMA ReceiveShowing ==
    ASSUME Types, Showing, NEW s \in Slots, Receive(s)
    PROVE  Showing'
<1> DEFINE now == requests[s]
<1>1. \A t \in Slots : requests'[t] = IF t = s THEN Free ELSE requests[t]
  BY DEF Receive, Becomes, Types, RequestsTyped
<1>2. /\ UNCHANGED <<period, plan, runs, items, tab, overwritten>>
      /\ unsure' = (unsure \/ now.step = "failed") /\ now.step \in {"done", "failed"}
      /\ now # Free
  BY DEF Receive
<1>3. \A t \in Slots : requests'[t].by = "elsewhere" => unsure'
  <2>1. unsure => unsure'
    BY <1>2
  <2>2. \A t \in Slots : requests[t].by = "elsewhere" => unsure
    BY DEF Showing
  <2>3. Free.by # "elsewhere"
    BY DEF Free
  <2> QED BY <1>1, <2>1, <2>2, <2>3
<1>4. ASSUME NEW q \in Queries, Active(q)' PROVE UpToDate(q)'
  <2>1. UpToDate(q) /\ Active(q) /\ Current(q)' = Current(q)
    BY <1>2, <1>4, CurrentStill DEF Active, Showing
  <2>2. CASE unsure \/ overwritten \/ now.step = "failed" \/ now.by = "elsewhere"
    BY <1>2, <2>2 DEF UpToDate, Showing
  <2>3. CASE now.step = "done" /\ now.by # "elsewhere" /\ ~unsure /\ ~overwritten
    <3>1. /\ Invalidate(Invalidated(now.kind))
          /\ seen' = IF now.kind = "inform" THEN [seen EXCEPT !.detail = "INFORMED"] ELSE seen
      BY <2>3 DEF Receive
    <3>2. CASE q \in Invalidated(now.kind)
      <4>1. fetch'[q] = Sent
        BY <2>1, <3>1, <3>2 DEF Invalidate
      <4> QED BY <4>1 DEF UpToDate
    <3>3. CASE q \notin Invalidated(now.kind)
      <4>1. fetch'[q] = fetch[q]
        BY <3>1, <3>3 DEF Invalidate
      <4>2. seen'[q] = seen[q]
        BY <3>1, <3>3 DEF Invalidated
      <4>3. AnswerDue(q) => AnswerDue(q)'
        BY <1>1, <3>3 DEF AnswerDue
      <4> QED BY <2>1, <2>3, <4>1, <4>2, <4>3 DEF UpToDate
    <3> QED BY <3>2, <3>3
  <2> QED BY <1>2, <2>2, <2>3
<1> QED BY <1>3, <1>4 DEF Showing

LEMMA OpenTabShowing ==
    ASSUME Types, Showing, NEW t \in Tabs, OpenTab(t)
    PROVE  Showing'
<1>1. /\ UNCHANGED <<period, plan, runs, items, seen, unsure, overwritten>> /\ tab' = t
      /\ fetch' = IF t = "accrual" THEN [fetch EXCEPT !["runs"] = Sent] ELSE fetch
      /\ requests' = requests \/ requests' = [s \in Slots |-> Forgotten(requests[s])]
  BY DEF OpenTab
<1>2. \A s \in Slots : /\ requests'[s].kind = requests[s].kind
                       /\ requests[s] # Free => requests'[s] # Free
                       /\ requests'[s].by = "elsewhere" <=> requests[s].by = "elsewhere"
  BY <1>1, ForgottenKeeps DEF Types, RequestsTyped
<1>3. \A s \in Slots : requests'[s].by = "elsewhere" => unsure'
  BY <1>1, <1>2 DEF Showing
<1>4. ASSUME NEW q \in Queries, Active(q)' PROVE UpToDate(q)'
  <2>1. CASE q = "runs"
    <3>1. fetch'[q] = Sent
      BY <1>1, <1>4, <2>1 DEF Active, Types, PageTypes
    <3> QED BY <3>1 DEF UpToDate
  <2>2. CASE q # "runs"
    <3>1. UpToDate(q) /\ Current(q)' = Current(q) /\ fetch'[q] = fetch[q]
      BY <1>1, <2>2, CurrentStill DEF Active, Showing, Types, PageTypes
    <3>2. AnswerDue(q) => AnswerDue(q)'
      BY <1>2 DEF AnswerDue
    <3> QED BY <1>1, <3>1, <3>2 DEF UpToDate
  <2> QED BY <2>1, <2>2
<1> QED BY <1>3, <1>4 DEF Showing

LEMMA FetchShowing ==
    ASSUME Types, Showing, NEW p \in Queries, FetchRead(p) \/ FetchDelivered(p)
    PROVE  Showing'
<1>1. UNCHANGED <<serverVars, tab, unsure, overwritten>>
  BY DEF FetchRead, FetchDelivered
<1>2. \A q \in Queries : Current(q)' = Current(q) /\ (AnswerDue(q) <=> AnswerDue(q)')
  <2>1. \A q \in Queries : Current(q)' = Current(q)
    BY <1>1, CurrentStill DEF serverVars
  <2>2. \A q \in Queries : AnswerDue(q) <=> AnswerDue(q)'
    BY <1>1 DEF serverVars, AnswerDue
  <2> QED BY <2>1, <2>2
<1>3. ASSUME NEW q \in Queries, Active(q)' PROVE UpToDate(q)'
  <2>1. UpToDate(q)
    BY <1>1, <1>3 DEF Active, Showing
  <2>2. CASE q # p
    <3>1. fetch'[q] = fetch[q] /\ seen'[q] = seen[q]
      BY <2>2 DEF FetchRead, FetchDelivered, Types, PageTypes
    <3> QED BY <1>1, <1>2, <2>1, <3>1 DEF UpToDate
  <2>3. CASE q = p /\ FetchRead(p)
    <3>1. fetch'[q] = [state |-> "read", data |-> Current(q)]
      BY <2>3 DEF FetchRead, Types, PageTypes
    <3> QED BY <1>2, <3>1 DEF UpToDate
  <2>4. CASE q = p /\ FetchDelivered(p)
    <3>1. /\ fetch[q].state = "read" /\ fetch'[q] = Idle /\ seen'[q] = fetch[q].data
      BY <2>4 DEF FetchDelivered, Types, PageTypes
    <3>2. fetch[q] # Sent /\ fetch[q] # Idle
      BY <3>1 DEF Sent, Idle
    <3>3. fetch[q] = [state |-> "read", data |-> Current(q)] => seen'[q] = Current(q)
      BY <3>1
    <3> QED BY <1>1, <1>2, <2>1, <3>1, <3>2, <3>3 DEF UpToDate
  <2> QED BY <2>2, <2>3, <2>4
<1>4. \A s \in Slots : requests'[s].by = "elsewhere" => unsure'
  BY <1>1 DEF serverVars, Showing
<1> QED BY <1>3, <1>4 DEF Showing

LEMMA ShowingStep == Types /\ Showing /\ [Next]_vars => Showing'
<1> SUFFICES ASSUME Types, Showing, [Next]_vars PROVE Showing'
  OBVIOUS
<1>1. CASE UNCHANGED <<period, plan, runs, items, requests, tab, seen, fetch, unsure, overwritten>>
  <2>1. \A q \in Queries : Current(q)' = Current(q)
    BY <1>1, CurrentStill
  <2> QED BY <1>1, <2>1 DEF Showing, UpToDate, AnswerDue, Active
<1>2. CASE User
  <2>1. ASSUME NEW form, Edit(form)
        PROVE  Showing'
    BY <1>1, <2>1 DEF Edit, serverVars
  <2> QED BY <1>2, <2>1, OpenTabShowing DEF User, Select, SetAway, Refine, Uncover, Cover
<1>3. CASE Produce
  BY <1>1, <1>3 DEF Produce, RecordProduction, pageVars
<1>4. CASE UNCHANGED vars
  BY <1>1, <1>4 DEF vars, serverVars, pageVars
<1> QED
  BY <1>2, <1>3, <1>4, ServeShowing, RequestsShowing, ReceiveShowing, FetchShowing DEF Next

LEMMA ShowingInit == Init => Showing
<1> SUFFICES ASSUME Init PROVE Showing
  OBVIOUS
<1>1. \A s \in Slots : requests[s] = Free
  BY DEF Init
<1>2. \A q \in Queries : fetch[q] = Idle /\ seen[q] = Current(q)
  BY DEF Init, Current, Queries
<1> QED BY <1>1, <1>2 DEF Showing, UpToDate, Free

\* Once every answer is in, no request failed and no other operator wrote, the
\* page shows what the server holds, however answers, fetches and tabs interleaved
\* (the invalidations of usePlanning and useAccruals).
THEOREM QuietShowsCurrent == Spec => []QuietIsCurrent
<1>1. Showing => QuietIsCurrent
  <2> SUFFICES ASSUME Showing, Quiet, NEW q \in Queries, Active(q)
               PROVE  seen[q] = Current(q)
    BY DEF QuietIsCurrent
  <2>1. ~unsure /\ ~overwritten /\ ~AnswerDue(q) /\ fetch[q] = Idle
    BY DEF Quiet, AnswerDue
  <2>2. Idle # Sent /\ Idle # [state |-> "read", data |-> Current(q)]
    <3>1. Idle.state = "idle" /\ Sent.state = "sent"
      BY DEF Idle, Sent
    <3>2. \A d : [state |-> "read", data |-> d].state = "read"
      OBVIOUS
    <3> QED BY <3>1, <3>2
  <2> QED BY <2>1, <2>2 DEF Showing, UpToDate
<1> QED BY <1>1, ShowingInit, ShowingStep, AlwaysTyped, PTL DEF Spec
================================================================================
