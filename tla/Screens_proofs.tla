---------------------------- MODULE Screens_proofs ----------------------------
(***************************************************************************)
(* Theorems about what every page has in common, for every catalogue of    *)
(* pages and mutations whose tables fit together, and any number of        *)
(* mutations under way.                                                    *)
(***************************************************************************)
EXTENDS Screens, TLAPS

(***************************************************************************)
(* Types, said of the records themselves.                                  *)
(***************************************************************************)
Aging   == {Old(offers) : offers \in SUBSET Mutations}
Answers == {Unanswered, Current} \cup Aging
Fetches == {Idle, Asked, Current} \cup Aging

SlotType ==
    [of : Mutations \cup {Nothing},
     stage : {"free", "sent", "refused", "done", "refreshing"},
     here : BOOLEAN, shown : BOOLEAN,
     result : Answers, waits : SUBSET Queries]

UsedSlot(x) ==
    /\ x.of \in Mutations /\ x.stage # "free"
    /\ x.waits \subseteq Does(x.of).refreshes

SlotTyped(x) == x \in SlotType /\ (x = Free \/ UsedSlot(x))

SlotsTyped(s) ==
    /\ DOMAIN s = Slots /\ s = [i \in Slots |-> s[i]]
    /\ \A i \in Slots : SlotTyped(s[i])

Types ==
    /\ area \in DOMAIN Catalog
    /\ subject \in StatusesOf[area]
    /\ page \in Pages
    /\ panel \in Mutations \cup {Nothing}
    /\ rendered \subseteq Mutations
    /\ answer \in [Queries -> Answers]
    /\ fetch \in [Queries -> Fetches]
    /\ behind \subseteq Queries
    /\ SlotsTyped(slot)

LEMMA AnswersDiffer ==
    /\ Unanswered # Current /\ Idle # Asked
    /\ Idle # Current /\ Asked # Current /\ Idle # Unanswered /\ Asked # Unanswered
    /\ \A offers : /\ Old(offers) \notin {Unanswered, Current, Idle, Asked}
                   /\ Old(offers).is = "old" /\ Old(offers).offers = offers
    /\ \A x \in {Unanswered, Current, Idle, Asked} : x.is # "old"
BY DEF Unanswered, Current, Idle, Asked, Old, Answer

LEMMA TypesImply == Types => TypeOK
<1> SUFFICES ASSUME Types PROVE TypeOK
  OBVIOUS
<1>1. \A x \in Aging : x.is = "old" /\ x.offers \subseteq Mutations
  BY AnswersDiffer DEF Aging
<1>2. \A x \in Answers : IsAnswer(x, {Unanswered})
  BY <1>1 DEF Answers, IsAnswer
<1>3. \A x \in Fetches : IsAnswer(x, {Idle, Asked})
  BY <1>1 DEF Fetches, IsAnswer
<1>4. \A i \in Slots :
           \/ slot[i] = Free
           \/ /\ slot[i].of \in Mutations
              /\ slot[i].stage \in {"sent", "refused", "done", "refreshing"}
              /\ slot[i].here \in BOOLEAN /\ slot[i].shown \in BOOLEAN
              /\ IsAnswer(slot[i].result, {Unanswered})
              /\ slot[i].waits \subseteq Does(slot[i].of).refreshes
  BY <1>2 DEF Types, SlotsTyped, SlotTyped, SlotType, UsedSlot
<1> QED BY <1>2, <1>3, <1>4 DEF Types, TypeOK

\* The tables of the area stay what they are.
LEMMA SameArea ==
    ASSUME area' = area
    PROVE  /\ Pages' = Pages /\ Mutations' = Mutations /\ Queries' = Queries
           /\ Slots' = Slots /\ Aging' = Aging
           /\ Answers' = Answers /\ Fetches' = Fetches /\ SlotType' = SlotType
           /\ \A p : On(p)' = On(p)
           /\ \A m : Does(m)' = Does(m)
           /\ \A x : SlotTyped(x)' = SlotTyped(x)
           /\ \A s : SlotsTyped(s)' = SlotsTyped(s)
BY DEF Pages, Mutations, Queries, Slots, Aging, Answers, Fetches, SlotType, On, Does,
   SlotTyped, UsedSlot, SlotsTyped

LEMMA Tables ==
    ASSUME Types
    PROVE  /\ Nothing \notin Mutations
           /\ \A m \in Mutations :
                /\ Does(m).goesTo \in Pages \cup {Nothing}
                /\ Does(m).reveals \subseteq Mutations
                /\ Does(m).cancels \subseteq Queries
                /\ Does(m).once # {} => ~Does(m).forgets
                /\ \A n \in Does(m).once \cap Mutations : m \in Does(n).once
                /\ \A s \in DOMAIN Does(m).becomes : Does(m).becomes[s] \in StatusesOf[area]
           /\ \A p \in Pages : On(p).shows \subseteq Queries
<1> DEFINE c == Catalog[area]
<1>1. area \in DOMAIN Catalog
  BY DEF Types
<1>2. /\ Nothing \notin Mutations
      /\ \A m \in Mutations :
            /\ Does(m).goesTo \in Pages \cup {Nothing}
            /\ Does(m).reveals \subseteq Mutations
            /\ Does(m).cancels \subseteq Queries
            /\ Does(m).once # {} => ~Does(m).forgets
            /\ \A n \in Does(m).once \cap Mutations : m \in Does(n).once
  BY <1>1, CatalogAssumption DEF CatalogAssumption, Pages, Mutations, Does, Queries
<1>3. \A p \in Pages : On(p).shows \subseteq Queries
  BY <1>1 DEF Pages, On, Queries, QueriesOf
<1>4. StatusesOf[area] =
        {f.status : f \in c.first} \cup
        UNION {LET b == c.mutations[m].becomes IN  DOMAIN b \cup {b[s] : s \in DOMAIN b} :
                   m \in DOMAIN c.mutations}
  BY <1>1 DEF StatusesOf
<1>5. \A m \in Mutations : \A s \in DOMAIN Does(m).becomes :
        Does(m).becomes[s] \in StatusesOf[area]
  <2> SUFFICES ASSUME NEW m \in DOMAIN c.mutations,
                      NEW s \in DOMAIN c.mutations[m].becomes
               PROVE  c.mutations[m].becomes[s] \in StatusesOf[area]
    BY DEF Mutations, Does
  <2> DEFINE Of(n) == LET b == c.mutations[n].becomes IN DOMAIN b \cup {b[x] : x \in DOMAIN b}
  <2>1. c.mutations[m].becomes[s] \in Of(m)
    OBVIOUS
  <2>2. UNION {Of(n) : n \in DOMAIN c.mutations} \subseteq StatusesOf[area]
    BY <1>4
  <2> HIDE DEF Of
  <2> QED BY <2>1, <2>2
<1> QED BY <1>2, <1>3, <1>5

\* The states an area begins with.
LEMMA FirstTyped ==
    ASSUME area \in DOMAIN Catalog, NEW f \in Catalog[area].first
    PROVE  f.page \in Pages /\ f.status \in StatusesOf[area]
BY CatalogAssumption DEF CatalogAssumption, Pages, StatusesOf

-----------------------------------------------------------------------------
(* Slots. *)

LEMMA FreeTyped == SlotTyped(Free)
BY AnswersDiffer DEF SlotTyped, SlotType, Free, Answers

LEMMA SlotEdited ==
    ASSUME NEW x, SlotTyped(x)
    PROVE  /\ \A qs : SlotTyped([x EXCEPT !.waits = @ \ qs])
           /\ SlotTyped([x EXCEPT !.shown = FALSE])
           /\ SlotTyped([x EXCEPT !.here = FALSE, !.shown = FALSE])
           /\ UsedSlot(x) => /\ \A a \in Answers : SlotTyped([x EXCEPT !.result = a])
                             /\ \A a \in Answers :
                                  SlotTyped([x EXCEPT !.stage = "done", !.result = a])
                             /\ SlotTyped([x EXCEPT !.stage = "refused"])
                             /\ \A w \in SUBSET (Queries \cap Does(x.of).refreshes) :
                                  SlotTyped([x EXCEPT !.stage = "refreshing", !.waits = w])
<1>1. \A qs : SlotTyped([x EXCEPT !.waits = @ \ qs])
  <2> TAKE qs
  <2>1. CASE x = Free
    <3>1. Free.waits \ qs = {}
      BY DEF Free
    <3>2. x.waits \ qs = Free.waits
      BY <2>1, <3>1 DEF Free
    <3>3. [x EXCEPT !.waits = @ \ qs] = Free
      BY <2>1, <3>2, FreeTyped DEF SlotTyped, SlotType
    <3> QED BY <3>3, FreeTyped
  <2>2. CASE x # Free
    BY <2>2 DEF SlotTyped, SlotType, UsedSlot
  <2> QED BY <2>1, <2>2
<1>2. SlotTyped([x EXCEPT !.shown = FALSE])
  <2>1. CASE x = Free
    <3>1. [x EXCEPT !.shown = FALSE] = Free
      BY <2>1, FreeTyped DEF SlotTyped, SlotType, Free
    <3> QED BY <3>1, FreeTyped
  <2>2. CASE x # Free
    BY <2>2 DEF SlotTyped, SlotType, UsedSlot
  <2> QED BY <2>1, <2>2
<1>3. SlotTyped([x EXCEPT !.here = FALSE, !.shown = FALSE])
  <2>1. CASE x = Free
    <3>1. [x EXCEPT !.here = FALSE, !.shown = FALSE] = Free
      BY <2>1, FreeTyped DEF SlotTyped, SlotType, Free
    <3> QED BY <3>1, FreeTyped
  <2>2. CASE x # Free
    BY <2>2 DEF SlotTyped, SlotType, UsedSlot
  <2> QED BY <2>1, <2>2
<1>4. ASSUME UsedSlot(x)
      PROVE  /\ \A a \in Answers : SlotTyped([x EXCEPT !.result = a])
             /\ \A a \in Answers : SlotTyped([x EXCEPT !.stage = "done", !.result = a])
             /\ SlotTyped([x EXCEPT !.stage = "refused"])
             /\ \A w \in SUBSET (Queries \cap Does(x.of).refreshes) :
                    SlotTyped([x EXCEPT !.stage = "refreshing", !.waits = w])
  BY <1>4 DEF SlotTyped, SlotType, UsedSlot
<1> QED BY <1>1, <1>2, <1>3, <1>4

LEMMA SlotsEdited ==
    ASSUME NEW s, SlotsTyped(s)
    PROVE  /\ SlotsTyped([i \in Slots |-> [s[i] EXCEPT !.here = FALSE, !.shown = FALSE]])
           /\ \A i \in Slots : \A x : SlotTyped(x) => SlotsTyped([s EXCEPT ![i] = x])
BY SlotEdited DEF SlotsTyped

LEMMA ReleasedTyped ==
    ASSUME Types
    PROVE  \A qs : SlotsTyped(Released(qs))
BY SlotEdited DEF Types, SlotsTyped, Released

LEMMA PendingTyped ==
    ASSUME NEW s, SlotsTyped(s)
    PROVE  PendingIn(s) \subseteq Mutations
<1>1. Free.shown = FALSE
  BY DEF Free
<1> QED BY <1>1 DEF SlotsTyped, SlotTyped, UsedSlot, PendingIn

LEMMA InvalidatedTyped ==
    ASSUME Types
    PROVE  \A qs : Invalidated(qs) \in [Queries -> Fetches]
BY DEF Types, Invalidated, Fetches

LEMMA BeforeTyped == \A q : Before(q) \in Aging
BY DEF Before, Aging

LEMMA AgedTyped ==
    ASSUME Types
    PROVE  /\ \A qs : Aged(answer, qs) \in [Queries -> Answers]
           /\ \A qs : Aged(fetch, qs) \in [Queries -> Fetches]
BY BeforeTyped DEF Types, Aged, Answers, Fetches

LEMMA ResultTyped == \A m : Result(m) \in Answers
BY BeforeTyped DEF Result, Answers, Aging

-----------------------------------------------------------------------------
(* Every step keeps the types. *)

LEMMA TypesFrom ==
    ASSUME Types, area' = area,
           subject' \in StatusesOf[area], page' \in Pages,
           panel' \in Mutations \cup {Nothing}, rendered' \subseteq Mutations,
           answer' \in [Queries -> Answers], fetch' \in [Queries -> Fetches],
           behind' \subseteq Queries, SlotsTyped(slot')
    PROVE  Types'
<1>1. area' \in DOMAIN Catalog /\ StatusesOf[area'] = StatusesOf[area]
  BY DEF Types
<1>2. /\ Pages' = Pages /\ Mutations' = Mutations /\ Queries' = Queries
      /\ Answers' = Answers /\ Fetches' = Fetches
      /\ SlotsTyped(slot)'
  <2>1. /\ Pages' = Pages /\ Mutations' = Mutations /\ Queries' = Queries
        /\ Answers' = Answers /\ Fetches' = Fetches
        /\ Slots' = Slots /\ SlotType' = SlotType
        /\ \A m : Does(m)' = Does(m)
    BY SameArea
  <2>2. \A i \in Slots : SlotTyped(slot[i])'
    BY <2>1 DEF SlotsTyped, SlotTyped, UsedSlot
  <2> QED BY <2>1, <2>2 DEF SlotsTyped
<1> QED BY <1>1, <1>2 DEF Types

LEMMA TypesInit == Init => Types
<1> SUFFICES ASSUME Init PROVE Types
  OBVIOUS
<1>1. PICK f \in Catalog[area].first : subject = f.status /\ page = f.page
  BY DEF Init
<1>2. area \in DOMAIN Catalog /\ subject \in StatusesOf[area] /\ page \in Pages
  BY <1>1, FirstTyped DEF Init
<1>3. /\ answer \in [Queries -> Answers] /\ fetch \in [Queries -> Fetches]
      /\ behind \subseteq Queries /\ rendered \subseteq Mutations
      /\ panel \in Mutations \cup {Nothing}
  BY DEF Init, Answers, Fetches
<1>4. SlotsTyped(slot)
  BY FreeTyped DEF Init, SlotsTyped
<1> QED BY <1>2, <1>3, <1>4 DEF Types

LEMMA MountTyped ==
    ASSUME Types, NEW p \in Pages, NEW f \in [Queries -> Fetches], NEW s, SlotsTyped(s),
           Mount(p, f, s)
    PROVE  /\ page' \in Pages /\ panel' \in Mutations \cup {Nothing}
           /\ rendered' \subseteq Mutations /\ fetch' \in [Queries -> Fetches]
           /\ SlotsTyped(slot')
<1>1. SlotsTyped([i \in Slots |-> [s[i] EXCEPT !.here = FALSE, !.shown = FALSE]])
  BY SlotsEdited
<1>2. fetch' \in [Queries -> Fetches]
  BY DEF Mount, Fetches
<1> QED BY <1>1, <1>2 DEF Mount

LEMMA SucceedTyped ==
    ASSUME Types, NEW i \in Slots, slot[i] # Free, NEW f \in [Queries -> Fetches],
           NEW s, SlotsTyped(s), Succeed(i, f, s)
    PROVE  /\ page' \in Pages /\ panel' \in Mutations \cup {Nothing}
           /\ rendered' \subseteq Mutations /\ fetch' \in [Queries -> Fetches]
           /\ SlotsTyped(slot')
<1>1. SlotsTyped([s EXCEPT ![i] = Free])
  BY FreeTyped, SlotsEdited
<1>2. slot[i].of \in Mutations
  BY DEF Types, SlotsTyped, SlotTyped, UsedSlot
<1>3. CASE Moves(i)
  <2>1. Does(slot[i].of).goesTo \in Pages
    BY <1>2, <1>3, Tables DEF Moves
  <2> QED BY <1>1, <1>3, <2>1, MountTyped DEF Succeed
<1>4. CASE ~Moves(i)
  BY <1>1, <1>4 DEF Succeed, Types
<1> QED BY <1>3, <1>4

LEMMA BusyTyped ==
    ASSUME Types, NEW i \in Slots
    PROVE  /\ SlotTyped(slot[i]) /\ slot[i] \in SlotType
           /\ slot[i] # Free \/ slot[i].stage # "free" \/ Busy(i) =>
                UsedSlot(slot[i]) /\ slot[i].of \in Mutations
           /\ Busy(i) <=> slot[i] # Free
           /\ Free.of = Nothing /\ Free.stage = "free"
BY Tables DEF Types, SlotsTyped, SlotTyped, UsedSlot, Free, Busy

\* Fetches.
LEMMA FetchTypes ==
    ASSUME Types, Focus \/ \E q \in Queries : FetchSettles(q)
    PROVE  Types'
<1>1. CASE Focus
  <2>1. \A qs : Joined(qs) \in [Queries -> Fetches]
    BY DEF Joined, Types, Fetches
  <2> QED BY <1>1, <2>1, TypesFrom DEF Focus, Types
<1>2. ASSUME NEW q \in Queries, ServerReads(q) PROVE Types'
  <2>1. fetch' \in [Queries -> Fetches]
    BY <1>2 DEF ServerReads, Types, Fetches
  <2> QED BY <1>2, <2>1, TypesFrom DEF ServerReads, Types
<1>3. ASSUME NEW q \in Queries, Arrives(q) PROVE Types'
  <2>1. fetch' \in [Queries -> Fetches]
    BY <1>3 DEF Arrives, Types, Fetches
  <2>2. answer' \in [Queries -> Answers]
    BY <1>3 DEF Arrives, Types, Fetches, Answers
  <2>3. SlotsTyped(slot') /\ behind' \subseteq Queries
    BY <1>3, ReleasedTyped DEF Arrives, Types
  <2> QED BY <1>3, <2>1, <2>2, <2>3, TypesFrom DEF Arrives, Types
<1>4. ASSUME NEW q \in Queries, Fails(q) PROVE Types'
  <2>1. fetch' \in [Queries -> Fetches]
    BY <1>4 DEF Fails, Types, Fetches
  <2>2. SlotsTyped(slot') /\ behind' \subseteq Queries
    BY <1>4, ReleasedTyped DEF Fails, GivenUp, Types
  <2> QED BY <1>4, <2>1, <2>2, TypesFrom DEF Fails, Types
<1> QED BY <1>1, <1>2, <1>3, <1>4 DEF FetchSettles

\* What the user does, and rendering.
LEMMA UserTypes ==
    ASSUME Types, Render \/ UserActs
    PROVE  Types'
<1>1. CASE Render
  <2>1. Pending \subseteq Mutations
    BY PendingTyped DEF Pending, Types
  <2> QED BY <1>1, <2>1, TypesFrom DEF Render, Types
<1>2. CASE ClosePanel
  <2>1. SlotsTyped(slot')
    BY <1>2, SlotEdited DEF ClosePanel, Types, SlotsTyped
  <2> QED BY <1>2, <2>1, TypesFrom DEF ClosePanel, Types
<1>3. ASSUME NEW m \in Mutations, OpenPanel(m) PROVE Types'
  BY <1>3, TypesFrom DEF OpenPanel, Types
<1>4. ASSUME NEW m \in Mutations, Submit(m) PROVE Types'
  <2>1. PICK i \in Slots : slot' = [Released(Does(m).cancels) EXCEPT ![i] =
                       [Free EXCEPT !.of = m, !.stage = "sent",
                                    !.here = TRUE, !.shown = TRUE]]
    BY <1>4 DEF Submit
  <2>2. SlotTyped([Free EXCEPT !.of = m, !.stage = "sent", !.here = TRUE, !.shown = TRUE])
    BY AnswersDiffer DEF SlotTyped, SlotType, UsedSlot, Free, Answers
  <2>3. SlotsTyped(slot')
    BY <2>1, <2>2, ReleasedTyped, SlotsEdited
  <2>4. fetch' \in [Queries -> Fetches]
    BY <1>4 DEF Submit, Types, Fetches
  <2>5. behind' \subseteq Queries
    BY <1>4, Tables DEF Submit, Types
  <2> QED BY <1>4, <2>3, <2>4, <2>5, TypesFrom DEF Submit, Types
<1>5. ASSUME NEW p \in Pages, Visit(p) PROVE Types'
  <2>1. /\ page' \in Pages /\ panel' \in Mutations \cup {Nothing}
        /\ rendered' \subseteq Mutations /\ fetch' \in [Queries -> Fetches]
        /\ SlotsTyped(slot')
    BY <1>5, MountTyped DEF Visit, Types
  <2> QED BY <1>5, <2>1, TypesFrom DEF Visit, Types
<1> QED BY <1>1, <1>2, <1>3, <1>4, <1>5, FetchTypes DEF UserActs

\* What becomes of a mutation.
LEMMA HandleTypes ==
    ASSUME Types, NEW i \in Slots, Handle(i)
    PROVE  Types'
<1> DEFINE m == slot[i].of
<1>1. slot[i] # Free /\ UsedSlot(slot[i]) /\ m \in Mutations
  BY BusyTyped DEF Handle
<1>2. CASE subject \in DOMAIN Does(m).becomes
  <2>1. subject' \in StatusesOf[area]
    BY <1>1, <1>2, Tables DEF Handle
  <2>2. answer' \in [Queries -> Answers] /\ fetch' \in [Queries -> Fetches]
    BY <1>2, AgedTyped DEF Handle
  <2>3. behind' \subseteq Queries
    BY <1>2 DEF Handle, Types
  <2>4. ASSUME NEW j \in Slots PROVE SlotTyped(slot'[j])
    <3>1. CASE j = i
      <4>1. slot'[j] = [slot[i] EXCEPT !.stage = "done", !.result = Current]
        BY <1>2, <3>1 DEF Handle
      <4>2. Current \in Answers
        BY DEF Answers
      <4>3. SlotTyped([slot[i] EXCEPT !.stage = "done", !.result = Current])
        <5>1. SlotTyped(slot[i])
          BY BusyTyped
        <5> QED BY <1>1, <4>2, <5>1, SlotEdited
      <4> QED BY <4>1, <4>3
    <3>2. CASE /\ j # i /\ slot[j].result = Current
               /\ Does(slot[j].of).sets \cap Does(m).changes # {}
      <4>1. slot'[j] = [slot[j] EXCEPT !.result = Result(slot[j].of)]
        BY <1>2, <3>2 DEF Handle
      <4>2. slot[j] # Free
        BY <3>2, AnswersDiffer DEF Free
      <4>3. SlotTyped([slot[j] EXCEPT !.result = Result(slot[j].of)])
        <5>1. SlotTyped(slot[j]) /\ UsedSlot(slot[j])
          BY <4>2, BusyTyped
        <5>2. Result(slot[j].of) \in Answers
          BY ResultTyped
        <5> QED BY <5>1, <5>2, SlotEdited
      <4> QED BY <4>1, <4>3
    <3>3. CASE /\ j # i
               /\ ~(slot[j].result = Current /\ Does(slot[j].of).sets \cap Does(m).changes # {})
      <4>1. slot'[j] = slot[j]
        BY <1>2, <3>3 DEF Handle
      <4> QED BY <4>1, BusyTyped
    <3> QED BY <3>1, <3>2, <3>3
  <2>5. SlotsTyped(slot')
    <3>1. DOMAIN slot' = Slots /\ slot' = [j \in Slots |-> slot'[j]]
      BY <1>2 DEF Handle
    <3> QED BY <2>4, <3>1 DEF SlotsTyped
  <2> QED BY <2>1, <2>2, <2>3, <2>5, TypesFrom DEF Handle, Types
<1>3. CASE subject \notin DOMAIN Does(m).becomes
  <2>1. slot' = [slot EXCEPT ![i].stage = "refused"]
        /\ subject' = subject /\ answer' = answer /\ fetch' = fetch /\ behind' = behind
    BY <1>3 DEF Handle
  <2>2. SlotTyped([slot[i] EXCEPT !.stage = "refused"])
    BY <1>1, BusyTyped, SlotEdited
  <2>3. slot' = [slot EXCEPT ![i] = [slot[i] EXCEPT !.stage = "refused"]]
    BY <2>1
  <2>4. SlotsTyped(slot')
    BY <2>2, <2>3, SlotsEdited DEF Types
  <2> QED BY <2>1, <2>4, TypesFrom DEF Handle, Types
<1> QED BY <1>2, <1>3

LEMMA DoneData ==
    ASSUME Types, NEW i \in Slots, Done(i)
    PROVE  answer' \in [Queries -> Answers] /\ behind' \subseteq Queries
<1>1. slot[i] # Free /\ slot[i].of \in Mutations /\ slot[i].result \in Answers
  BY BusyTyped DEF Done, SlotType
<1>2. \A q \in Queries : Amends(slot[i].of, q) => Amended(slot[i].of, q) \in Answers
  <2> SUFFICES ASSUME NEW q \in Queries, Amends(slot[i].of, q)
               PROVE  Amended(slot[i].of, q) \in Answers
    OBVIOUS
  <2>1. answer[q] \in Aging
    BY AnswersDiffer DEF Amends, Types, Answers
  <2>2. answer[q].offers \subseteq Mutations
    BY <2>1, AnswersDiffer DEF Aging
  <2> QED BY <1>1, <2>2, Tables DEF Amended, Answers, Aging
<1>3. answer' \in [Queries -> Answers]
  BY <1>1, <1>2 DEF Done, Types
<1>4. Overtaking(i) \subseteq Queries
  BY DEF Overtaking
<1>5. behind' \subseteq Queries
  BY <1>4 DEF Done, Types
<1> QED BY <1>3, <1>5

LEMMA MutationTypes ==
    ASSUME Types, NEW i \in Slots, MutationSettles(i)
    PROVE  Types'
<1>1. CASE Lost(i)
  <2>1. SlotsTyped(slot')
    BY <1>1, FreeTyped, SlotsEdited DEF Lost, Types
  <2> QED BY <1>1, <2>1, TypesFrom DEF Lost, Types
<1>2. CASE Refused(i)
  <2>1. SlotsTyped(slot')
    BY <1>2, FreeTyped, SlotsEdited DEF Refused, Types
  <2> QED BY <1>2, <2>1, TypesFrom DEF Refused, Types
<1>3. CASE Refreshed(i)
  <2>1. slot[i] # Free
    BY <1>3, BusyTyped DEF Refreshed
  <2>2. /\ page' \in Pages /\ panel' \in Mutations \cup {Nothing}
        /\ rendered' \subseteq Mutations /\ fetch' \in [Queries -> Fetches]
        /\ SlotsTyped(slot')
    BY <1>3, <2>1, SucceedTyped DEF Refreshed, Types
  <2> QED BY <1>3, <2>2, TypesFrom DEF Refreshed, Types
<1>4. CASE Done(i)
  <2> DEFINE m == Does(slot[i].of)
             s == Released({q \in Queries : Restarts(q, m.refreshes)})
             f == Invalidated(m.refreshes)
  <2>1. slot[i] # Free /\ UsedSlot(slot[i])
    BY <1>4, BusyTyped DEF Done
  <2>2. SlotsTyped(s) /\ f \in [Queries -> Fetches]
    BY ReleasedTyped, InvalidatedTyped
  <2>3. /\ page' \in Pages /\ panel' \in Mutations \cup {Nothing}
        /\ rendered' \subseteq Mutations /\ fetch' \in [Queries -> Fetches]
        /\ SlotsTyped(slot')
    <3>1. CASE m.awaits
      <4>1. slot' = [s EXCEPT ![i].stage = "refreshing", ![i].waits = Awaited(m)]
            /\ fetch' = f /\ page' = page /\ panel' = panel /\ rendered' = rendered
        BY <1>4, <3>1 DEF Done
      <4> DEFINE w == Awaited(m)
      <4>2. UsedSlot(s[i]) /\ SlotTyped(s[i]) /\ s[i].of = slot[i].of
        <5>1. s[i] = [slot[i] EXCEPT !.waits = @ \ {q \in Queries : Restarts(q, m.refreshes)}]
          BY DEF Released
        <5>2. slot[i] \in SlotType
          BY BusyTyped
        <5> QED BY <2>1, <2>2, <5>1, <5>2 DEF UsedSlot, SlotType, SlotsTyped
      <4>3. w \subseteq Queries \cap m.refreshes
        BY Tables DEF Awaited, Mounted, Types
      <4>4. SlotTyped([s[i] EXCEPT !.stage = "refreshing", !.waits = w])
        <5>1. w \in SUBSET (Queries \cap Does(s[i].of).refreshes)
          BY <4>2, <4>3
        <5> QED BY <4>2, <5>1, SlotEdited
      <4>5. slot' = [s EXCEPT ![i] = [s[i] EXCEPT !.stage = "refreshing", !.waits = w]]
        <5>1. s[i] \in SlotType /\ s = [j \in Slots |-> s[j]]
          BY <2>2 DEF SlotsTyped, SlotTyped
        <5> HIDE DEF s, w, f, m
        <5> QED BY <4>1, <5>1 DEF SlotType, w
      <4> HIDE DEF s, w, f, m
      <4>6. SlotsTyped([s EXCEPT ![i] = [s[i] EXCEPT !.stage = "refreshing", !.waits = w]])
        BY <2>2, <4>4, SlotsEdited
      <4>7. SlotsTyped(slot')
        BY <4>5, <4>6
      <4> QED BY <2>2, <4>1, <4>7 DEF Types
    <3>2. CASE ~m.awaits
      <4>1. Succeed(i, f, s)
        BY <1>4, <3>2 DEF Done
      <4> HIDE DEF s, f, m
      <4>2. i \in Slots /\ slot[i] # Free /\ f \in [Queries -> Fetches] /\ SlotsTyped(s)
        BY <2>1, <2>2
      <4> QED BY <4>1, <4>2, SucceedTyped
    <3> QED BY <3>1, <3>2
  <2>4. answer' \in [Queries -> Answers] /\ behind' \subseteq Queries
    BY <1>4, DoneData
  <2>5. area' = area /\ subject' = subject
    BY <1>4 DEF Done
  <2> HIDE DEF s, f, m
  <2> QED BY <2>3, <2>4, <2>5, TypesFrom DEF Types
<1> QED BY <1>1, <1>2, <1>3, <1>4, HandleTypes DEF MutationSettles

LEMMA TypesStep == Types /\ [Next]_vars => Types'
<1> SUFFICES ASSUME Types, [Next]_vars PROVE Types'
  OBVIOUS
<1>1. CASE UNCHANGED vars
  BY <1>1, TypesFrom DEF Types, vars
<1>2. CASE Next
  BY <1>2, FetchTypes, UserTypes, MutationTypes DEF Next
<1> QED BY <1>1, <1>2

(* What the pages, the cache and the slots of every area hold is of the    *)
(* types the engine gives it, whatever the tables say.                     *)
THEOREM AlwaysTyped == Spec => []Types
BY TypesInit, TypesStep, PTL DEF Spec

(* TypeOK, the form in which TLC checks the same.                          *)
THEOREM TypeCorrect == Spec => []TypeOK
BY AlwaysTyped, TypesImply, PTL

-----------------------------------------------------------------------------
(* What a step makes of the mutations under way. *)

\* The slots that a refetch gives up keep all but what they wait for.
LEMMA ReleasedSlots ==
    ASSUME Types, NEW qs, NEW j \in Slots
    PROVE  /\ Released(qs)[j].of = slot[j].of /\ Released(qs)[j].stage = slot[j].stage
           /\ Released(qs)[j].here = slot[j].here /\ Released(qs)[j].shown = slot[j].shown
           /\ Released(qs)[j].waits = slot[j].waits \ qs
BY BusyTyped DEF Released, SlotType

LEMMA MountSlots ==
    ASSUME NEW p, NEW f, NEW s, SlotsTyped(s), Mount(p, f, s), NEW j \in Slots
    PROVE  /\ slot'[j].of = s[j].of /\ slot'[j].stage = s[j].stage
           /\ slot'[j].waits = s[j].waits /\ slot'[j].here = FALSE
BY DEF Mount, SlotsTyped, SlotTyped, SlotType

LEMMA VisitSlots ==
    ASSUME Types, NEW p \in Pages, Visit(p), NEW j \in Slots
    PROVE  /\ slot'[j].of = slot[j].of /\ slot'[j].stage = slot[j].stage
           /\ slot'[j].waits = slot[j].waits /\ slot'[j].here = FALSE
<1>1. Mount(p, fetch, slot) /\ SlotsTyped(slot)
  BY DEF Visit, Types
<1> QED BY <1>1, MountSlots

\* A mutation that has succeeded is forgotten, and the others go on.
LEMMA SucceedSlots ==
    ASSUME Types, NEW i \in Slots, NEW f \in [Queries -> Fetches],
           NEW s, SlotsTyped(s), Succeed(i, f, s)
    PROVE  \A j \in Slots :
             /\ slot'[j].of = IF j = i THEN Nothing ELSE s[j].of
             /\ slot'[j].stage = IF j = i THEN "free" ELSE s[j].stage
             /\ slot'[j].waits = IF j = i THEN {} ELSE s[j].waits
             /\ \/ slot'[j].here = FALSE
                \/ j # i /\ slot'[j] = s[j] /\ page' = page
<1> SUFFICES ASSUME NEW j \in Slots
             PROVE  /\ slot'[j].of = IF j = i THEN Nothing ELSE s[j].of
                    /\ slot'[j].stage = IF j = i THEN "free" ELSE s[j].stage
                    /\ slot'[j].waits = IF j = i THEN {} ELSE s[j].waits
                    /\ \/ slot'[j].here = FALSE
                       \/ j # i /\ slot'[j] = s[j] /\ page' = page
  OBVIOUS
<1> DEFINE t == [s EXCEPT ![i] = Free]
<1>1. SlotsTyped(t)
  BY FreeTyped, SlotsEdited
<1>2. /\ t[j].of = IF j = i THEN Nothing ELSE s[j].of
      /\ t[j].stage = IF j = i THEN "free" ELSE s[j].stage
      /\ t[j].waits = IF j = i THEN {} ELSE s[j].waits
      /\ t[j].here = FALSE \/ (j # i /\ t[j] = s[j])
  BY DEF SlotsTyped, Free
<1>3. CASE Moves(i)
  <2>1. Mount(Does(slot[i].of).goesTo, f, t)
    BY <1>3 DEF Succeed
  <2> HIDE DEF t
  <2>2. /\ slot'[j].of = t[j].of /\ slot'[j].stage = t[j].stage
        /\ slot'[j].waits = t[j].waits /\ slot'[j].here = FALSE
    BY <1>1, <2>1, MountSlots
  <2> QED BY <1>2, <2>2
<1>4. CASE ~Moves(i)
  BY <1>2, <1>4 DEF Succeed
<1> QED BY <1>3, <1>4

LEMMA RefreshedSlots ==
    ASSUME Types, NEW i \in Slots, Refreshed(i), NEW j \in Slots
    PROVE  /\ slot'[j].of = IF j = i THEN Nothing ELSE slot[j].of
           /\ slot'[j].stage = IF j = i THEN "free" ELSE slot[j].stage
           /\ slot'[j].waits = IF j = i THEN {} ELSE slot[j].waits
           /\ \/ slot'[j].here = FALSE
              \/ j # i /\ slot'[j] = slot[j] /\ page' = page
<1> DEFINE f == fetch
           s == slot
<1>1. f \in [Queries -> Fetches] /\ SlotsTyped(s) /\ Succeed(i, f, s)
  BY DEF Refreshed, Types
<1> HIDE DEF f, s
<1>2. /\ slot'[j].of = IF j = i THEN Nothing ELSE s[j].of
      /\ slot'[j].stage = IF j = i THEN "free" ELSE s[j].stage
      /\ slot'[j].waits = IF j = i THEN {} ELSE s[j].waits
      /\ slot'[j].here = FALSE \/ (j # i /\ slot'[j] = s[j] /\ page' = page)
  BY <1>1, SucceedSlots
<1> QED BY <1>2 DEF s

\* What is being fetched goes on being fetched, and a page that is mounted
\* fetches what it shows.
LEMMA SucceedFetches ==
    ASSUME Types, area' = area,
           NEW i \in Slots, NEW f \in [Queries -> Fetches], NEW s, Succeed(i, f, s)
    PROVE  \A q \in Queries :
             /\ f[q] # Idle => fetch'[q] = f[q]
             /\ f[q] = Idle => \/ fetch'[q] = Asked
                               \/ fetch'[q] = Idle /\ (q \in Mounted' => q \in Mounted)
<1>1. ASSUME NEW p, Mount(p, f, [s EXCEPT ![i] = Free]), NEW q \in Queries
      PROVE  /\ f[q] # Idle => fetch'[q] = f[q]
             /\ f[q] = Idle => fetch'[q] = Asked \/ (fetch'[q] = Idle /\ q \notin Mounted')
  <2>1. fetch'[q] = IF q \in On(p).shows /\ f[q] = Idle THEN Asked ELSE f[q]
    BY <1>1 DEF Mount
  <2>2. Mounted' = On(p).shows
    BY <1>1 DEF Mount, Mounted, On
  <2> QED BY <2>1, <2>2
<1>2. CASE Moves(i)
  BY <1>1, <1>2 DEF Succeed
<1>3. CASE ~Moves(i)
  BY <1>3 DEF Succeed, Mounted, On
<1> QED BY <1>2, <1>3

\* A mutation whose answer has come waits for the cache, or is over.
LEMMA DoneSlots ==
    ASSUME Types, NEW i \in Slots, Done(i), NEW j \in Slots
    PROVE  /\ j # i => /\ slot'[j].of = slot[j].of /\ slot'[j].stage = slot[j].stage
                       /\ slot'[j].waits \subseteq slot[j].waits
           /\ j = i => \/ /\ slot'[j].stage = "refreshing" /\ slot'[j].of = slot[j].of
                          /\ Does(slot[i].of).awaits
                          /\ slot'[j].waits = Awaited(Does(slot[i].of))
                       \/ /\ slot'[j].stage = "free" /\ slot'[j].of = Nothing
                          /\ slot'[j].waits = {}
           /\ \/ slot'[j].here = FALSE
              \/ /\ slot'[j].here = slot[j].here /\ slot'[j].shown = slot[j].shown
                 /\ slot'[j].of = slot[j].of /\ page' = page
<1> DEFINE m == Does(slot[i].of)
           qs == {q \in Queries : Restarts(q, m.refreshes)}
           s == Released(qs)
           f == Invalidated(m.refreshes)
<1>1. /\ s[j].of = slot[j].of /\ s[j].stage = slot[j].stage
      /\ s[j].here = slot[j].here /\ s[j].shown = slot[j].shown
      /\ s[j].waits = slot[j].waits \ qs
  BY ReleasedSlots
<1>2. SlotsTyped(s) /\ f \in [Queries -> Fetches]
  BY ReleasedTyped, InvalidatedTyped
<1>3. CASE m.awaits
  <2>1. /\ slot' = [s EXCEPT ![i].stage = "refreshing", ![i].waits = Awaited(m)]
        /\ page' = page
    BY <1>3 DEF Done
  <2>2. s[j] \in SlotType /\ DOMAIN s = Slots
    BY <1>2 DEF SlotsTyped, SlotTyped
  <2> HIDE DEF m, qs, s, f
  <2>3. j # i => slot'[j] = s[j]
    BY <2>1, <2>2
  <2>4. j = i => slot'[j] = [s[j] EXCEPT !.stage = "refreshing", !.waits = Awaited(m)]
    BY <2>1, <2>2
  <2>5. j = i => /\ slot'[j].stage = "refreshing" /\ slot'[j].waits = Awaited(m)
                 /\ slot'[j].of = s[j].of /\ slot'[j].here = s[j].here
                 /\ slot'[j].shown = s[j].shown
    BY <2>2, <2>4 DEF SlotType
  <2> QED BY <1>1, <1>3, <2>1, <2>3, <2>5 DEF m
<1>4. CASE ~m.awaits
  <2>1. Succeed(i, f, s)
    BY <1>4 DEF Done
  <2> HIDE DEF m, qs, s, f
  <2>2. /\ slot'[j].of = IF j = i THEN Nothing ELSE s[j].of
        /\ slot'[j].stage = IF j = i THEN "free" ELSE s[j].stage
        /\ slot'[j].waits = IF j = i THEN {} ELSE s[j].waits
        /\ slot'[j].here = FALSE \/ (j # i /\ slot'[j] = s[j] /\ page' = page)
    BY <1>2, <2>1, SucceedSlots
  <2> QED BY <1>1, <2>2
<1> QED BY <1>3, <1>4

LEMMA DoneFetches ==
    ASSUME Types, NEW i \in Slots, Done(i), NEW q \in Queries
    PROVE  LET f == Invalidated(Does(slot[i].of).refreshes)
           IN  /\ f[q] # Idle => fetch'[q] = f[q]
               /\ f[q] = Idle => \/ fetch'[q] = Asked
                                 \/ fetch'[q] = Idle /\ (q \in Mounted' => q \in Mounted)
<1> DEFINE m == Does(slot[i].of)
           s == Released({x \in Queries : Restarts(x, m.refreshes)})
           f == Invalidated(m.refreshes)
<1>1. f \in [Queries -> Fetches] /\ area' = area
  BY InvalidatedTyped DEF Done
<1>2. CASE m.awaits
  BY <1>2 DEF Done, Mounted, On
<1>3. CASE ~m.awaits
  <2>1. Succeed(i, f, s)
    BY <1>3 DEF Done
  <2> HIDE DEF m, s, f
  <2>2. /\ f[q] # Idle => fetch'[q] = f[q]
        /\ f[q] = Idle => \/ fetch'[q] = Asked
                          \/ fetch'[q] = Idle /\ (q \in Mounted' => q \in Mounted)
    BY <1>1, <2>1, SucceedFetches
  <2> QED BY <2>2 DEF f, m
<1> QED BY <1>2, <1>3

\* A mutation that is under way and whose page is still shown goes on being
\* that, shown as pending unless its panel forgets.
GoesOn(j) ==
    /\ slot'[j].of \in {slot[j].of, Nothing}
    /\ \/ slot'[j].here = FALSE
       \/ /\ slot'[j].of = slot[j].of /\ slot'[j].here = slot[j].here
          /\ \/ slot'[j].shown = slot[j].shown
             \/ Does(slot[j].of).forgets
          /\ page' = page

LEMMA AreaStays == [Next]_vars => area' = area
BY DEF Next, FetchSettles, ServerReads, Arrives, Fails, MutationSettles, Handle, Lost, Refused,
   Done, Refreshed, Render, UserActs, Focus, ClosePanel, OpenPanel, Submit, Visit, vars

LEMMA FetchGoesOn ==
    ASSUME Types, Focus \/ \E q \in Queries : FetchSettles(q), NEW j \in Slots
    PROVE  GoesOn(j)
<1>1. CASE Focus
  BY <1>1 DEF Focus, GoesOn
<1>2. ASSUME NEW q \in Queries, FetchSettles(q) PROVE GoesOn(j)
  <2>1. CASE ServerReads(q)
    BY <2>1 DEF ServerReads, GoesOn
  <2>2. CASE Arrives(q) \/ Fails(q)
    <3>1. slot' = Released({q}) /\ page' = page
      BY <2>2 DEF Arrives, Fails, GivenUp
    <3> QED BY <3>1, ReleasedSlots DEF GoesOn
  <2> QED BY <1>2, <2>1, <2>2 DEF FetchSettles
<1> QED BY <1>1, <1>2

LEMMA UserGoesOn ==
    ASSUME Types, NEW j \in Slots,
           Render \/ ClosePanel \/ (\E m \in Mutations : OpenPanel(m)) \/ \E p \in Pages : Visit(p)
    PROVE  GoesOn(j)
<1>1. CASE Render
  BY <1>1 DEF Render, GoesOn
<1>2. CASE ClosePanel
  <2>1. CASE Busy(j) /\ Does(slot[j].of).forgets
    <3>1. slot'[j] = [slot[j] EXCEPT !.shown = FALSE] /\ page' = page
      BY <1>2, <2>1 DEF ClosePanel
    <3>2. slot[j] \in SlotType
      BY BusyTyped
    <3> QED BY <2>1, <3>1, <3>2 DEF GoesOn, SlotType
  <2>2. CASE ~(Busy(j) /\ Does(slot[j].of).forgets)
    BY <1>2, <2>2 DEF ClosePanel, GoesOn
  <2> QED BY <2>1, <2>2
<1>3. ASSUME NEW m \in Mutations, OpenPanel(m) PROVE GoesOn(j)
  BY <1>3 DEF OpenPanel, GoesOn
<1>4. ASSUME NEW p \in Pages, Visit(p) PROVE GoesOn(j)
  <2>1. Mount(p, fetch, slot) /\ SlotsTyped(slot)
    BY <1>4 DEF Visit, Types
  <2> QED BY <2>1, MountSlots DEF GoesOn
<1> QED BY <1>1, <1>2, <1>3, <1>4

LEMMA MutationGoesOn ==
    ASSUME Types, NEW i \in Slots, MutationSettles(i), NEW j \in Slots
    PROVE  GoesOn(j)
<1>1. SlotTyped(slot[j]) /\ slot[j] \in SlotType /\ DOMAIN slot = Slots
  BY BusyTyped DEF Types, SlotsTyped
<1>2. CASE Handle(i)
  <2>1. page' = page
    BY <1>2 DEF Handle
  <2>2. ASSUME subject \in DOMAIN Does(slot[i].of).becomes
        PROVE  /\ slot'[j].of = slot[j].of /\ slot'[j].here = slot[j].here
               /\ slot'[j].shown = slot[j].shown
    <3>1. CASE j = i
      <4>1. slot'[j] = [slot[i] EXCEPT !.stage = "done", !.result = Current]
        BY <1>2, <2>2, <3>1 DEF Handle
      <4> QED BY <1>1, <3>1, <4>1 DEF SlotType
    <3>2. CASE j # i
      <4>1. slot'[j] \in {slot[j], [slot[j] EXCEPT !.result = Result(slot[j].of)]}
        BY <1>2, <2>2, <3>2 DEF Handle
      <4> QED BY <1>1, <4>1 DEF SlotType
    <3> QED BY <3>1, <3>2
  <2>3. subject \notin DOMAIN Does(slot[i].of).becomes =>
          /\ slot'[j].of = slot[j].of /\ slot'[j].here = slot[j].here
          /\ slot'[j].shown = slot[j].shown
    BY <1>1, <1>2 DEF Handle, SlotType
  <2>4. /\ slot'[j].of = slot[j].of /\ slot'[j].here = slot[j].here
        /\ slot'[j].shown = slot[j].shown
    BY <2>2, <2>3
  <2> QED BY <2>1, <2>4 DEF GoesOn
<1>3. CASE Lost(i) \/ Refused(i)
  <2>1. slot' = [slot EXCEPT ![i] = Free] /\ page' = page
    BY <1>3 DEF Lost, Refused
  <2>2. CASE j = i
    <3>1. slot'[j] = Free
      BY <1>1, <2>1, <2>2
    <3> QED BY <3>1 DEF GoesOn, Free
  <2>3. CASE j # i
    <3>1. slot'[j] = slot[j]
      BY <1>1, <2>1, <2>3
    <3> QED BY <2>1, <3>1 DEF GoesOn
  <2> QED BY <2>2, <2>3
<1>4. CASE Done(i)
  BY <1>4, DoneSlots DEF GoesOn
<1>5. CASE Refreshed(i)
  <2>1. /\ slot'[j].of = IF j = i THEN Nothing ELSE slot[j].of
        /\ slot'[j].here = FALSE \/ (j # i /\ slot'[j] = slot[j] /\ page' = page)
    BY <1>5, RefreshedSlots
  <2> QED BY <2>1 DEF GoesOn
<1> QED BY <1>2, <1>3, <1>4, <1>5 DEF MutationSettles

\* A submission takes a free slot.
LEMMA SubmitSlots ==
    ASSUME Types, NEW m \in Mutations, Submit(m)
    PROVE  \E i \in Slots :
             /\ ~Busy(i)
             /\ slot'[i].of = m /\ slot'[i].stage = "sent" /\ slot'[i].waits = {}
             /\ slot'[i].here = TRUE /\ slot'[i].shown = TRUE
             /\ \A j \in Slots \ {i} : slot'[j] = Released(Does(m).cancels)[j]
<1> DEFINE i == CHOOSE j \in Slots : ~Busy(j)
           new == [Free EXCEPT !.of = m, !.stage = "sent", !.here = TRUE, !.shown = TRUE]
<1>1. i \in Slots /\ ~Busy(i)
  BY DEF Submit
<1>2. slot' = [Released(Does(m).cancels) EXCEPT ![i] = new]
  BY DEF Submit
<1>3. DOMAIN Released(Does(m).cancels) = Slots
  BY DEF Released
<1>4. /\ new.of = m /\ new.stage = "sent" /\ new.waits = {} /\ new.here = TRUE
      /\ new.shown = TRUE
  BY DEF Free
<1> HIDE DEF i, new
<1>5. slot'[i] = new /\ \A j \in Slots \ {i} : slot'[j] = Released(Does(m).cancels)[j]
  BY <1>1, <1>2, <1>3
<1> QED BY <1>1, <1>4, <1>5

LEMMA StepKinds ==
    ASSUME Types, Next
    PROVE  (\E m \in Mutations : Submit(m)) \/ (\A j \in Slots : GoesOn(j))
BY FetchGoesOn, UserGoesOn, MutationGoesOn DEF Next, UserActs

-----------------------------------------------------------------------------
(* A late success stays where the user is. *)

LEMMA StaysStep ==
    ASSUME Types, [Next]_vars,
           NEW i \in Slots, Busy(i), ~slot[i].here, ~Does(slot[i].of).alsoLate,
           slot'[i] = Free
    PROVE  page' = page
<1>1. slot[i].of # Nothing /\ slot'[i].of = Nothing
  BY DEF Busy, Free
<1>2. CASE UNCHANGED vars
  BY <1>2 DEF vars
<1>3. CASE Focus \/ Render \/ ClosePanel \/ \E m \in Mutations : OpenPanel(m) \/ Submit(m)
  BY <1>3 DEF Focus, Render, ClosePanel, OpenPanel, Submit
<1>4. CASE \E q \in Queries : FetchSettles(q)
  BY <1>4 DEF FetchSettles, ServerReads, Arrives, Fails
<1>5. ASSUME NEW p \in Pages, Visit(p) PROVE FALSE
  <2>1. Mount(p, fetch, slot) /\ SlotsTyped(slot)
    BY <1>5 DEF Visit, Types
  <2> QED BY <1>1, <2>1, MountSlots
<1>6. ASSUME NEW k \in Slots, MutationSettles(k) PROVE page' = page
  <2>1. CASE Handle(k) \/ Lost(k) \/ Refused(k)
    BY <2>1 DEF Handle, Lost, Refused
  <2>2. CASE Refreshed(k)
    <3>1. Succeed(k, fetch, slot) /\ SlotsTyped(slot) /\ fetch \in [Queries -> Fetches]
      BY <2>2 DEF Refreshed, Types
    <3>2. k = i
      <4>1. slot'[i].of = IF i = k THEN Nothing ELSE slot[i].of
        BY <2>2, RefreshedSlots
      <4> QED BY <1>1, <4>1
    <3> QED BY <3>1, <3>2 DEF Succeed, Moves
  <2>3. CASE Done(k)
    <3>1. k = i
      BY <1>1, <2>3, DoneSlots
    <3> QED BY <2>3, <3>1 DEF Done, Succeed, Moves
  <2> QED BY <1>6, <2>1, <2>2, <2>3 DEF MutationSettles
<1> QED BY <1>2, <1>3, <1>4, <1>5, <1>6 DEF Next, UserActs

(* LateSuccessStays: a success that comes after its page has been left     *)
(* does not move the user, whatever else is under way, where the page      *)
(* asked for that by a callback of mutate.                                 *)
THEOREM LateStays == Spec => LateSuccessStays
<1>1. Types /\ [Next]_vars =>
        [\A i \in Slots :
           (/\ Busy(i) /\ ~slot[i].here /\ ~Does(slot[i].of).alsoLate
            /\ slot'[i] = Free)
               => page' = page]_vars
  BY StaysStep
<1> QED BY <1>1, AlwaysTyped, PTL DEF Spec, LateSuccessStays

-----------------------------------------------------------------------------
(* One submission: a mutation that a ref locks is shown as pending as long *)
(* as its page is, for none of these is in a panel that forgets.           *)
Locks(i) == Busy(i) /\ slot[i].here /\ Does(slot[i].of).once # {} => slot[i].shown

LockHolds ==
    /\ \A i \in Slots : Locks(i)
    /\ OneSubmission

LEMMA LocksStep ==
    ASSUME Types, Types', LockHolds, area' = area, \A j \in Slots : GoesOn(j)
    PROVE  LockHolds'
<1>1. Slots' = Slots /\ \A m : Does(m)' = Does(m)
  BY SameArea
<1>2. ASSUME NEW j \in Slots, Busy(j)', slot'[j].here
      PROVE  /\ Busy(j) /\ slot[j].here /\ slot'[j].of = slot[j].of
             /\ slot'[j].shown = slot[j].shown \/ Does(slot[j].of).forgets
  <2>1. GoesOn(j)
    OBVIOUS
  <2> QED BY <1>2, <2>1 DEF GoesOn, Busy
<1>3. ASSUME NEW j \in Slots PROVE Locks(j)'
  <2> SUFFICES ASSUME Busy(j)', slot'[j].here,
                      Does(slot'[j].of).once # {}
               PROVE  slot'[j].shown
    BY <1>1 DEF Locks
  <2>1. Busy(j) /\ slot[j].of \in Mutations
    BY <1>2, BusyTyped
  <2>2. ~Does(slot[j].of).forgets
    BY <1>2, <2>1, Tables
  <2> QED BY <1>2, <2>1, <2>2 DEF LockHolds, Locks
<1>4. OneSubmission'
  <2> SUFFICES ASSUME NEW i \in Slots, NEW j \in Slots, Busy(i)', slot'[i].here,
                      Busy(j)', slot'[j].here, slot'[j].of \in Does(slot'[i].of).once
               PROVE  i = j
    BY <1>1 DEF OneSubmission
  <2> QED BY <1>2 DEF LockHolds, OneSubmission
<1> QED BY <1>1, <1>3, <1>4 DEF LockHolds

LEMMA LocksSubmit ==
    ASSUME Types, Types', LockHolds, NEW m \in Mutations, Submit(m)
    PROVE  LockHolds'
<1>1. area' = area
  BY DEF Submit
<1>2. Slots' = Slots /\ \A n : Does(n)' = Does(n)
  BY <1>1, SameArea
<1>3. PICK i \in Slots :
             /\ ~Busy(i)
             /\ slot'[i].of = m /\ slot'[i].stage = "sent" /\ slot'[i].waits = {}
             /\ slot'[i].here = TRUE /\ slot'[i].shown = TRUE
             /\ \A j \in Slots \ {i} : slot'[j] = Released(Does(m).cancels)[j]
  BY SubmitSlots
<1>4. ASSUME NEW j \in Slots \ {i}
      PROVE  /\ slot'[j].of = slot[j].of /\ slot'[j].here = slot[j].here
             /\ slot'[j].shown = slot[j].shown
  BY <1>3, ReleasedSlots
<1>5. \A j \in Slots : Locks(j)'
  BY <1>2, <1>3, <1>4 DEF LockHolds, Locks, Busy
<1>6. ASSUME NEW j \in Slots \ {i}, slot[j].of # Nothing, slot[j].here,
             slot[j].of \in Does(m).once \/ m \in Does(slot[j].of).once
      PROVE  FALSE
  <2>1. slot[j].of \in Mutations /\ Busy(j)
    BY <1>6, BusyTyped DEF Busy
  <2>2. slot[j].of \in Does(m).once /\ m \in Does(slot[j].of).once
    BY <1>6, <2>1, Tables
  <2>3. slot[j].shown
    BY <1>6, <2>1, <2>2 DEF LockHolds, Locks
  <2>4. slot[j].of \in Pending
    BY <2>3 DEF Pending, PendingIn
  <2> QED BY <2>2, <2>4 DEF Submit, Locked
<1>7. OneSubmission'
  <2> SUFFICES ASSUME NEW k \in Slots, NEW j \in Slots, Busy(k)', slot'[k].here,
                      Busy(j)', slot'[j].here, slot'[j].of \in Does(slot'[k].of).once
               PROVE  k = j
    BY <1>2 DEF OneSubmission
  <2>1. CASE k = i
    BY <1>3, <1>4, <1>6, <2>1 DEF Busy
  <2>2. CASE j = i
    BY <1>3, <1>4, <1>6, <2>2 DEF Busy
  <2>3. CASE k # i /\ j # i
    BY <1>4, <2>3 DEF Busy, LockHolds, OneSubmission
  <2> QED BY <2>1, <2>2, <2>3
<1> QED BY <1>2, <1>5, <1>7 DEF LockHolds

(* OneSubmission: the mutations one ref locks have at most one submission  *)
(* under way on their page, however many clicks precede the render that    *)
(* disables their buttons.                                                 *)
THEOREM SubmittedOnce == Spec => []OneSubmission
<1>1. Init => LockHolds
  BY DEF Init, LockHolds, Locks, OneSubmission, Busy, Free
<1>2. Types /\ Types' /\ LockHolds /\ [Next]_vars => LockHolds'
  <2> SUFFICES ASSUME Types, Types', LockHolds, [Next]_vars PROVE LockHolds'
    OBVIOUS
  <2>1. CASE UNCHANGED vars
    BY <2>1 DEF vars, LockHolds, Locks, OneSubmission, Busy, Slots, Does
  <2>2. CASE Next
    <3>1. area' = area
      BY AreaStays
    <3> QED BY <2>2, <3>1, StepKinds, LocksStep, LocksSubmit
  <2> QED BY <2>1, <2>2
<1>3. LockHolds => OneSubmission
  BY DEF LockHolds
<1> QED BY <1>1, <1>2, <1>3, AlwaysTyped, PTL DEF Spec

-----------------------------------------------------------------------------
(* No form waits for nothing. *)

Fetching(j) == \A q \in slot[j].waits : fetch[q] # Idle

LEMMA WaitsTyped ==
    ASSUME Types, NEW j \in Slots
    PROVE  slot[j].waits \subseteq Queries
BY BusyTyped DEF SlotType

LEMMA FetchingStep ==
    ASSUME Types, Next, NEW j \in Slots, Fetching(j)
    PROVE  Fetching(j)'
<1>0. slot[j].waits \subseteq Queries
  BY WaitsTyped
\* Nothing new is waited for, and what is waited for goes on being fetched.
<1>a. ASSUME slot'[j].waits \subseteq slot[j].waits,
             \A q \in slot'[j].waits : fetch[q] # Idle => fetch'[q] # Idle
      PROVE  Fetching(j)'
  BY <1>a DEF Fetching
<1>1. CASE Focus
  <2>1. slot' = slot /\ fetch' = Joined(Mounted \ On(page).stays)
    BY <1>1 DEF Focus
  <2>2. \A q \in Queries : fetch[q] # Idle => fetch'[q] # Idle
    BY <2>1 DEF Joined
  <2> QED BY <1>0, <1>a, <2>1, <2>2
<1>2. ASSUME NEW q \in Queries, FetchSettles(q) PROVE Fetching(j)'
  <2>1. CASE ServerReads(q)
    <3>1. slot' = slot /\ \A x \in Queries : fetch[x] # Idle => fetch'[x] # Idle
      BY <2>1, AnswersDiffer DEF ServerReads, Types
    <3> QED BY <1>0, <1>a, <3>1
  <2>2. CASE Arrives(q) \/ Fails(q)
    <3>1. slot' = Released({q}) /\ fetch' = [fetch EXCEPT ![q] = Idle]
      BY <2>2 DEF Arrives, Fails, GivenUp
    <3>2. slot'[j].waits = slot[j].waits \ {q}
      BY <3>1, ReleasedSlots
    <3>3. \A x \in Queries \ {q} : fetch'[x] = fetch[x]
      BY <3>1 DEF Types
    <3> QED BY <1>0, <1>a, <3>2, <3>3
  <2> QED BY <1>2, <2>1, <2>2 DEF FetchSettles
<1>3. CASE Render \/ \E m \in Mutations : OpenPanel(m)
  BY <1>3 DEF Render, OpenPanel, Fetching
<1>4. CASE ClosePanel
  <2>1. slot'[j].waits = slot[j].waits
    <3>1. slot'[j] \in {slot[j], [slot[j] EXCEPT !.shown = FALSE]}
      BY <1>4 DEF ClosePanel
    <3>2. slot[j] \in SlotType
      BY BusyTyped
    <3> QED BY <3>1, <3>2 DEF SlotType
  <2>2. fetch' = fetch
    BY <1>4 DEF ClosePanel
  <2> QED BY <1>a, <2>1, <2>2
<1>5. ASSUME NEW m \in Mutations, Submit(m) PROVE Fetching(j)'
  <2>1. PICK i \in Slots :
             /\ ~Busy(i)
             /\ slot'[i].of = m /\ slot'[i].stage = "sent" /\ slot'[i].waits = {}
             /\ slot'[i].here = TRUE /\ slot'[i].shown = TRUE
             /\ \A k \in Slots \ {i} : slot'[k] = Released(Does(m).cancels)[k]
    BY <1>5, SubmitSlots
  <2>2. slot'[j].waits \subseteq slot[j].waits \ Does(m).cancels
    BY <2>1, ReleasedSlots
  <2>3. \A q \in Queries \ Does(m).cancels : fetch'[q] = fetch[q]
    BY <1>5 DEF Submit
  <2> QED BY <1>0, <1>a, <2>2, <2>3
<1>6. ASSUME NEW p \in Pages, Visit(p) PROVE Fetching(j)'
  <2>1. Mount(p, fetch, slot) /\ SlotsTyped(slot)
    BY <1>6 DEF Visit, Types
  <2>2. slot'[j].waits = slot[j].waits
    BY <2>1, MountSlots
  <2>3. \A q \in Queries : fetch[q] # Idle => fetch'[q] # Idle
    BY <2>1 DEF Mount
  <2> QED BY <1>0, <1>a, <2>2, <2>3
<1>7. ASSUME NEW i \in Slots, Handle(i) PROVE Fetching(j)'
  <2>1. SlotTyped(slot[j]) /\ slot[j] \in SlotType /\ DOMAIN slot = Slots
    BY BusyTyped DEF Types, SlotsTyped
  <2>2. CASE subject \in DOMAIN Does(slot[i].of).becomes
    <3>1. slot'[j].waits = slot[j].waits
      <4>1. CASE j = i
        <5>1. slot'[j] = [slot[i] EXCEPT !.stage = "done", !.result = Current]
          BY <1>7, <2>2, <4>1 DEF Handle
        <5> QED BY <2>1, <4>1, <5>1 DEF SlotType
      <4>2. CASE j # i
        <5>1. slot'[j] \in {slot[j], [slot[j] EXCEPT !.result = Result(slot[j].of)]}
          BY <1>7, <2>2, <4>2 DEF Handle
        <5> QED BY <2>1, <5>1 DEF SlotType
      <4> QED BY <4>1, <4>2
    <3>2. fetch' = Aged(fetch, Does(slot[i].of).changes)
      BY <1>7, <2>2 DEF Handle
    <3>3. \A q \in Queries : fetch[q] # Idle => fetch'[q] # Idle
      BY <3>2, AnswersDiffer DEF Aged, Before
    <3> QED BY <1>0, <1>a, <3>1, <3>3
  <2>3. CASE subject \notin DOMAIN Does(slot[i].of).becomes
    <3>1. slot' = [slot EXCEPT ![i].stage = "refused"] /\ fetch' = fetch
      BY <1>7, <2>3 DEF Handle
    <3>2. slot'[j].waits = slot[j].waits
      BY <2>1, <3>1 DEF SlotType
    <3> QED BY <1>a, <3>1, <3>2
  <2> QED BY <2>2, <2>3
<1>8. ASSUME NEW i \in Slots, Lost(i) \/ Refused(i) PROVE Fetching(j)'
  <2>1. slot' = [slot EXCEPT ![i] = Free] /\ fetch' = fetch /\ DOMAIN slot = Slots
    BY <1>8 DEF Lost, Refused, Types, SlotsTyped
  <2>2. slot'[j].waits \subseteq slot[j].waits
    BY <2>1 DEF Free
  <2> QED BY <1>a, <2>1, <2>2
<1>9. ASSUME NEW i \in Slots, Refreshed(i) PROVE Fetching(j)'
  <2>1. slot'[j].waits \subseteq slot[j].waits
    BY <1>9, RefreshedSlots
  <2>2. Succeed(i, fetch, slot) /\ area' = area /\ fetch \in [Queries -> Fetches]
    BY <1>9 DEF Refreshed, Types
  <2>3. \A q \in Queries : fetch[q] # Idle => fetch'[q] = fetch[q]
    BY <2>2, SucceedFetches
  <2> QED BY <1>0, <1>a, <2>1, <2>3
<1>10. ASSUME NEW i \in Slots, Done(i) PROVE Fetching(j)'
  <2> DEFINE m == Does(slot[i].of)
             f == Invalidated(m.refreshes)
  <2>1. \A q \in Queries : f[q] # Idle => fetch'[q] = f[q]
    BY <1>10, DoneFetches
  <2>2. \A q \in Queries : /\ fetch[q] # Idle => f[q] # Idle
                           /\ q \in Awaited(m) => f[q] # Idle
    BY AnswersDiffer DEF Invalidated, Awaited
  <2>3. slot'[j].waits \subseteq slot[j].waits \cup Awaited(m)
    BY <1>10, DoneSlots
  <2>4. Awaited(m) \subseteq Queries
    BY Tables DEF Awaited, Mounted, Types
  <2> HIDE DEF f, m
  <2> QED BY <1>0, <2>1, <2>2, <2>3, <2>4 DEF Fetching
<1> QED BY <1>1, <1>2, <1>3, <1>4, <1>5, <1>6, <1>7, <1>8, <1>9, <1>10
     DEF Next, UserActs, MutationSettles

(* AwaitedIsUnderWay: a hook that awaits invalidateQueries never waits for *)
(* a query that nobody fetches, whatever cancels, fails or restarts.       *)
THEOREM AwaitedFetched == Spec => []AwaitedIsUnderWay
<1> DEFINE Inv == \A j \in Slots : Fetching(j)
<1>1. Init => Inv
  BY DEF Init, Fetching, Free
<1>2. Types /\ Inv /\ [Next]_vars => Inv'
  <2> SUFFICES ASSUME Types, Inv, [Next]_vars PROVE Inv'
    OBVIOUS
  <2>1. Slots' = Slots
    BY AreaStays, SameArea
  <2>2. CASE UNCHANGED vars
    BY <2>1, <2>2 DEF vars, Fetching
  <2>3. CASE Next
    BY <2>1, <2>3, FetchingStep
  <2> QED BY <2>2, <2>3
<1>3. Types /\ Inv => AwaitedIsUnderWay
  BY WaitsTyped DEF AwaitedIsUnderWay, Fetching
<1> QED BY <1>1, <1>2, <1>3, AlwaysTyped, PTL DEF Spec

-----------------------------------------------------------------------------
(* A page at rest is current.  What is not current is known to be behind,  *)
(* or will be fetched, refreshed or set, or is not shown.                  *)

\* A mutation that has changed q is about to set it or to refresh it.
Coming(q) ==
    \E i \in Slots :
        /\ slot[i].stage = "done"
        /\ q \in Does(slot[i].of).changes
        /\ q \in Does(slot[i].of).sets \cup Does(slot[i].of).refreshes

Served(q) ==
    \/ answer[q] = Current
    \/ q \in behind
    \/ fetch[q] \in {Asked, Current}
    \/ Coming(q)
    \/ q \notin Mounted /\ fetch[q] = Idle

\* No answered mutation leaves its slot.
StaysDone(j) == slot[j].stage = "done" => /\ slot'[j].of = slot[j].of
                                          /\ slot'[j].stage = "done"

LEMMA ComingStays ==
    ASSUME area' = area, NEW q, Coming(q), \A j \in Slots : StaysDone(j)
    PROVE  Coming(q)'
<1>1. Slots' = Slots /\ \A m : Does(m)' = Does(m)
  BY SameArea
<1> QED BY <1>1 DEF Coming, StaysDone

LEMMA FetchServed ==
    ASSUME Types, Focus \/ \E x \in Queries : FetchSettles(x), NEW q \in Queries, Served(q)
    PROVE  Served(q)'
<1>1. CASE Focus
  <2>1. /\ slot' = slot /\ area' = area /\ page' = page /\ answer' = answer /\ behind' = behind
        /\ fetch'[q] = Asked \/ fetch'[q] = fetch[q]
    BY <1>1 DEF Focus, Joined
  <2>2. Mounted' = Mounted /\ (Coming(q) => Coming(q)')
    BY <2>1, ComingStays DEF Mounted, On, StaysDone
  <2> QED BY <2>1, <2>2 DEF Served
<1>2. ASSUME NEW x \in Queries, ServerReads(x) PROVE Served(q)'
  <2>1. /\ slot' = slot /\ area' = area /\ page' = page /\ answer' = answer /\ behind' = behind
        /\ fetch'[q] = Current \/ fetch'[q] = fetch[q]
    BY <1>2 DEF ServerReads, Types
  <2>2. Mounted' = Mounted /\ (Coming(q) => Coming(q)')
    BY <2>1, ComingStays DEF Mounted, On, StaysDone
  <2> QED BY <2>1, <2>2 DEF Served
<1>3. ASSUME NEW x \in Queries, Arrives(x) \/ Fails(x) PROVE Served(q)'
  <2>1. /\ slot' = Released({x}) /\ area' = area /\ page' = page
        /\ fetch' = [fetch EXCEPT ![x] = Idle]
    BY <1>3 DEF Arrives, Fails, GivenUp
  <2>2. Mounted' = Mounted
    BY <2>1 DEF Mounted, On
  <2>3. \A j \in Slots : StaysDone(j)
    BY <2>1, ReleasedSlots DEF StaysDone
  <2>4. Coming(q) => Coming(q)'
    BY <2>1, <2>3, ComingStays
  <2>5. CASE q # x
    <3>1. fetch'[q] = fetch[q] /\ answer'[q] = answer[q]
      BY <1>3, <2>1, <2>5 DEF Arrives, Fails, Types
    <3>2. q \in behind => q \in behind'
      BY <1>3, <2>5 DEF Arrives, Fails
    <3> QED BY <2>2, <2>4, <3>1, <3>2 DEF Served
  <2>6. CASE q = x /\ Arrives(x)
    <3>1. answer'[q] = fetch[q] /\ fetch[q] \notin {Idle, Asked}
      BY <2>6 DEF Arrives, Types
    <3>2. CASE fetch[q] = Current
      BY <3>1, <3>2 DEF Served
    <3>3. CASE fetch[q] # Current
      <4>1. behind' = behind \cup ({q} \cap UpToDate)
        BY <2>6, <3>3 DEF Arrives
      <4>2. answer[q] = Current => q \in behind'
        BY <4>1 DEF UpToDate
      <4> QED BY <2>4, <3>1, <3>3, <4>1, <4>2 DEF Served
    <3> QED BY <3>2, <3>3
  <2>7. CASE q = x /\ Fails(x)
    BY <2>7 DEF Fails, Served, UpToDate
  <2> QED BY <1>3, <2>5, <2>6, <2>7
<1> QED BY <1>1, <1>2, <1>3 DEF FetchSettles

LEMMA UserServed ==
    ASSUME Types, Render \/ UserActs, NEW q \in Queries, Served(q)
    PROVE  Served(q)'
<1>1. CASE Render \/ \E m \in Mutations : OpenPanel(m)
  <2>1. /\ slot' = slot /\ area' = area /\ page' = page /\ answer' = answer
        /\ behind' = behind /\ fetch' = fetch
    BY <1>1 DEF Render, OpenPanel
  <2>2. Mounted' = Mounted /\ (Coming(q) => Coming(q)')
    BY <2>1, ComingStays DEF Mounted, On, StaysDone
  <2> QED BY <2>1, <2>2 DEF Served
<1>2. CASE ClosePanel
  <2>1. /\ area' = area /\ page' = page /\ answer' = answer
        /\ behind' = behind /\ fetch' = fetch
    BY <1>2 DEF ClosePanel
  <2>2. ASSUME NEW j \in Slots PROVE StaysDone(j)
    <3>1. slot'[j] \in {slot[j], [slot[j] EXCEPT !.shown = FALSE]}
      BY <1>2 DEF ClosePanel
    <3>2. slot[j] \in SlotType
      BY BusyTyped
    <3> QED BY <3>1, <3>2 DEF SlotType, StaysDone
  <2>3. Mounted' = Mounted /\ (Coming(q) => Coming(q)')
    BY <2>1, <2>2, ComingStays DEF Mounted, On
  <2> QED BY <2>1, <2>3 DEF Served
<1>3. ASSUME NEW m \in Mutations, Submit(m) PROVE Served(q)'
  <2>1. PICK i \in Slots :
             /\ ~Busy(i)
             /\ slot'[i].of = m /\ slot'[i].stage = "sent" /\ slot'[i].waits = {}
             /\ slot'[i].here = TRUE /\ slot'[i].shown = TRUE
             /\ \A k \in Slots \ {i} : slot'[k] = Released(Does(m).cancels)[k]
    BY <1>3, SubmitSlots
  <2>2. slot[i].stage # "done"
    BY <2>1, BusyTyped
  <2>3. \A j \in Slots : StaysDone(j)
    BY <2>1, <2>2, ReleasedSlots DEF StaysDone
  <2>4. /\ area' = area /\ page' = page /\ answer' = answer
        /\ fetch'[q] = IF q \in Does(m).cancels THEN Idle ELSE fetch[q]
        /\ behind' = behind \cup {x \in Does(m).cancels \ UpToDate : fetch[x] # Idle}
    BY <1>3 DEF Submit
  <2>5. Mounted' = Mounted /\ (Coming(q) => Coming(q)')
    BY <2>3, <2>4, ComingStays DEF Mounted, On
  <2>6. CASE q \in Does(m).cancels /\ fetch[q] # Idle
    BY <2>4, <2>6 DEF Served, UpToDate
  <2>7. CASE ~(q \in Does(m).cancels /\ fetch[q] # Idle)
    <3>1. fetch'[q] = fetch[q]
      BY <2>4, <2>7
    <3> QED BY <2>4, <2>5, <3>1 DEF Served
  <2> QED BY <2>6, <2>7
<1>4. ASSUME NEW p \in Pages, Visit(p) PROVE Served(q)'
  <2>1. /\ Mount(p, fetch, slot) /\ SlotsTyped(slot)
        /\ area' = area /\ answer' = answer /\ behind' = behind
    BY <1>4 DEF Visit, Types
  <2>2. Mounted' = On(p).shows
    BY <2>1 DEF Mount, Mounted, On
  <2>3. fetch'[q] = IF q \in On(p).shows /\ fetch[q] = Idle THEN Asked ELSE fetch[q]
    BY <2>1 DEF Mount
  <2>4. ASSUME NEW j \in Slots PROVE StaysDone(j)
    <3>1. slot'[j].of = slot[j].of /\ slot'[j].stage = slot[j].stage
      BY <2>1, MountSlots
    <3> QED BY <3>1 DEF StaysDone
  <2>5. Coming(q) => Coming(q)'
    BY <2>1, <2>4, ComingStays
  <2> QED BY <2>1, <2>2, <2>3, <2>5 DEF Served
<1> QED BY <1>1, <1>2, <1>3, <1>4, FetchServed DEF UserActs

LEMMA HandleServed ==
    ASSUME Covers, Types, NEW i \in Slots, Handle(i), NEW q \in Queries, Served(q)
    PROVE  Served(q)'
<1> DEFINE m == slot[i].of
<1>1. /\ slot[i].stage = "sent" /\ m \in Mutations /\ slot[i] \in SlotType
      /\ area' = area /\ page' = page /\ DOMAIN slot = Slots
  BY BusyTyped DEF Handle, Types, SlotsTyped
<1>2. Mounted' = Mounted /\ Slots' = Slots /\ \A n : Does(n)' = Does(n)
  BY <1>1, SameArea DEF Mounted, On
<1>3. CASE subject \in DOMAIN Does(m).becomes
  <2>1. slot'[i] = [slot[i] EXCEPT !.stage = "done", !.result = Current]
    BY <1>3 DEF Handle
  <2>2. slot'[i].stage = "done" /\ slot'[i].of = m
    BY <1>1, <2>1 DEF SlotType
  <2>3. ASSUME NEW j \in Slots PROVE StaysDone(j)
    <3>1. CASE j = i
      BY <1>1, <3>1 DEF StaysDone
    <3>2. CASE j # i
      <4>1. slot'[j] \in {slot[j], [slot[j] EXCEPT !.result = Result(slot[j].of)]}
        BY <1>3, <3>2 DEF Handle
      <4>2. slot[j] \in SlotType
        BY BusyTyped
      <4> QED BY <4>1, <4>2 DEF SlotType, StaysDone
    <3> QED BY <3>1, <3>2
  <2>4. /\ answer' = Aged(answer, Does(m).changes) /\ fetch' = Aged(fetch, Does(m).changes)
        /\ behind' = behind \cup (Does(m).leaves \cap Queries)
    BY <1>3 DEF Handle
  <2>5. CASE q \in Does(m).changes
    <3>1. q \in Does(m).sets \cup Does(m).refreshes \cup Does(m).leaves
      BY <1>1, <2>5 DEF Covers, Types, Mutations, Does, Queries
    <3>2. CASE q \in Does(m).leaves
      BY <2>4, <3>2 DEF Served
    <3>3. CASE q \in Does(m).sets \cup Does(m).refreshes
      <4>1. Coming(q)'
        BY <1>2, <2>2, <2>5, <3>3 DEF Coming
      <4> QED BY <4>1 DEF Served
    <3> QED BY <3>1, <3>2, <3>3
  <2>6. CASE q \notin Does(m).changes
    <3>1. answer'[q] = answer[q] /\ fetch'[q] = fetch[q] /\ (q \in behind => q \in behind')
      BY <2>4, <2>6 DEF Aged
    <3>2. Coming(q) => Coming(q)'
      BY <1>1, <2>3, ComingStays
    <3> QED BY <1>2, <3>1, <3>2 DEF Served
  <2> QED BY <2>5, <2>6
<1>4. CASE subject \notin DOMAIN Does(m).becomes
  <2>1. /\ slot' = [slot EXCEPT ![i].stage = "refused"]
        /\ answer' = answer /\ fetch' = fetch /\ behind' = behind
    BY <1>4 DEF Handle
  <2>2. ASSUME NEW j \in Slots PROVE StaysDone(j)
    <3>1. CASE j = i
      BY <1>1, <3>1 DEF StaysDone
    <3>2. CASE j # i
      <4>1. slot'[j] = slot[j]
        BY <1>1, <2>1, <3>2
      <4> QED BY <4>1 DEF StaysDone
    <3> QED BY <3>1, <3>2
  <2>3. Coming(q) => Coming(q)'
    BY <1>1, <2>2, ComingStays
  <2> QED BY <1>2, <2>1, <2>3 DEF Served
<1> QED BY <1>3, <1>4

LEMMA LostServed ==
    ASSUME Types, NEW i \in Slots, Lost(i) \/ Refused(i), NEW q \in Queries, Served(q)
    PROVE  Served(q)'
<1>1. /\ slot' = [slot EXCEPT ![i] = Free] /\ DOMAIN slot = Slots
      /\ area' = area /\ page' = page /\ answer' = answer /\ fetch' = fetch
      /\ behind \subseteq behind'
  BY DEF Lost, Refused, Types, SlotsTyped
<1>2. Mounted' = Mounted
  BY <1>1 DEF Mounted, On
<1>3. CASE slot[i].stage = "done" /\ q \in Does(slot[i].of).changes
  <2>1. behind' = behind \cup ((Does(slot[i].of).changes \cap Queries) \ UpToDate)
    BY <1>3 DEF Lost, Refused
  <2> QED BY <1>1, <1>3, <2>1 DEF Served, UpToDate
<1>4. CASE ~(slot[i].stage = "done" /\ q \in Does(slot[i].of).changes)
  <2>1. Slots' = Slots /\ \A m : Does(m)' = Does(m)
    BY <1>1, SameArea
  <2>2. Coming(q) => Coming(q)'
    BY <1>1, <1>4, <2>1 DEF Coming
  <2> QED BY <1>1, <1>2, <2>2 DEF Served
<1> QED BY <1>3, <1>4

\* A mutation's answer has come: what it sets is current, or known to be
\* behind; what it refreshes is fetched anew, or known to be overtaken.
LEMMA DoneServed ==
    ASSUME Types, NEW i \in Slots, Done(i), NEW q \in Queries, Served(q)
    PROVE  Served(q)'
<1> DEFINE m == Does(slot[i].of)
           f == Invalidated(m.refreshes)
<1>1. /\ slot[i].stage = "done" /\ area' = area
      /\ answer'[q] = IF q \in m.sets THEN slot[i].result
                      ELSE IF Amends(slot[i].of, q) THEN Amended(slot[i].of, q)
                      ELSE answer[q]
      /\ behind' = (behind \ {x \in m.sets : slot[i].result = Current}) \cup Overtaking(i)
  BY DEF Done
<1>2. /\ f[q] # Idle => fetch'[q] = f[q]
      /\ f[q] = Idle => \/ fetch'[q] = Asked
                        \/ fetch'[q] = Idle /\ (q \in Mounted' => q \in Mounted)
  BY DoneFetches
<1>3. f[q] = IF Restarts(q, m.refreshes) \/ (q \in m.refreshes \cap Mounted /\ fetch[q] = Idle)
             THEN Asked ELSE fetch[q]
  BY DEF Invalidated
<1>4. Idle # Asked /\ Idle # Current
  BY AnswersDiffer
<1>5. Restarts(q, m.refreshes) => Served(q)'
  <2> SUFFICES ASSUME Restarts(q, m.refreshes) PROVE Served(q)'
    OBVIOUS
  <2>1. fetch'[q] = Asked
    BY <1>2, <1>3, <1>4
  <2> QED BY <2>1 DEF Served
<1>6. CASE q \in m.sets /\ ~Restarts(q, m.refreshes)
  <2>1. CASE slot[i].result = Current
    BY <1>1, <1>6, <2>1 DEF Served
  <2>2. CASE slot[i].result # Current
    <3>1. q \in Overtaking(i)
      BY <1>6, <2>2 DEF Overtaking
    <3> QED BY <1>1, <3>1 DEF Served
  <2> QED BY <2>1, <2>2
<1>7. CASE q \in m.refreshes \ m.sets /\ ~Restarts(q, m.refreshes)
  <2>1. CASE fetch[q] \notin {Idle, Asked, Current}
    <3>1. q \in Overtaking(i)
      BY <1>7, <2>1 DEF Overtaking
    <3> QED BY <1>1, <3>1 DEF Served
  <2>2. CASE fetch[q] \in {Asked, Current}
    <3>1. fetch'[q] = fetch[q]
      BY <1>2, <1>3, <1>4, <1>7, <2>2
    <3> QED BY <2>2, <3>1 DEF Served
  <2>3. CASE fetch[q] = Idle /\ q \in Mounted
    <3>1. fetch'[q] = Asked
      BY <1>2, <1>3, <1>4, <1>7, <2>3
    <3> QED BY <3>1 DEF Served
  <2>4. CASE fetch[q] = Idle /\ q \notin Mounted
    <3>1. f[q] = Idle
      BY <1>3, <1>7, <2>4
    <3>2. fetch'[q] = Asked \/ (fetch'[q] = Idle /\ q \notin Mounted')
      BY <1>2, <2>4, <3>1
    <3> QED BY <3>2 DEF Served
  <2> QED BY <2>1, <2>2, <2>3, <2>4
<1>8. CASE q \notin m.sets \cup m.refreshes
  <2>1. f[q] = fetch[q]
    BY <1>3, <1>8 DEF Restarts
  <2>2. answer[q] = Current => answer'[q] = Current
    BY <1>1, <1>8, AnswersDiffer DEF Amends
  <2>3. q \in behind => q \in behind'
    BY <1>1, <1>8
  <2>4. Coming(q) => Coming(q)'
    <3> SUFFICES ASSUME Coming(q) PROVE Coming(q)'
      OBVIOUS
    <3>1. PICK j \in Slots : /\ slot[j].stage = "done" /\ q \in Does(slot[j].of).changes
                             /\ q \in Does(slot[j].of).sets \cup Does(slot[j].of).refreshes
      BY DEF Coming
    <3>2. j # i
      BY <1>8, <3>1
    <3>3. slot'[j].of = slot[j].of /\ slot'[j].stage = "done"
      BY <3>1, <3>2, DoneSlots
    <3>4. Slots' = Slots /\ \A n : Does(n)' = Does(n)
      BY <1>1, SameArea
    <3> QED BY <3>1, <3>3, <3>4 DEF Coming
  <2>5. fetch[q] \in {Asked, Current} => fetch'[q] = fetch[q]
    BY <1>2, <1>4, <2>1
  <2>6. q \notin Mounted /\ fetch[q] = Idle
            => fetch'[q] = Asked \/ (fetch'[q] = Idle /\ q \notin Mounted')
    BY <1>2, <2>1
  <2> HIDE DEF m, f
  <2> QED BY <2>2, <2>3, <2>4, <2>5, <2>6 DEF Served
<1> QED BY <1>5, <1>6, <1>7, <1>8

LEMMA RefreshedServed ==
    ASSUME Types, NEW i \in Slots, Refreshed(i), NEW q \in Queries, Served(q)
    PROVE  Served(q)'
<1>1. /\ slot[i].stage = "refreshing" /\ area' = area /\ answer' = answer /\ behind' = behind
      /\ Succeed(i, fetch, slot) /\ fetch \in [Queries -> Fetches]
  BY DEF Refreshed, Types
<1>2. /\ fetch[q] # Idle => fetch'[q] = fetch[q]
      /\ fetch[q] = Idle => \/ fetch'[q] = Asked
                            \/ fetch'[q] = Idle /\ (q \in Mounted' => q \in Mounted)
  BY <1>1, SucceedFetches
<1>3. ASSUME NEW j \in Slots PROVE StaysDone(j)
  <2>1. /\ slot'[j].of = IF j = i THEN Nothing ELSE slot[j].of
        /\ slot'[j].stage = IF j = i THEN "free" ELSE slot[j].stage
    BY RefreshedSlots
  <2> QED BY <1>1, <2>1 DEF StaysDone
<1>4. Coming(q) => Coming(q)'
  BY <1>1, <1>3, ComingStays
<1> QED BY <1>1, <1>2, <1>4, AnswersDiffer DEF Served

AllServed == \A q \in Queries : Served(q)

LEMMA ServedStep ==
    ASSUME Covers, Types, AllServed, [Next]_vars
    PROVE  AllServed'
<1>1. Queries' = Queries
  BY AreaStays, SameArea
<1>2. ASSUME NEW q \in Queries PROVE Served(q)'
  <2>1. Served(q)
    BY DEF AllServed
  <2>2. CASE UNCHANGED vars
    <3>1. Mounted' = Mounted /\ (Coming(q) => Coming(q)')
      BY <2>2, ComingStays DEF vars, Mounted, On, StaysDone
    <3> QED BY <2>1, <2>2, <3>1 DEF vars, Served
  <2>3. CASE \E x \in Queries : FetchSettles(x)
    BY <2>1, <2>3, FetchServed
  <2>4. CASE Render \/ UserActs
    BY <2>1, <2>4, UserServed
  <2>5. ASSUME NEW i \in Slots, MutationSettles(i) PROVE Served(q)'
    BY <2>1, <2>5, HandleServed, LostServed, DoneServed, RefreshedServed DEF MutationSettles
  <2> QED BY <2>2, <2>3, <2>4, <2>5 DEF Next
<1> QED BY <1>1, <1>2 DEF AllServed

LEMMA ServedInit == Init => AllServed
<1> SUFFICES ASSUME Init, NEW q \in Queries PROVE Served(q)
  BY DEF AllServed
<1>1. fetch[q] = IF q \in Mounted THEN Asked ELSE Idle
  BY DEF Init
<1> QED BY <1>1 DEF Served

(* SettledPageIsCurrent, of any pages whose hooks set, refresh or          *)
(* knowingly leave all that their mutations change: a page at rest shows   *)
(* what the server has, though fetches and mutations finish in any order.  *)
THEOREM RestIsCurrent ==
    ASSUME Covers
    PROVE  Spec => []SettledPageIsCurrent
<1>1. Types /\ AllServed /\ [Next]_vars => AllServed'
  BY ServedStep
<1>2. Types /\ AllServed => SettledPageIsCurrent
  <2> SUFFICES ASSUME Types, AllServed, \A q \in Mounted : fetch[q] = Idle,
                      \A i \in Slots : ~Busy(i), NEW q \in Mounted \ behind
               PROVE  answer[q] = Current
    BY DEF SettledPageIsCurrent
  <2>1. q \in Queries /\ fetch[q] = Idle
    BY Tables DEF Mounted, Types
  <2>2. ~Coming(q)
    BY BusyTyped DEF Coming
  <2>3. Served(q)
    BY <2>1 DEF AllServed
  <2> QED BY <2>1, <2>2, <2>3, AnswersDiffer DEF Served
<1> QED BY <1>1, <1>2, ServedInit, AlwaysTyped, PTL DEF Spec

-----------------------------------------------------------------------------
(* A panel that waits closes on refreshed answers.  Where panels wait, the *)
(* area has one mutation under way at a time; another one could change an  *)
(* answer meanwhile.                                                       *)
\* What the panel has stopped waiting for is current, or known to be behind.
Fresh(i) ==
    slot[i].stage = "refreshing" =>
        /\ Does(slot[i].of).awaits
        /\ slot[i].here => \A q \in Does(slot[i].of).refreshes \cap Mounted :
               q \in slot[i].waits \/ answer[q] = Current \/ q \in behind

LEMMA Alone ==
    ASSUME OneAtATime, Types, NEW i \in Slots, slot[i].stage = "refreshing", Fresh(i)
    PROVE  \A j \in Slots : j = i
<1>1. slot[i].of \in Mutations /\ Does(slot[i].of).awaits
  BY BusyTyped DEF Fresh
<1>2. Catalog[area].atOnce = 1
  BY <1>1 DEF OneAtATime, Types, Mutations, Does
<1> QED BY <1>2 DEF Slots

\* Nobody else waits for an answer but the one mutation under way.
LEMMA FreshStep ==
    ASSUME OneAtATime, Types, AllServed, Next, NEW i \in Slots, Fresh(i)
    PROVE  Fresh(i)'
<1>0. /\ area' = area /\ \A m : Does(m)' = Does(m)
      /\ page' = page => Mounted' = Mounted
  BY AreaStays, SameArea DEF Mounted, On
<1>t. slot[i] \in SlotType /\ DOMAIN slot = Slots
  BY BusyTyped DEF Types, SlotsTyped
\* Same slot, same page, and answers no worse.
<1>a. ASSUME slot'[i].stage = slot[i].stage, slot'[i].of = slot[i].of,
             slot'[i].here => slot[i].here /\ page' = page,
             slot[i].stage = "refreshing" /\ slot'[i].here =>
                \A q \in Does(slot[i].of).refreshes \cap Mounted :
                    (q \in slot[i].waits \/ answer[q] = Current \/ q \in behind) =>
                      (q \in slot'[i].waits \/ answer'[q] = Current \/ q \in behind')
      PROVE  Fresh(i)'
  BY <1>0, <1>a DEF Fresh
<1>b. ASSUME slot'[i].stage # "refreshing" PROVE Fresh(i)'
  BY <1>b DEF Fresh
<1>1. CASE Focus \/ Render \/ (\E q \in Queries : ServerReads(q)) \/ \E m \in Mutations : OpenPanel(m)
  <2>1. slot' = slot /\ page' = page /\ answer' = answer /\ behind' = behind
    BY <1>1 DEF Focus, Render, ServerReads, OpenPanel
  <2> QED BY <1>a, <2>1
<1>2. ASSUME NEW x \in Queries, Arrives(x) \/ Fails(x) PROVE Fresh(i)'
  <2>1. slot' = Released({x}) /\ page' = page
    BY <1>2 DEF Arrives, Fails, GivenUp
  <2>2. /\ slot'[i].stage = slot[i].stage /\ slot'[i].of = slot[i].of
        /\ slot'[i].here = slot[i].here /\ slot'[i].waits = slot[i].waits \ {x}
    BY <2>1, ReleasedSlots
  <2>3. ASSUME slot[i].stage = "refreshing", slot'[i].here,
               NEW q \in Does(slot[i].of).refreshes \cap Mounted,
               q \in slot[i].waits \/ answer[q] = Current \/ q \in behind
        PROVE  q \in slot'[i].waits \/ answer'[q] = Current \/ q \in behind'
    <3>0. q \in Queries
      BY Tables DEF Mounted, Types
    <3>1. CASE q # x
      <4>1. answer'[q] = answer[q] /\ (q \in behind => q \in behind')
        BY <1>2, <3>0, <3>1 DEF Arrives, Fails, Types
      <4> QED BY <2>2, <2>3, <3>1, <4>1
    <3>2. CASE q = x /\ Arrives(x)
      <4>1. answer'[q] = fetch[q] /\ fetch[q] \notin {Idle, Asked}
        BY <3>0, <3>2 DEF Arrives, Types
      <4>2. CASE fetch[q] = Current
        BY <4>1, <4>2
      <4>3. CASE fetch[q] # Current
        <5>1. behind' = behind \cup ({q} \cap UpToDate)
          BY <3>2, <4>3 DEF Arrives
        <5>2. ~Coming(q)
          <6>1. \A j \in Slots : j = i
            BY <2>3, Alone
          <6> QED BY <2>3, <6>1 DEF Coming
        <5>3. answer[q] = Current \/ q \in behind
          BY <3>0, <4>1, <4>3, <5>2 DEF AllServed, Served
        <5> QED BY <3>0, <5>1, <5>3 DEF UpToDate
      <4> QED BY <4>2, <4>3
    <3>3. CASE q = x /\ Fails(x)
      BY <3>0, <3>3 DEF Fails, UpToDate
    <3> QED BY <1>2, <3>1, <3>2, <3>3
  <2> QED BY <1>a, <2>1, <2>2, <2>3
<1>3. CASE ClosePanel
  <2>1. slot'[i] \in {slot[i], [slot[i] EXCEPT !.shown = FALSE]}
        /\ page' = page /\ answer' = answer /\ behind' = behind
    BY <1>3 DEF ClosePanel
  <2>2. /\ slot'[i].stage = slot[i].stage /\ slot'[i].of = slot[i].of
        /\ slot'[i].here = slot[i].here /\ slot'[i].waits = slot[i].waits
    BY <1>t, <2>1 DEF SlotType
  <2> QED BY <1>a, <2>1, <2>2
<1>4. ASSUME NEW m \in Mutations, Submit(m) PROVE Fresh(i)'
  <2>1. PICK k \in Slots :
             /\ ~Busy(k)
             /\ slot'[k].of = m /\ slot'[k].stage = "sent" /\ slot'[k].waits = {}
             /\ slot'[k].here = TRUE /\ slot'[k].shown = TRUE
             /\ \A j \in Slots \ {k} : slot'[j] = Released(Does(m).cancels)[j]
    BY <1>4, SubmitSlots
  <2>2. CASE k = i
    BY <1>b, <2>1, <2>2
  <2>3. CASE k # i
    <3>1. slot'[i].stage = slot[i].stage
      BY <2>1, <2>3, ReleasedSlots
    <3>2. slot[i].stage # "refreshing"
      BY <2>3, Alone
    <3> QED BY <1>b, <3>1, <3>2
  <2> QED BY <2>2, <2>3
<1>5. ASSUME NEW p \in Pages, Visit(p) PROVE Fresh(i)'
  <2>1. Mount(p, fetch, slot) /\ SlotsTyped(slot)
    BY <1>5 DEF Visit, Types
  <2>2. slot'[i].of = slot[i].of /\ slot'[i].stage = slot[i].stage /\ slot'[i].here = FALSE
    BY <2>1, MountSlots
  <2> QED BY <1>a, <2>2
<1>6. ASSUME NEW k \in Slots, Handle(k) PROVE Fresh(i)'
  <2>1. slot[k].stage = "sent"
    BY <1>6 DEF Handle
  <2>2. slot[i].stage # "refreshing"
    BY <2>1, Alone
  <2>3. slot'[i].stage # "refreshing"
    <3>1. CASE subject \in DOMAIN Does(slot[k].of).becomes
      <4>1. slot'[i] \in {slot[i], [slot[i] EXCEPT !.result = Result(slot[i].of)],
                          [slot[k] EXCEPT !.stage = "done", !.result = Current]}
        BY <1>6, <3>1 DEF Handle
      <4>2. slot[k] \in SlotType
        BY BusyTyped
      <4> QED BY <1>t, <2>2, <4>1, <4>2 DEF SlotType
    <3>2. CASE subject \notin DOMAIN Does(slot[k].of).becomes
      <4>1. slot' = [slot EXCEPT ![k].stage = "refused"]
        BY <1>6, <3>2 DEF Handle
      <4>2. slot'[i] \in {slot[i], [slot[i] EXCEPT !.stage = "refused"]}
        BY <1>t, <4>1
      <4> QED BY <1>t, <2>2, <4>2 DEF SlotType
    <3> QED BY <3>1, <3>2
  <2> QED BY <1>b, <2>3
<1>7. ASSUME NEW k \in Slots, Lost(k) \/ Refused(k) PROVE Fresh(i)'
  <2>1. /\ slot' = [slot EXCEPT ![k] = Free] /\ slot[k].stage # "refreshing"
    BY <1>7 DEF Lost, Refused
  <2>2. CASE k = i
    <3>1. slot'[i] = Free
      BY <1>t, <2>1, <2>2
    <3> QED BY <1>b, <3>1 DEF Free
  <2>3. CASE k # i
    <3>1. slot'[i] = slot[i]
      BY <2>1, <2>3
    <3>2. slot[i].stage # "refreshing"
      BY <2>3, Alone
    <3> QED BY <1>b, <3>1, <3>2
  <2> QED BY <2>2, <2>3
<1>8. ASSUME NEW k \in Slots, Refreshed(k) PROVE Fresh(i)'
  <2>1. slot'[i].stage = IF i = k THEN "free" ELSE slot[i].stage
    BY <1>8, RefreshedSlots
  <2>2. CASE k = i
    BY <1>b, <2>1, <2>2
  <2>3. CASE k # i
    BY <1>b, <2>1, <2>3, Alone
  <2> QED BY <2>2, <2>3
<1>9. ASSUME NEW k \in Slots, Done(k) PROVE Fresh(i)'
  <2>1. CASE k # i
    <3>1. slot'[i].stage = slot[i].stage
      BY <1>9, <2>1, DoneSlots
    <3> QED BY <1>b, <2>1, <3>1, Alone
  <2>2. CASE k = i
    <3> DEFINE m == Does(slot[i].of)
    <3>1. SUFFICES ASSUME slot'[i].stage = "refreshing" PROVE Fresh(i)'
      BY <1>b
    <3>2. /\ slot'[i].of = slot[i].of /\ m.awaits /\ slot'[i].waits = Awaited(m)
      BY <1>9, <2>2, <3>1, DoneSlots
    <3>3. slot'[i].here => page' = page
      BY <1>9, <2>2, DoneSlots
    <3>4. page' = page => \A q \in m.refreshes \cap Mounted' : q \in slot'[i].waits
      BY <1>0, <3>2 DEF Awaited
    <3> HIDE DEF m
    <3>5. Does(slot[i].of)' = m
      BY <1>0, <3>2 DEF m, Does
    <3>6. Fresh(i)' <=>
            (slot'[i].stage = "refreshing" =>
                /\ m.awaits
                /\ slot'[i].here => \A q \in m.refreshes \cap Mounted' :
                        q \in slot'[i].waits \/ answer'[q] = Current \/ q \in behind')
      BY <3>5 DEF Fresh
    <3> QED BY <3>2, <3>3, <3>4, <3>6
  <2> QED BY <2>1, <2>2
<1> QED BY <1>1, <1>2, <1>3, <1>4, <1>5, <1>6, <1>7, <1>8, <1>9
     DEF Next, UserActs, FetchSettles, MutationSettles

\* Only the end of its wait frees a mutation that waits for the cache.
LEMMA FreshEnds ==
    ASSUME OneAtATime, Types, [Next]_vars, NEW i \in Slots, Fresh(i),
           slot[i].stage = "refreshing", slot[i].here, slot'[i].of = Nothing,
           NEW q \in Does(slot[i].of).refreshes \cap Mounted
    PROVE  answer'[q] = Current \/ q \in behind'
<1>1. slot[i].of # Nothing
  BY BusyTyped, Tables
<1>2. \A j \in Slots : j = i
  BY Alone
<1>3. CASE Refreshed(i)
  <2>1. slot[i].waits = {} /\ answer' = answer /\ behind' = behind
    BY <1>3 DEF Refreshed
  <2> QED BY <2>1 DEF Fresh
<1>4. CASE UNCHANGED vars
  BY <1>1, <1>4 DEF vars
<1>5. CASE \E x \in Queries : FetchSettles(x)
  <2>1. PICK x \in Queries : ServerReads(x) \/ Arrives(x) \/ Fails(x)
    BY <1>5 DEF FetchSettles
  <2>2. slot' = slot \/ slot' = Released({x})
    BY <2>1 DEF ServerReads, Arrives, Fails, GivenUp
  <2> QED BY <1>1, <2>2, ReleasedSlots
<1>6. CASE Render \/ UserActs
  <2>1. CASE Focus \/ Render \/ \E m \in Mutations : OpenPanel(m)
    BY <1>1, <2>1 DEF Focus, Render, OpenPanel
  <2>2. CASE ClosePanel
    <3>1. slot'[i] \in {slot[i], [slot[i] EXCEPT !.shown = FALSE]}
      BY <2>2 DEF ClosePanel
    <3>2. slot[i] \in SlotType
      BY BusyTyped
    <3> QED BY <1>1, <3>1, <3>2 DEF SlotType
  <2>3. ASSUME NEW m \in Mutations, Submit(m) PROVE FALSE
    <3>1. PICK k \in Slots : ~Busy(k)
      BY <2>3 DEF Submit
    <3> QED BY <1>1, <1>2, <3>1 DEF Busy
  <2>4. ASSUME NEW p \in Pages, Visit(p) PROVE FALSE
    <3>1. slot'[i].of = slot[i].of
      BY <2>4, VisitSlots
    <3> QED BY <1>1, <3>1
  <2> QED BY <1>6, <2>1, <2>2, <2>3, <2>4 DEF UserActs
<1>7. ASSUME NEW k \in Slots, MutationSettles(k) PROVE Refreshed(i)
  <2>1. k = i
    BY <1>2
  <2> QED BY <1>7, <2>1 DEF MutationSettles, Handle, Lost, Refused, Done
<1> QED BY <1>3, <1>4, <1>5, <1>6, <1>7 DEF Next

(* SuccessIsFresh, of such pages where one mutation is under way at a      *)
(* time: a panel that awaits the refetches of its hook closes on           *)
(* refreshed answers, although some of them were given up, failed or were  *)
(* answered before the mutation.                                           *)
THEOREM ClosesFresh ==
    ASSUME Covers, OneAtATime
    PROVE  Spec => SuccessIsFresh
<1> DEFINE Inv == \A i \in Slots : Fresh(i)
<1>1. Init => Inv
  BY DEF Init, Fresh, Free
<1>2. Types /\ AllServed /\ Inv /\ [Next]_vars => Inv'
  <2> SUFFICES ASSUME Types, AllServed, Inv, [Next]_vars PROVE Inv'
    OBVIOUS
  <2>1. Slots' = Slots
    BY AreaStays, SameArea
  <2>2. CASE UNCHANGED vars
    BY <2>1, <2>2 DEF vars, Fresh, Does, Mounted, On
  <2>3. CASE Next
    BY <2>1, <2>3, FreshStep
  <2> QED BY <2>2, <2>3
<1>3. Types /\ AllServed /\ [Next]_vars => AllServed'
  BY ServedStep
<1>4. Types /\ Inv /\ [Next]_vars =>
        [\A i \in Slots :
           (/\ slot[i].stage = "refreshing" /\ slot[i].here
            /\ slot'[i].of = Nothing)
               => \A q \in Does(slot[i].of).refreshes \cap Mounted :
                      \/ answer'[q] = Current \/ q \in behind'
                      \/ \E j \in Slots \ {i} : Busy(j)]_vars
  BY FreshEnds
<1> QED BY <1>1, <1>2, <1>3, <1>4, ServedInit, AlwaysTyped, PTL DEF Spec, SuccessIsFresh

-----------------------------------------------------------------------------
(* What is offered is accepted.  An answer may be old, and a panel open    *)
(* since an answer older still: what they offer of the mutations whose     *)
(* panels no longer look at it must have stayed acceptable.                *)
Kept(m) == Does(m).reads # Nothing /\ Does(m).kept

Accepted(m) == subject \in MadeFor(Does(m))

Keeps(x) == \A m \in Mutations : Kept(m) /\ m \in x.offers => Accepted(m)

SlotsKeep(s) == \A i \in Slots : Keeps(s[i].result)

Honest ==
    /\ \A q \in Queries : Keeps(answer[q]) /\ Keeps(fetch[q])
    /\ SlotsKeep(slot)
    /\ panel \in Mutations /\ Kept(panel) => Accepted(panel)

\* What Agrees says of the area.
LEMMA AreaAgrees ==
    ASSUME Agrees, Types, NEW m \in Mutations, Does(m).reads # Nothing
    PROVE  /\ Does(m).offered \subseteq MadeFor(Does(m))
           /\ Does(m).kept =>
                /\ Does(m).reads \in Queries
                /\ \A n \in Mutations :
                     /\ m \notin Does(n).reveals
                     /\ \A s \in MadeFor(Does(m)) \cap DOMAIN Does(n).becomes :
                          Does(n).becomes[s] \in MadeFor(Does(m))
BY DEF Agrees, Types, Mutations, Does, Queries

\* No step makes a subject unacceptable to a mutation whose panel is kept.
LEMMA AcceptedStays ==
    ASSUME Agrees, Types, Next, NEW m \in Mutations, Kept(m), Accepted(m)
    PROVE  Accepted(m)'
<1>1. Does(m)' = Does(m)
  BY AreaStays, SameArea
<1>2. CASE subject' = subject
  BY <1>1, <1>2 DEF Accepted, MadeFor
<1>3. ASSUME NEW i \in Slots, Handle(i), subject \in DOMAIN Does(slot[i].of).becomes
      PROVE  Accepted(m)'
  <2>1. slot[i].of \in Mutations /\ subject' = Does(slot[i].of).becomes[subject]
    BY <1>3, BusyTyped DEF Handle
  <2>2. subject' \in MadeFor(Does(m))
    BY <1>3, <2>1, AreaAgrees DEF Kept, Accepted
  <2> QED BY <1>1, <2>2 DEF Accepted, MadeFor
<1>4. CASE \E i \in Slots : MutationSettles(i)
  BY <1>2, <1>3, <1>4 DEF MutationSettles, Handle, Lost, Refused, Done, Refreshed
<1>5. CASE ~\E i \in Slots : MutationSettles(i)
  BY <1>2, <1>5 DEF Next, FetchSettles, ServerReads, Arrives, Fails, Render, UserActs, Focus,
     ClosePanel, OpenPanel, Submit, Visit
<1> QED BY <1>4, <1>5

\* What the model puts into the cache besides what is in it.
LEMMA NewKeeps ==
    ASSUME Agrees, Types
    PROVE  /\ Keeps(Unanswered) /\ Keeps(Current) /\ Keeps(Idle) /\ Keeps(Asked)
           /\ \A q : Keeps(Before(q))
           /\ \A m : Keeps(Result(m))
           /\ Keeps(Free.result)
<1>1. /\ Keeps(Unanswered) /\ Keeps(Current) /\ Keeps(Idle) /\ Keeps(Asked)
      /\ Keeps(Old({}))
  BY DEF Keeps, Unanswered, Current, Idle, Asked, Old, Answer
<1>2. ASSUME NEW q PROVE Keeps(Before(q))
  <2>1. Before(q).offers = {m \in Mutations : /\ Does(m).reads = q
                                             /\ subject \in Does(m).offered}
    BY AnswersDiffer DEF Before
  <2> QED BY <2>1, AreaAgrees DEF Keeps, Kept, Accepted
<1>3. \A m : Keeps(Result(m))
  BY <1>1, <1>2 DEF Result
<1>4. Free.result = Unanswered
  BY DEF Free
<1> QED BY <1>1, <1>2, <1>3, <1>4

\* What is mounted, and what a mutation leaves behind when it is over.
LEMMA SucceedKeeps ==
    ASSUME Agrees, Types, NEW i \in Slots,
           NEW f, \A q \in Queries : Keeps(f[q]),
           NEW s, SlotsTyped(s), SlotsKeep(s), Succeed(i, f, s)
    PROVE  /\ \A q \in Queries : Keeps(fetch'[q])
           /\ SlotsKeep(slot')
           /\ panel' \in {panel, Nothing}
<1> DEFINE t == [s EXCEPT ![i] = Free]
<1>1. SlotsKeep(t) /\ SlotsTyped(t)
  <2>1. SlotsTyped(t)
    BY FreeTyped, SlotsEdited
  <2>2. \A j \in Slots : t[j] \in {s[j], Free}
    BY DEF SlotsTyped
  <2> HIDE DEF t
  <2>3. SlotsKeep(t)
    BY <2>2, NewKeeps DEF SlotsKeep
  <2> QED BY <2>1, <2>3
<1>2. CASE Moves(i)
  <2>1. PICK p : Mount(p, f, t)
    BY <1>2 DEF Succeed
  <2> HIDE DEF t
  <2>2. \A j \in Slots : slot'[j].result = t[j].result
    BY <1>1, <2>1 DEF Mount, SlotsTyped, SlotTyped, SlotType
  <2> QED BY <1>1, <2>1, <2>2, NewKeeps DEF Mount, SlotsKeep
<1>3. CASE ~Moves(i)
  BY <1>1, <1>3 DEF Succeed
<1> QED BY <1>2, <1>3

\* The slots a refetch gives up keep their answers.
LEMMA ReleasedKeeps ==
    ASSUME Types, SlotsKeep(slot)
    PROVE  \A qs : SlotsKeep(Released(qs))
<1>1. \A i \in Slots : \A qs : Released(qs)[i].result = slot[i].result
  BY BusyTyped DEF Released, SlotType
<1> QED BY <1>1 DEF SlotsKeep

\* What a step leaves in the cache, in the slots and open, by what was
\* acceptable before it.
StepKeeps ==
    /\ \A q \in Queries : Keeps(answer'[q]) /\ Keeps(fetch'[q])
    /\ SlotsKeep(slot')
    /\ panel' \in Mutations /\ Kept(panel') => Accepted(panel')

LEMMA FetchKeeps ==
    ASSUME Agrees, Types, Honest, Focus \/ \E q \in Queries : FetchSettles(q)
    PROVE  StepKeeps
<1>1. panel' = panel
  BY DEF FetchSettles, ServerReads, Arrives, Fails, Focus
<1>2. SlotsKeep(slot')
  <2>1. slot' = slot \/ \E qs : slot' = Released(qs)
    BY DEF FetchSettles, ServerReads, Arrives, Fails, Focus, GivenUp
  <2> QED BY <2>1, ReleasedKeeps DEF Honest
<1>3. ASSUME NEW q \in Queries
      PROVE  /\ answer'[q] \in {answer[q], fetch[q]}
             /\ fetch'[q] \in {fetch[q], Idle, Asked, Current}
  BY DEF FetchSettles, ServerReads, Arrives, Fails, Focus, Joined, Types
<1>4. \A q \in Queries : Keeps(answer'[q]) /\ Keeps(fetch'[q])
  BY <1>3, NewKeeps DEF Honest
<1> QED BY <1>1, <1>2, <1>4 DEF StepKeeps, Honest

\* A panel opens on an answer that offers its mutation, though the answer may
\* be old by now.
LEMMA OfferKeeps ==
    ASSUME Agrees, Types, Honest, NEW m \in Mutations, Offered(m), Kept(m), panel # m
    PROVE  Accepted(m)
<1>1. Offers(Does(m).reads, m) /\ Does(m).reads \in Queries
  BY AreaAgrees DEF Offered, Kept
<1>2. CASE answer[Does(m).reads] = Current
  BY <1>1, <1>2, AreaAgrees DEF Offers, Kept, Accepted
<1>3. CASE answer[Does(m).reads] # Current
  BY <1>1, <1>3 DEF Offers, Honest, Keeps
<1> QED BY <1>2, <1>3

LEMMA UserKeeps ==
    ASSUME Agrees, Types, Honest, Render \/ UserActs
    PROVE  StepKeeps
<1>1. CASE Render
  BY <1>1 DEF Render, StepKeeps, Honest
<1>2. CASE Focus
  BY <1>2, FetchKeeps
<1>3. CASE ClosePanel
  <2>1. panel' = Nothing /\ answer' = answer /\ fetch' = fetch
    BY <1>3 DEF ClosePanel
  <2>2. \A i \in Slots : slot'[i].result = slot[i].result
    BY <1>3, BusyTyped DEF ClosePanel, SlotType
  <2> QED BY <2>1, <2>2, Tables DEF StepKeeps, Honest, SlotsKeep
<1>4. ASSUME NEW m \in Mutations, OpenPanel(m) PROVE StepKeeps
  BY <1>4, OfferKeeps DEF OpenPanel, StepKeeps, Honest
<1>5. ASSUME NEW m \in Mutations, Submit(m) PROVE StepKeeps
  <2> DEFINE new == [Free EXCEPT !.of = m, !.stage = "sent", !.here = TRUE, !.shown = TRUE]
             s == Released(Does(m).cancels)
  <2>1. PICK i \in Slots : slot' = [s EXCEPT ![i] = new]
    BY <1>5 DEF Submit
  <2>2. SlotsKeep(s) /\ DOMAIN s = Slots
    BY ReleasedKeeps DEF Honest, Released
  <2>3. Keeps(new.result)
    <3>1. new.result = Free.result
      BY DEF Free
    <3> QED BY <3>1, NewKeeps
  <2> HIDE DEF new, s
  <2>4. SlotsKeep(slot')
    BY <2>1, <2>2, <2>3 DEF SlotsKeep
  <2>5. answer' = answer /\ panel' = panel /\ \A q \in Queries : fetch'[q] \in {fetch[q], Idle}
    BY <1>5 DEF Submit
  <2> QED BY <2>4, <2>5, NewKeeps DEF StepKeeps, Honest
<1>6. ASSUME NEW p \in Pages, Visit(p) PROVE StepKeeps
  <2>1. Mount(p, fetch, slot) /\ answer' = answer
    BY <1>6 DEF Visit
  <2>2. \A i \in Slots : slot'[i].result = slot[i].result
    BY <2>1, BusyTyped DEF Mount, SlotType
  <2>3. \A q \in Queries : fetch'[q] \in {fetch[q], Asked}
    BY <2>1 DEF Mount
  <2>4. panel' = Nothing
    BY <2>1 DEF Mount
  <2> QED BY <2>1, <2>2, <2>3, <2>4, NewKeeps, Tables DEF StepKeeps, Honest, SlotsKeep
<1> QED BY <1>1, <1>2, <1>3, <1>4, <1>5, <1>6 DEF UserActs

LEMMA HandleKeeps ==
    ASSUME Agrees, Types, Honest, NEW i \in Slots, Handle(i)
    PROVE  StepKeeps
<1> DEFINE m == slot[i].of
<1>1. panel' = panel
  BY DEF Handle
<1>2. CASE subject \in DOMAIN Does(m).becomes
  <2>1. /\ answer' = Aged(answer, Does(m).changes)
        /\ fetch' = Aged(fetch, Does(m).changes)
    BY <1>2 DEF Handle
  <2>2. \A q \in Queries : /\ answer'[q] \in {answer[q], Before(q)}
                           /\ fetch'[q] \in {fetch[q], Before(q)}
    BY <2>1 DEF Aged
  <2>3. ASSUME NEW j \in Slots
        PROVE  slot'[j].result \in {slot[j].result, Current, Result(slot[j].of)}
    <3>1. slot'[j] \in {slot[j], [slot[i] EXCEPT !.stage = "done", !.result = Current],
                        [slot[j] EXCEPT !.result = Result(slot[j].of)]}
      BY <1>2 DEF Handle
    <3>2. slot[j] \in SlotType /\ slot[i] \in SlotType
      BY BusyTyped
    <3> QED BY <3>1, <3>2 DEF SlotType
  <2> HIDE DEF m
  <2>4. SlotsKeep(slot')
    BY <2>3, NewKeeps DEF SlotsKeep, Honest
  <2> QED BY <1>1, <2>2, <2>4, NewKeeps DEF StepKeeps, Honest
<1>3. CASE subject \notin DOMAIN Does(m).becomes
  <2>1. /\ slot' = [slot EXCEPT ![i].stage = "refused"]
        /\ answer' = answer /\ fetch' = fetch
    BY <1>3 DEF Handle
  <2>2. \A j \in Slots : slot'[j].result = slot[j].result
    BY <2>1, BusyTyped DEF SlotType, Types, SlotsTyped
  <2> QED BY <1>1, <2>1, <2>2 DEF StepKeeps, Honest, SlotsKeep
<1> QED BY <1>2, <1>3

LEMMA DoneKeeps ==
    ASSUME Agrees, Types, Honest, NEW i \in Slots, Done(i)
    PROVE  StepKeeps
<1> DEFINE m == Does(slot[i].of)
           f == Invalidated(m.refreshes)
           s == Released({q \in Queries : Restarts(q, m.refreshes)})
<1>1. slot[i].of \in Mutations
  BY BusyTyped DEF Done
<1>2. ASSUME NEW q \in Queries PROVE Keeps(answer'[q])
  <2>1. answer'[q] \in {slot[i].result, answer[q]}
        \/ (Amends(slot[i].of, q) /\ answer'[q] = Amended(slot[i].of, q))
    BY DEF Done
  <2>2. Keeps(Amended(slot[i].of, q))
    <3>1. Amended(slot[i].of, q).offers
            = (answer[q].offers \ {slot[i].of}) \cup m.reveals
      BY AnswersDiffer DEF Amended
    <3>2. \A n \in m.reveals : ~Kept(n) \/ n \notin Mutations
      BY <1>1, AreaAgrees DEF Kept
    <3> QED BY <3>1, <3>2 DEF Keeps, Honest
  <2> QED BY <2>1, <2>2 DEF Honest, SlotsKeep
<1>3. \A q \in Queries : Keeps(f[q])
  <2>1. \A q \in Queries : f[q] \in {fetch[q], Asked}
    BY DEF Invalidated
  <2> HIDE DEF f
  <2> QED BY <2>1, NewKeeps DEF Honest
<1>4. SlotsKeep(s) /\ SlotsTyped(s)
  BY ReleasedKeeps, ReleasedTyped DEF Honest
<1>5. CASE m.awaits
  <2>1. /\ slot' = [s EXCEPT ![i].stage = "refreshing", ![i].waits = Awaited(m)]
        /\ fetch' = f /\ panel' = panel
    BY <1>5 DEF Done
  <2> HIDE DEF m, f, s
  <2>2. \A j \in Slots : slot'[j].result = s[j].result
    BY <1>4, <2>1 DEF SlotsTyped, SlotTyped, SlotType
  <2> QED BY <1>2, <1>3, <1>4, <2>1, <2>2 DEF StepKeeps, SlotsKeep, Honest
<1>6. CASE ~m.awaits
  <2>1. Succeed(i, f, s)
    BY <1>6 DEF Done
  <2> HIDE DEF m, f, s
  <2>2. /\ \A q \in Queries : Keeps(fetch'[q])
        /\ SlotsKeep(slot') /\ panel' \in {panel, Nothing}
    BY <1>3, <1>4, <2>1, SucceedKeeps
  <2> QED BY <1>2, <2>2, Tables DEF StepKeeps, Honest
<1> QED BY <1>5, <1>6

LEMMA RefreshedKeeps ==
    ASSUME Agrees, Types, Honest, NEW i \in Slots, Refreshed(i) \/ Lost(i) \/ Refused(i)
    PROVE  StepKeeps
<1>1. CASE Refreshed(i)
  <2> DEFINE f == fetch
             s == slot
  <2>1. Succeed(i, f, s) /\ answer' = answer
    BY <1>1 DEF Refreshed
  <2>2. (\A q \in Queries : Keeps(f[q])) /\ SlotsKeep(s) /\ SlotsTyped(s)
    BY DEF Honest, Types
  <2> HIDE DEF f, s
  <2>3. /\ \A q \in Queries : Keeps(fetch'[q])
        /\ SlotsKeep(slot') /\ panel' \in {panel, Nothing}
    BY <2>1, <2>2, SucceedKeeps
  <2> QED BY <2>1, <2>3, Tables DEF StepKeeps, Honest
<1>2. CASE Lost(i) \/ Refused(i)
  <2>1. /\ slot' = [slot EXCEPT ![i] = Free]
        /\ answer' = answer /\ fetch' = fetch /\ panel' = panel
    BY <1>2 DEF Lost, Refused
  <2>2. SlotsKeep(slot')
    BY <2>1, NewKeeps DEF SlotsKeep, Honest, Types, SlotsTyped
  <2> QED BY <2>1, <2>2 DEF StepKeeps, Honest
<1> QED BY <1>1, <1>2

LEMMA HonestStep ==
    ASSUME Agrees, Types, Honest, [Next]_vars
    PROVE  Honest'
<1>1. /\ Queries' = Queries /\ Mutations' = Mutations /\ Slots' = Slots
      /\ \A m : Does(m)' = Does(m)
  BY AreaStays, SameArea
<1>2. \A m : Kept(m)' <=> Kept(m)
  BY <1>1 DEF Kept
<1>3. CASE UNCHANGED vars
  BY <1>1, <1>2, <1>3 DEF vars, Honest, SlotsKeep, Keeps, Accepted, MadeFor
<1>4. CASE Next
  <2>1. StepKeeps
    BY <1>4, FetchKeeps, UserKeeps, HandleKeeps, DoneKeeps, RefreshedKeeps
       DEF Next, MutationSettles
  <2>2. \A m \in Mutations : Kept(m) /\ Accepted(m) => Accepted(m)'
    BY <1>4, AcceptedStays
  <2>3. \A q \in Queries : Keeps(answer[q])' /\ Keeps(fetch[q])'
    BY <1>1, <1>2, <2>1, <2>2 DEF StepKeeps, Keeps
  <2>4. SlotsKeep(slot)'
    BY <1>1, <1>2, <2>1, <2>2 DEF StepKeeps, SlotsKeep, Keeps
  <2>5. (panel \in Mutations /\ Kept(panel) => Accepted(panel))'
    <3>1. \A m \in Mutations : Kept(m) /\ Accepted(m) => subject' \in MadeFor(Does(m))
      BY <1>1, <2>2 DEF Accepted, MadeFor
    <3>2. panel' \in Mutations /\ Kept(panel') => subject' \in MadeFor(Does(panel'))
      BY <2>1, <3>1 DEF StepKeeps
    <3> QED BY <1>1, <3>2, AreaStays DEF Accepted, Kept, MadeFor, Does
  <2> QED BY <1>1, <2>3, <2>4, <2>5 DEF Honest
<1> QED BY <1>3, <1>4

LEMMA HonestInit == Init => Honest
<1> SUFFICES ASSUME Init PROVE Honest
  OBVIOUS
<1>1. Keeps(Unanswered) /\ Keeps(Idle) /\ Keeps(Asked) /\ Keeps(Free.result)
  BY DEF Keeps, Unanswered, Idle, Asked, Answer, Free
<1>2. panel \notin Mutations
  BY TypesInit, Tables DEF Init
<1> QED BY <1>1, <1>2 DEF Init, Honest, SlotsKeep

(* OfferedIsAccepted, of any pages that offer a mutation for statuses it   *)
(* is made for: what a page offers on a current answer the server accepts, *)
(* although a panel that no longer looks at the answer was opened on an    *)
(* older one.                                                              *)
THEOREM OffersAccepted ==
    ASSUME Agrees
    PROVE  Spec => []OfferedIsAccepted
<1>1. Types /\ Honest => OfferedIsAccepted
  <2> SUFFICES ASSUME Types, Honest, NEW m \in Mutations, Does(m).reads # Nothing,
                      answer[Does(m).reads] = Current, Offered(m)
               PROVE  Accepted(m)
    BY DEF OfferedIsAccepted, Accepted
  <2>1. CASE Does(m).kept /\ panel = m
    BY <2>1 DEF Honest, Kept
  <2>2. CASE ~(Does(m).kept /\ panel = m)
    BY <2>2, AreaAgrees DEF Offered, Offers, Accepted
  <2> QED BY <2>1, <2>2
<1>2. Types /\ Honest /\ [Next]_vars => Honest'
  BY HonestStep
<1> QED BY <1>1, <1>2, HonestInit, AlwaysTyped, PTL DEF Spec
=============================================================================
