-------------------------------- MODULE Screens --------------------------------
(***************************************************************************)
(* What every page of the application has in common: the queries it shows, *)
(* answered from the cache of TanStack Query and fetched again when it is  *)
(* mounted or the window regains focus; the mutations it offers, by what   *)
(* the shown answers say; what a mutation does to the server and, when its *)
(* answer comes, to the cache, to the open panel and to the page.          *)
(*                                                                         *)
(* Areas are parts of the application, each about one subject: one Expense,*)
(* one Person, one Support Access Lease.  Their tables are in the modules  *)
(* of the areas.  One user works in one area; other users are left out.    *)
(***************************************************************************)
EXTENDS Naturals

CONSTANT
    Catalog    \* [area -> [pages, mutations, first, atOnce]]

VARIABLES
    area,      \* which area this is
    subject,   \* the status of its subject, on the server
    page,      \* the page the user is on
    panel,     \* the mutation whose panel or dialog is open
    rendered,  \* the pending mutations that the page shows as pending
    answer,    \* what the cache holds of each query
    fetch,     \* the request under way for each query
    slot,      \* the mutations under way
    behind     \* queries the code leaves behind the server (history)

vars == <<area, subject, page, panel, rendered, answer, fetch, slot, behind>>

-----------------------------------------------------------------------------
(* The vocabulary of the tables. *)

Nothing == "none"

\* Answers.  What is as the server has it is Current; what matters of an old
\* answer is which mutations it offers.
Answer(is, offers) == [is |-> is, offers |-> offers]
Unanswered  == Answer("unanswered", {})
Current     == Answer("current", {})
Old(offers) == Answer("old", offers)

\* Requests: nothing sent; sent, not yet read by the server; an answer.
Idle  == Answer("idle", {})
Asked == Answer("asked", {})

(* A page: the queries it mounts, those it shows nothing without, those    *)
(* that window focus does not fetch again, where its links lead, and the   *)
(* statuses without which there is no such page.                           *)
(* Queries that no mutation of the area changes are left out; a mutation   *)
(* may name queries of other areas, which are not mounted with these.     *)
Page == [shows |-> {}, needs |-> {}, stays |-> {}, links |-> {}, exists |-> {}]

(* A mutation as a hook and a form declare it:                             *)
(*   at         the pages that offer it; inPanel: once its panel is open   *)
(*   reads      the query whose answer decides whether it is offered       *)
(*   offered    the statuses in that answer for which it is                *)
(*   disabledBy the mutations whose isPending disables it                  *)
(*   blind      statuses the page offers it for, unable to tell them apart *)
(*   once       those that one ref, set with the click, locks together     *)
(*   becomes    what the server makes of the statuses it accepts           *)
(*   changes    the queries the server answers differently afterwards      *)
(*   sets, refreshes, awaits   what onSuccess does to the cache            *)
(*   reveals    what the answer read, amended by onSuccess, offers instead *)
(*   cancels    the fetches onMutate cancels                               *)
(*   leaves     changed, and left as they are until fetched again          *)
(*   kept       its panel, once open, no longer looks at the answer        *)
(*   escapable  its panel closes while it is pending; forgets: and holds   *)
(*              the hook, so that the page no longer knows it is pending   *)
(*   goesTo     where the page goes; alsoLate: even once it is left        *)
Mutation ==
    [at |-> {}, inPanel |-> FALSE, reads |-> Nothing, offered |-> {},
     disabledBy |-> {}, blind |-> {}, once |-> {}, becomes |-> [s \in {} |-> s],
     changes |-> {}, sets |-> {}, reveals |-> {}, refreshes |-> {},
     awaits |-> FALSE, cancels |-> {}, leaves |-> {}, goesTo |-> Nothing,
     alsoLate |-> FALSE, kept |-> FALSE, escapable |-> FALSE, forgets |-> FALSE]

\* A status that stays what it is.
Same(statuses) == [s \in statuses |-> s]

\* What the pages of each area show.
QueriesOf == [a \in DOMAIN Catalog |->
                 UNION {Catalog[a].pages[p].shows : p \in DOMAIN Catalog[a].pages}]

(* The tables fit together: mutations lead to pages of their area, reveal  *)
(* mutations of it and cancel fetches of its queries, and the mutations    *)
(* one ref locks lock each other, none of them in a panel that forgets     *)
(* what is pending.                                                        *)
CatalogAssumption ==
    \A a \in DOMAIN Catalog :
        LET pages == DOMAIN Catalog[a].pages
            mutations == DOMAIN Catalog[a].mutations
        IN  /\ Nothing \notin mutations
            /\ \A f \in Catalog[a].first : f.page \in pages
            /\ \A m \in mutations :
                LET does == Catalog[a].mutations[m]
                IN  /\ does.goesTo \in pages \cup {Nothing}
                    /\ does.reveals \subseteq mutations
                    /\ does.cancels \subseteq QueriesOf[a]
                    /\ does.once # {} => ~does.forgets
                    /\ \A n \in does.once \cap mutations :
                           m \in Catalog[a].mutations[n].once

ASSUME CatalogAssumption

(* Whatever a mutation changes of the queries of its area it sets,         *)
(* refreshes or knowingly leaves.                                          *)
Covers ==
    \A a \in DOMAIN Catalog : \A m \in DOMAIN Catalog[a].mutations :
        LET does == Catalog[a].mutations[m]
        IN  does.changes \cap QueriesOf[a]
                \subseteq does.sets \cup does.refreshes \cup does.leaves

(* Where panels wait for the cache, one mutation is under way at a time.   *)
OneAtATime ==
    \A a \in DOMAIN Catalog :
        (\E m \in DOMAIN Catalog[a].mutations : Catalog[a].mutations[m].awaits)
            => Catalog[a].atOnce = 1

\* The statuses a mutation is made for, the ones its page cannot tell included.
MadeFor(does) == DOMAIN does.becomes \cup does.blind

(* A mutation is offered for statuses it is made for.  One whose panel no  *)
(* longer looks at the answer is not revealed by others, and no mutation   *)
(* takes its subject out of the statuses it is made for.                   *)
Agrees ==
    \A a \in DOMAIN Catalog : \A m \in DOMAIN Catalog[a].mutations :
        LET does == Catalog[a].mutations[m]
        IN  does.reads # Nothing =>
                /\ does.offered \subseteq MadeFor(does)
                /\ does.kept =>
                    /\ does.reads \in QueriesOf[a]
                    /\ \A n \in DOMAIN Catalog[a].mutations :
                        LET other == Catalog[a].mutations[n]
                        IN  /\ m \notin other.reveals
                            /\ \A s \in MadeFor(does) \cap DOMAIN other.becomes :
                                  other.becomes[s] \in MadeFor(does)

-----------------------------------------------------------------------------
Pages     == DOMAIN Catalog[area].pages
Mutations == DOMAIN Catalog[area].mutations
On(p)     == Catalog[area].pages[p]
Does(m)   == Catalog[area].mutations[m]
Queries   == QueriesOf[area]

StatusesOf ==
    [a \in DOMAIN Catalog |->
        {f.status : f \in Catalog[a].first} \cup
        UNION {LET b == Catalog[a].mutations[m].becomes
               IN  DOMAIN b \cup {b[s] : s \in DOMAIN b} :
                   m \in DOMAIN Catalog[a].mutations}]

Mounted == On(page).shows

\* The mutations of this area that may be under way at a time.
Slots == 1..Catalog[area].atOnce

\* here: its page is still shown; shown: so is that it is pending.
Free == [of |-> Nothing, stage |-> "free", here |-> FALSE, shown |-> FALSE,
         result |-> Unanswered, waits |-> {}]

Busy(i) == slot[i].of # Nothing

\* A current answer of q, once it has aged.
Before(q) == Old({m \in Mutations : /\ Does(m).reads = q
                                    /\ subject \in Does(m).offered})

Offers(q, m) == IF answer[q] = Current THEN subject \in Does(m).offered
                ELSE m \in answer[q].offers

IsAnswer(a, others) ==
    \/ a \in others \cup {Current}
    \/ a.is = "old" /\ a.offers \subseteq Mutations

TypeOK ==
    /\ area \in DOMAIN Catalog
    /\ subject \in StatusesOf[area]
    /\ page \in Pages
    /\ panel \in Mutations \cup {Nothing}
    /\ rendered \subseteq Mutations
    /\ DOMAIN answer = Queries /\ DOMAIN fetch = Queries
    /\ \A q \in Queries : /\ IsAnswer(answer[q], {Unanswered})
                          /\ IsAnswer(fetch[q], {Idle, Asked})
    /\ behind \subseteq Queries
    /\ \A i \in Slots :
           \/ slot[i] = Free
           \/ /\ slot[i].of \in Mutations
              /\ slot[i].stage \in {"sent", "refused", "done", "refreshing"}
              /\ slot[i].here \in BOOLEAN /\ slot[i].shown \in BOOLEAN
              /\ IsAnswer(slot[i].result, {Unanswered})
              /\ slot[i].waits \subseteq Does(slot[i].of).refreshes

Init ==
    /\ area \in DOMAIN Catalog
    /\ \E f \in Catalog[area].first :
           /\ subject = f.status
           /\ page = f.page
    /\ panel = Nothing
    /\ rendered = {}
    /\ answer = [q \in Queries |-> Unanswered]
    /\ fetch = [q \in Queries |-> IF q \in Mounted THEN Asked ELSE Idle]
    /\ slot = [i \in Slots |-> Free]
    /\ behind = {}

-----------------------------------------------------------------------------
(* Queries. *)

\* A refetch joins what is under way.
Joined(qs) == [q \in Queries |-> IF q \in qs /\ fetch[q] = Idle
                                 THEN Asked ELSE fetch[q]]

\* invalidateQueries: the mounted queries are fetched again, and what is
\* under way is given up, unless nothing has been answered yet.
Restarts(q, qs) == q \in qs \cap Mounted /\ answer[q] # Unanswered

Invalidated(qs) ==
    [q \in Queries |-> IF Restarts(q, qs) \/ (q \in qs \cap Mounted /\
                                              fetch[q] = Idle)
                       THEN Asked ELSE fetch[q]]

\* Mutants: the refetches are not awaited, or those of all queries are.
AwaitsNothing(m) == {}
AwaitsAll(m) == Mounted

\* The promise of invalidateQueries: the refetches of the mounted queries.
Awaited(m) == m.refreshes \cap Mounted

\* What no longer waits for these queries.
Released(qs) == [i \in Slots |-> [slot[i] EXCEPT !.waits = @ \ qs]]

Focus ==
    /\ \E q \in Mounted \ On(page).stays : fetch[q] = Idle
    /\ fetch' = Joined(Mounted \ On(page).stays)
    /\ UNCHANGED <<area, subject, page, panel, rendered, answer, slot, behind>>

ServerReads(q) ==
    /\ fetch[q] = Asked
    /\ fetch' = [fetch EXCEPT ![q] = Current]
    /\ UNCHANGED <<area, subject, page, panel, rendered, answer, slot, behind>>

UpToDate == {q \in Queries : answer[q] = Current}

\* An answer that is older than the one stored meanwhile replaces it.
Arrives(q) ==
    /\ fetch[q] \notin {Idle, Asked}
    /\ answer' = [answer EXCEPT ![q] = fetch[q]]
    /\ fetch' = [fetch EXCEPT ![q] = Idle]
    /\ slot' = Released({q})
    /\ behind' = IF fetch[q] = Current THEN behind \ {q}
                 ELSE behind \cup ({q} \cap UpToDate)
    /\ UNCHANGED <<area, subject, page, panel, rendered>>

\* Mutant: a refetch that fails is awaited for ever.
StillWaiting(q) == slot

GivenUp(q) == Released({q})

\* The page keeps the answer it had, if any, and shows the error.
Fails(q) ==
    /\ fetch[q] # Idle
    /\ fetch' = [fetch EXCEPT ![q] = Idle]
    /\ slot' = GivenUp(q)
    /\ behind' = behind \cup ({q} \ UpToDate)
    /\ UNCHANGED <<area, subject, page, panel, rendered, answer>>

-----------------------------------------------------------------------------
(* Mutations. *)

PendingIn(s) == {s[i].of : i \in {j \in Slots : s[j].shown}}
Pending == PendingIn(slot)

Offered(m) ==
    /\ page \in Does(m).at
    /\ Does(m).disabledBy \cap rendered = {}
    /\ \A q \in On(page).needs : answer[q] # Unanswered
    /\ Does(m).reads # Nothing /\ ~(Does(m).kept /\ panel = m)
           => Offers(Does(m).reads, m)

\* Mutant: only the rendered state locks a form.
LockedAsRendered(m) == Does(m).once \cap rendered # {}

Locked(m) == Does(m).once \cap Pending # {}

OpenPanel(m) ==
    /\ Does(m).inPanel /\ panel # m
    /\ Offered(m)
    /\ panel' = m
    /\ UNCHANGED <<area, subject, page, rendered, answer, fetch, slot, behind>>

\* A panel that holds its hook forgets with it that it is pending.
ClosePanel ==
    /\ panel # Nothing
    /\ panel \in rendered => Does(panel).escapable
    /\ panel' = Nothing
    /\ slot' = [i \in Slots |->
                   IF Busy(i) /\ Does(slot[i].of).forgets
                   THEN [slot[i] EXCEPT !.shown = FALSE] ELSE slot[i]]
    /\ rendered' = rendered \cap PendingIn(slot')
    /\ UNCHANGED <<area, subject, page, answer, fetch, behind>>

Submit(m) ==
    /\ \E i \in Slots : ~Busy(i)
    /\ Does(m).inPanel => panel = m
    /\ Offered(m) /\ ~Locked(m)
    /\ LET i == CHOOSE j \in Slots : ~Busy(j)
       IN  slot' = [Released(Does(m).cancels) EXCEPT ![i] =
                       [Free EXCEPT !.of = m, !.stage = "sent",
                                    !.here = TRUE, !.shown = TRUE]]
    /\ fetch' = [q \in Queries |-> IF q \in Does(m).cancels THEN Idle
                                   ELSE fetch[q]]
    /\ behind' = behind \cup
                 {q \in Does(m).cancels \ UpToDate : fetch[q] # Idle}
    /\ UNCHANGED <<area, subject, page, panel, rendered, answer>>

\* The page is rendered after the click, not with it.  That it is rendered
\* after an answer too makes no difference: the user might as well be slow.
Render ==
    /\ rendered # Pending
    /\ rendered' = Pending
    /\ UNCHANGED <<area, subject, page, panel, answer, fetch, slot, behind>>

\* What was as the server had it shows what it had.
Aged(what, qs) ==
    [q \in Queries |-> IF q \in qs /\ what[q] = Current THEN Before(q)
                       ELSE what[q]]

\* What the answer to an earlier mutation shows by now; it sets one query
\* that the page shows at most.
Result(m) ==
    LET set == Does(m).sets \cap Queries
    IN  IF set = {} THEN Old({}) ELSE Before(CHOOSE q \in set : TRUE)

Handle(i) ==
    LET m == slot[i].of IN
    /\ slot[i].stage = "sent"
    /\ IF subject \in DOMAIN Does(m).becomes
       THEN /\ subject' = Does(m).becomes[subject]
            /\ answer' = Aged(answer, Does(m).changes)
            /\ fetch' = Aged(fetch, Does(m).changes)
            /\ slot' = [j \in Slots |->
                   IF j = i THEN [slot[i] EXCEPT !.stage = "done",
                                                 !.result = Current]
                   ELSE IF slot[j].result = Current
                           /\ Does(slot[j].of).sets \cap Does(m).changes # {}
                        THEN [slot[j] EXCEPT !.result = Result(slot[j].of)]
                        ELSE slot[j]]
            /\ behind' = behind \cup (Does(m).leaves \cap Queries)
       ELSE /\ slot' = [slot EXCEPT ![i].stage = "refused"]
            /\ UNCHANGED <<subject, answer, fetch, behind>>
    /\ UNCHANGED <<area, page, panel, rendered>>

\* The request, or its answer, is lost: the form shows an error.
Lost(i) ==
    /\ slot[i].stage \in {"sent", "done"}
    /\ slot' = [slot EXCEPT ![i] = Free]
    /\ behind' = IF slot[i].stage = "sent" THEN behind
                 ELSE behind \cup
                      ((Does(slot[i].of).changes \cap Queries) \ UpToDate)
    /\ rendered' = rendered \cap PendingIn(slot')
    /\ UNCHANGED <<area, subject, page, panel, answer, fetch>>

Refused(i) ==
    /\ slot[i].stage = "refused"
    /\ slot' = [slot EXCEPT ![i] = Free]
    /\ rendered' = rendered \cap PendingIn(slot')
    /\ UNCHANGED <<area, subject, page, panel, answer, fetch, behind>>

\* The page p is mounted over the fetches f, with the mutations s under way.
Mount(p, f, s) ==
    /\ page' = p
    /\ panel' = Nothing
    /\ rendered' = {}
    /\ fetch' = [q \in Queries |-> IF q \in On(p).shows /\ f[q] = Idle
                                   THEN Asked ELSE f[q]]
    /\ slot' = [i \in Slots |-> [s[i] EXCEPT !.here = FALSE,
                                               !.shown = FALSE]]

\* Mutant: the page moves even when it is another one by now.
MovesAlways(i) == Does(slot[i].of).goesTo \notin {Nothing, page}

Moves(i) ==
    /\ Does(slot[i].of).goesTo \notin {Nothing, page}
    /\ slot[i].here \/ Does(slot[i].of).alsoLate

\* The mutation has succeeded: its panel closes, or its page is left.
Succeed(i, f, s) ==
    IF Moves(i) THEN Mount(Does(slot[i].of).goesTo, f, [s EXCEPT ![i] = Free])
    ELSE /\ panel' = IF slot[i].here /\ Does(slot[i].of).inPanel THEN Nothing
                     ELSE panel
         /\ fetch' = f
         /\ slot' = [s EXCEPT ![i] = Free]
         /\ rendered' = rendered \cap PendingIn(slot')
         /\ UNCHANGED page

\* The first fetch, older than the mutation, goes on, or the answer of a
\* later mutation has come first.
Overtaking(i) ==
    LET m == Does(slot[i].of) IN
    {q \in (m.sets \cup m.refreshes) \cap Queries :
        /\ ~Restarts(q, m.refreshes)
        /\ \/ q \notin m.sets /\ fetch[q] \notin {Idle, Asked, Current}
           \/ q \in m.sets /\ slot[i].result # Current}

\* An old answer with what the mutation m has changed put into it.
Amends(m, q) == q = Does(m).reads /\ Does(m).reveals # {} /\ answer[q].is = "old"

Amended(m, q) == Old((answer[q].offers \ {m}) \cup Does(m).reveals)

\* onSuccess of the hook.
Done(i) ==
    LET m == Does(slot[i].of)
        f == Invalidated(m.refreshes)
        s == Released({q \in Queries : Restarts(q, m.refreshes)})
    IN
    /\ slot[i].stage = "done"
    /\ answer' = [q \in Queries |->
                      IF q \in m.sets THEN slot[i].result
                      ELSE IF Amends(slot[i].of, q) THEN Amended(slot[i].of, q)
                      ELSE answer[q]]
    /\ behind' = (behind \ {q \in m.sets : slot[i].result = Current})
                 \cup Overtaking(i)
    /\ IF m.awaits
       THEN /\ slot' = [s EXCEPT ![i].stage = "refreshing",
                                 ![i].waits = Awaited(m)]
            /\ fetch' = f
            /\ UNCHANGED <<page, panel, rendered>>
       ELSE Succeed(i, f, s)
    /\ UNCHANGED <<area, subject>>

Refreshed(i) ==
    /\ slot[i].stage = "refreshing"
    /\ slot[i].waits = {}
    /\ Succeed(i, fetch, slot)
    /\ UNCHANGED <<area, subject, answer, behind>>

Visit(p) ==
    /\ p \in On(page).links
    /\ On(p).exists # {} => subject \in On(p).exists
    /\ Mount(p, fetch, slot)
    /\ UNCHANGED <<area, subject, answer, behind>>

-----------------------------------------------------------------------------
FetchSettles(q) == ServerReads(q) \/ Arrives(q) \/ Fails(q)

MutationSettles(i) ==
    Handle(i) \/ Lost(i) \/ Refused(i) \/ Done(i) \/ Refreshed(i)

UserActs ==
    \/ Focus \/ ClosePanel
    \/ \E m \in Mutations : OpenPanel(m) \/ Submit(m)
    \/ \E p \in Pages : Visit(p)

Next ==
    \/ \E q \in Queries : FetchSettles(q)
    \/ \E i \in Slots : MutationSettles(i)
    \/ Render
    \/ UserActs

Spec == Init /\ [][Next]_vars

-----------------------------------------------------------------------------
(* Properties. *)

(* A page at rest shows what the server has: whatever a mutation changed   *)
(* has been set, fetched again or knowingly left, though fetches and       *)
(* mutations finish in any order.  This is about the hooks' onSuccess.     *)
SettledPageIsCurrent ==
    (/\ \A q \in Mounted : fetch[q] = Idle
     /\ \A i \in Slots : ~Busy(i))
        => \A q \in Mounted \ behind : answer[q] = Current

(* What a page offers on a current answer, the server accepts: the guards  *)
(* of the buttons and of the handlers agree about every status.            *)
OfferedIsAccepted ==
    \A m \in Mutations :
        (/\ Does(m).reads # Nothing /\ answer[Does(m).reads] = Current
         /\ Offered(m))
            => subject \in MadeFor(Does(m))

(* A form locked by a ref has at most one submission under way, whatever   *)
(* clicks come before it is rendered as pending.                           *)
OneSubmission ==
    \A i, j \in Slots :
        (/\ Busy(i) /\ slot[i].here /\ Busy(j) /\ slot[j].here
         /\ slot[j].of \in Does(slot[i].of).once)
            => i = j

(* A panel that waits for the cache closes on refreshed answers, unless    *)
(* another mutation has changed them since.                                *)
SuccessIsFresh ==
    [][\A i \in Slots :
           (/\ slot[i].stage = "refreshing" /\ slot[i].here
            /\ slot'[i].of = Nothing)
               => \A q \in Does(slot[i].of).refreshes \cap Mounted :
                      \/ answer'[q] = Current \/ q \in behind'
                      \/ \E j \in Slots \ {i} : Busy(j)]_vars

(* A success that comes after its page has been left does not move the     *)
(* user, where the page asked for that by a callback of the call.          *)
LateSuccessStays ==
    [][\A i \in Slots :
           (/\ Busy(i) /\ ~slot[i].here /\ ~Does(slot[i].of).alsoLate
            /\ slot'[i] = Free)
               => page' = page]_vars

(* No form waits for nothing: as long as a mutation waits for the cache,   *)
(* what it waits for is being fetched, whatever fails, is given up or      *)
(* fetched again by others meanwhile.                                      *)
AwaitedIsUnderWay ==
    \A i \in Slots : \A q \in slot[i].waits :
        q \in Queries /\ fetch[q] # Idle
================================================================================
