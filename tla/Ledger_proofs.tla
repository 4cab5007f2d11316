----------------------------- MODULE Ledger_proofs -----------------------------
(***************************************************************************)
(* CurrentAccount implements ImmutableLedger, for every set of Journeys,   *)
(* units, request ids and workers and every bound: the entries handlers    *)
(* post under each other's feet map to a ledger that only grows and in     *)
(* which an entry is undone once, exactly, and for good.                   *)
(*                                                                         *)
(* The mapping names an entry by its key, and a reversal the entry it      *)
(* undoes by that entry's key; so the argument needs, beside the           *)
(* correctness of the corrections (CurrentAccount_proofs), that a key      *)
(* names one entry.  That is inductive together with a bound on the keys   *)
(* in use: the entries a transaction writes carry its own number.          *)
(*                                                                         *)
(* Then the balances, which are sums over that ledger: how a sum changes   *)
(* with an entry (Sums, Balances), and what follows for the settlements    *)
(* and closures that are derived from balances, blockers and accruals read *)
(* some steps earlier (Serial requests).                                   *)
(***************************************************************************)
EXTENDS CurrentAccount_proofs, Sequences, FiniteSetTheorems,
        WellFoundedInduction

\* Every key in use carries the number of an earlier transaction.
KeysUsed == \A e \in ledger : e.key[1] < writes

\* A key names one entry.
KeysName == \A d, e \in ledger : d.key = e.key => d = e

(***************************************************************************)
(* What a transaction posts.                                               *)
(***************************************************************************)
\* e undoes o exactly.
Cancels(e, o) ==
    /\ e.related = o.key
    /\ o.correction # "REVERSAL"
    /\ e.journey = o.journey /\ e.unit = o.unit
    /\ e.amount = o.amount /\ e.direction = Opposite(o.direction)

\* The transaction adds es, under keys of its own, with at most one reversal,
\* of an entry that stands.
Posts(es) ==
    /\ es \subseteq Entry
    /\ ledger' = ledger \cup es
    /\ writes' = writes + 1
    /\ \A e \in es : e.key = <<writes, e.unit, e.correction>>
    /\ \A d, e \in es : d.unit = e.unit /\ d.correction = e.correction => d = e
    /\ \A e \in es : e.correction = "REVERSAL" =>
        /\ \E o \in ledger : Cancels(e, o)
        /\ ~HasReversal(e.related)
        /\ \A d \in es : d.correction = "REVERSAL" => d = e

\* A transaction that posts originals only.
LEMMA OriginalsPost ==
    ASSUME NEW es \in SUBSET Entry, Post(es),
           \A e \in es : e.correction = "ORIGINAL",
           \A e \in es : e.key = <<writes, e.unit, "ORIGINAL">>,
           \A d, e \in es : d.unit = e.unit => d = e
    PROVE  Posts(es)
BY DEF Post, Posts

LEMMA LedgerStep ==
    ASSUME TypeOK, CorrectsLedger, [Next]_vars
    PROVE  UNCHANGED <<ledger, writes>> \/ \E es : Posts(es)
<1>1. ASSUME NEW w \in Workers, CommitSettlement(w)
      PROVE  UNCHANGED <<ledger, writes>> \/ \E es : Posts(es)
  <2> DEFINE s == [journey |-> job[w].journey, request |-> job[w].request,
                   type |-> job[w].op, amount |-> job[w].amount]
  <2>1. CASE ~RequestIdFree(s.journey, s.request)
    BY <1>1, <2>1 DEF CommitSettlement, rows
  <2>2. CASE RequestIdFree(s.journey, s.request)
    <3>1. s \in Settlement /\ s.type \in SettlementOps
      BY <1>1 DEF CommitSettlement, Job, NoJob, Settlement, SettlementOps,
         PayoutOps, FinalOps, TypeOK
    <3>2. SettlementEntries(s) \in SUBSET Entry
      BY <3>1, PostedEntryTypes
    <3>3. Post(SettlementEntries(s))
      BY <1>1, <2>2 DEF CommitSettlement
    <3>4. \A e \in SettlementEntries(s) :
            /\ e = SettlementEntry(s, e.unit)
            /\ e.correction = "ORIGINAL" /\ e.key = <<writes, e.unit, "ORIGINAL">>
      BY DEF SettlementEntries, SettlementEntry
    <3>5. Posts(SettlementEntries(s))
      BY <3>2, <3>3, <3>4, OriginalsPost
    <3> QED BY <3>5
  <2> QED BY <2>1, <2>2
<1>2. ASSUME PostsOther
      PROVE  \E es : Posts(es)
  <2>1. PICK e \in Entry : /\ e.correction = "ORIGINAL"
                           /\ e.key = <<writes, e.unit, "ORIGINAL">>
                           /\ Post({e})
    BY <1>2 DEF PostsOther
  <2>2. Posts({e})
    BY <2>1, OriginalsPost
  <2> QED BY <2>2
<1>3. ASSUME NEW w \in Workers, CommitCorrection(w)
      PROVE  UNCHANGED <<ledger, writes>> \/ \E es : Posts(es)
  <2> DEFINE o == job[w].original
             new == CorrectionEntries(job[w])
  <2>1. CASE ~ReversalFree(o.key)
    BY <1>3, <2>1 DEF CommitCorrection
  <2>2. CASE ReversalFree(o.key)
    <3>1. o \in ledger /\ o.correction # "REVERSAL" /\ o \in Entry
      BY <1>3 DEF CommitCorrection, CorrectsLedger, TypeOK
    <3>2. new \subseteq Entry /\ Post(new)
      BY <1>3, <2>2, PostedEntryTypes DEF CommitCorrection, TypeOK
    <3>3. \A e \in new : e.key = <<writes, e.unit, e.correction>>
      BY DEF CorrectionEntries, Reversal, CorrectionEntry
    <3>4. \A d, e \in new : d.correction = e.correction => d = e
      BY DEF CorrectionEntries, Reversal, CorrectionEntry
    <3>5. Cancels(Reversal(o), o) /\ Reversal(o).correction = "REVERSAL"
      BY <3>1 DEF Cancels, Reversal, CorrectionEntry
    <3>6. Reversal(o) \in new
      BY DEF CorrectionEntries
    <3>7. \A e \in new : e.correction = "REVERSAL" => e = Reversal(o)
      BY <3>4, <3>5, <3>6
    <3>8. ~HasReversal(Reversal(o).related)
      BY <2>2, <3>5 DEF ReversalFree, Cancels
    <3>9. Posts(new)
      BY <3>1, <3>2, <3>3, <3>4, <3>5, <3>7, <3>8 DEF Posts, Post
    <3> QED BY <3>9
  <2> QED BY <2>1, <2>2
<1>4. ASSUME NEW w \in Workers, CommitCloseJourney(w) \/ Receipting(w)
      PROVE  UNCHANGED <<ledger, writes>>
  BY <1>4 DEF CommitCloseJourney, Receipting, PrintReceipt, ReturnReceipt, AcceptReceipt
<1> QED BY <1>1, <1>2, <1>3, <1>4, StepKinds

(***************************************************************************)
(* Keys.                                                                   *)
(***************************************************************************)
LEMMA KeysStep ==
    ASSUME TypeOK, KeysUsed, KeysName, UNCHANGED <<ledger, writes>> \/ \E es : Posts(es)
    PROVE  KeysUsed' /\ KeysName'
<1>1. CASE UNCHANGED <<ledger, writes>>
  BY <1>1 DEF KeysUsed, KeysName
<1>2. ASSUME NEW es, Posts(es)
      PROVE  KeysUsed' /\ KeysName'
  <2>1. \A e \in ledger : e.key[1] < writes /\ e.key[1] \in Nat
    BY DEF KeysUsed, TypeOK, Entry, EntryKey
  <2>2. \A e \in es : e.key[1] = writes /\ e.key[2] = e.unit /\ e.key[3] = e.correction
    BY <1>2 DEF Posts
  <2>3. writes \in Nat
    BY DEF TypeOK
  <2>4. ledger' = ledger \cup es /\ writes' = writes + 1
    BY <1>2 DEF Posts
  <2>5. KeysUsed'
    BY <2>1, <2>2, <2>3, <2>4 DEF KeysUsed
  <2>6. ASSUME NEW d \in ledger', NEW e \in ledger', d.key = e.key
        PROVE  d = e
    <3>1. CASE d \in ledger /\ e \in ledger
      BY <2>6, <3>1 DEF KeysName
    <3>2. CASE d \in es /\ e \in es
      BY <1>2, <2>2, <2>6, <3>2 DEF Posts
    <3>3. CASE (d \in ledger /\ e \in es) \/ (d \in es /\ e \in ledger)
      BY <2>1, <2>2, <2>3, <2>6, <3>3
    <3> QED BY <2>4, <3>1, <3>2, <3>3
  <2> QED BY <2>5, <2>6 DEF KeysName
<1> QED BY <1>1, <1>2

(***************************************************************************)
(* The mapping.                                                            *)
(***************************************************************************)
\* The row of the abstract ledger that stands for e.
Row(e) ==
    [id |-> e.key, account |-> <<e.journey, e.unit>>, value |-> Signed(e),
     cancels |-> IF e.correction = "REVERSAL" THEN e.related ELSE NoEntry]

LEMMA EntriesAreRows ==
    /\ LedgerEntries = {Row(e) : e \in ledger}
    /\ LedgerEntries' = {Row(e) : e \in ledger'}
BY DEF LedgerEntries, Row

\* An undone value and the value that undoes it sum to nothing.
LEMMA CancelledValue ==
    ASSUME NEW e \in Entry, NEW o \in Entry, Cancels(e, o)
    PROVE  Signed(o) = -Signed(e)
BY DEF Cancels, Signed, Opposite, Entry, Directions

\* A key is never the absence of one.
LEMMA KeysAreEntries ==
    ASSUME NEW o \in Entry
    PROVE  o.key # NoEntry
<1>1. PICK n \in Nat, u \in Units, c \in Corrections : o.key = <<n, u, c>>
  BY DEF Entry, EntryKey
<1>2. Len(<<n, u, c>>) = 3 /\ Len(<<>>) = 0
  OBVIOUS
<1> QED BY <1>1, <1>2 DEF NoEntry

LEMMA RowsAppend ==
    ASSUME TypeOK, KeysUsed', KeysName', NEW es, Posts(es)
    PROVE  Ledger!Append
<1> DEFINE new == LedgerEntries' \ LedgerEntries
<1>1. ledger' = ledger \cup es /\ es \subseteq Entry /\ ledger \subseteq Entry
  BY DEF Posts, TypeOK
<1>2. LedgerEntries \subseteq LedgerEntries'
  BY <1>1, EntriesAreRows
<1>3. ASSUME NEW x \in new
      PROVE  \E e \in es : x = Row(e)
  BY <1>1, <1>3, EntriesAreRows
<1>4. ASSUME NEW x \in LedgerEntries', NEW y \in LedgerEntries', x.id = y.id
      PROVE  x = y
  <2>1. PICK d \in ledger', e \in ledger' : x = Row(d) /\ y = Row(e)
    BY EntriesAreRows
  <2>2. d.key = e.key
    BY <1>4, <2>1 DEF Row
  <2> QED BY <2>1, <2>2 DEF KeysName
<1>5. ASSUME NEW x \in new, NEW y \in LedgerEntries \cup (new \ {x})
      PROVE  y.id # x.id
  BY <1>2, <1>4, <1>5
<1>6. ASSUME NEW x \in new, x.cancels # NoEntry
      PROVE  Ledger!CancelsStanding(x, LedgerEntries, new)
  <2>1. PICK e \in es : x = Row(e)
    BY <1>3, <1>6
  <2>2. e.correction = "REVERSAL" /\ x.cancels = e.related
    BY <1>6, <2>1 DEF Row
  <2>3. PICK o \in ledger : Cancels(e, o)
    BY <2>2 DEF Posts
  <2>4. Row(o) \in LedgerEntries
    BY EntriesAreRows
  <2>5. /\ Row(o).id = x.cancels /\ Row(o).cancels = NoEntry
        /\ Row(o).account = x.account
    BY <2>1, <2>2, <2>3 DEF Row, Cancels
  <2>6. Row(o).value = -x.value
    BY <1>1, <2>1, <2>3, CancelledValue DEF Row
  <2>7. ASSUME NEW y \in LedgerEntries, y.cancels = x.cancels
        PROVE  FALSE
    <3>1. PICK d \in ledger : y = Row(d)
      BY EntriesAreRows
    <3>2. e.related # NoEntry
      BY <1>6, <2>2
    <3>3. d.correction = "REVERSAL" /\ d.related = e.related
      BY <2>2, <2>7, <3>1, <3>2 DEF Row
    <3> QED BY <2>2, <3>3 DEF Posts, HasReversal
  <2>8. ASSUME NEW y \in new \ {x}, y.cancels = x.cancels
        PROVE  FALSE
    <3>1. PICK d \in es : y = Row(d)
      BY <1>3
    <3>2. d.correction = "REVERSAL"
      BY <1>6, <2>8, <3>1 DEF Row
    <3>3. d = e
      BY <2>2, <3>2 DEF Posts
    <3> QED BY <2>1, <3>1, <3>3
  <2> QED BY <2>4, <2>5, <2>6, <2>7, <2>8 DEF Ledger!CancelsStanding
<1>7. Ledger!Appends(LedgerEntries, new)
  BY <1>5, <1>6 DEF Ledger!Appends
<1> QED BY <1>2, <1>7 DEF Ledger!Append

LEMMA MapsStep ==
    ASSUME TypeOK, CorrectsLedger, KeysUsed, KeysName, [Next]_vars
    PROVE  [Ledger!Append]_LedgerEntries
<1>1. CASE UNCHANGED <<ledger, writes>>
  BY <1>1, EntriesAreRows
<1>2. CASE \E es : Posts(es)
  BY <1>2, KeysStep, RowsAppend
<1> QED BY <1>1, <1>2, LedgerStep

LEMMA MapsInit == Init => LedgerEntries = {} /\ CorrectsLedger /\ KeysUsed /\ KeysName
BY CorrectionsInit DEF Init, LedgerEntries, KeysUsed, KeysName

\* Whoever settles, corrects or posts, and however they overlap, what the
\* account's transactions leave in ledger_entries is an immutable ledger.
THEOREM LedgerImplemented == Spec => LedgerIsImmutable
<1>1. TypeOK /\ CorrectsLedger /\ KeysUsed /\ KeysName /\ [Next]_vars
      => /\ CorrectsLedger' /\ KeysUsed' /\ KeysName'
         /\ [Ledger!Append]_LedgerEntries
  BY CorrectsLedgerStep, LedgerStep, KeysStep, MapsStep
<1> QED BY <1>1, MapsInit, TypeCorrect, PTL DEF Spec, LedgerIsImmutable, Ledger!Spec

(***************************************************************************)
(* Sums.  MapThenSumSet is a recursive function over the subsets of its    *)
(* set, chosen by the equation it satisfies.  That there is one, and that  *)
(* it sums in any order, is proved by taking the least cardinality at      *)
(* which it would not.                                                     *)
(***************************************************************************)
\* A set of naturals without a least member is empty.
LEMMA NoLeastIsEmpty ==
    ASSUME NEW T \in SUBSET Nat, \A m \in T : \E n \in T : n < m
    PROVE  T = {}
<1>1. T # {} => \E x \in T : \A y \in T : ~(<<y, x>> \in OpToRel(<, Nat))
  BY NatLessThanWellFounded, WFMin
<1> QED BY <1>1 DEF OpToRel

\* The member of s that the fold takes first.
Some(s) == CHOOSE e \in s : TRUE

\* f sums the members of S, which are sets of entries.
Sums(f, S) ==
    f = [s \in S |-> IF s = {} THEN 0
                     ELSE Signed(Some(s)) + f[s \ {Some(s)}]]

SumOf(S) == MapThenSumSet(Signed, S)

LEMMA SumUnfolds == \A S : SumOf(S) = (CHOOSE f : Sums(f, SUBSET S))[S]
BY Zenon DEF SumOf, MapThenSumSet, MapThenFoldSet, Sums, Some

LEMMA SomeIn == \A s : s # {} => Some(s) \in s
BY DEF Some

\* The subsets of S with at most n members.
Size(S, n) == {s \in SUBSET S : Cardinality(s) <= n}

\* The fold is well defined.
LEMMA SumsExist ==
    ASSUME NEW S, IsFiniteSet(S)
    PROVE  \E f : Sums(f, SUBSET S)
<1> DEFINE missing == {n \in Nat : ~\E f : Sums(f, Size(S, n))}
           Step(f, s) == IF s = {} THEN 0 ELSE Signed(Some(s)) + f[s \ {Some(s)}]
<1>a. \A s \in SUBSET S : IsFiniteSet(s) /\ Cardinality(s) \in Nat
  BY FS_Subset, FS_CardinalityType
<1>1. ASSUME NEW m \in missing PROVE \E k \in missing : k < m
  <2>1. CASE m = 0
    <3> DEFINE g == [s \in Size(S, 0) |-> 0]
    <3>1. \A s \in Size(S, 0) : s = {}
      BY <1>a, FS_EmptySet DEF Size
    <3>2. Sums(g, Size(S, 0))
      BY <3>1 DEF Sums
    <3> QED BY <2>1, <3>2
  <2>2. CASE m # 0 /\ m - 1 \notin missing
    <3>1. m - 1 \in Nat /\ m \in Nat
      BY <2>2
    <3>2. PICK f : Sums(f, Size(S, m - 1))
      BY <2>2, <3>1
    <3> DEFINE g == [s \in Size(S, m) |-> Step(f, s)]
    <3>3. \A s \in Size(S, m - 1) : s \in Size(S, m) /\ f[s] = Step(f, s)
      <4>1. \A s \in Size(S, m - 1) : s \in Size(S, m)
        BY <1>a, <3>1 DEF Size
      <4> QED BY <3>2, <4>1 DEF Sums
    <3>4. \A s \in Size(S, m - 1) : g[s] = f[s]
      <4> HIDE DEF Step
      <4> QED BY <3>3
    <3>5. ASSUME NEW s \in Size(S, m), s # {}
          PROVE  s \ {Some(s)} \in Size(S, m - 1)
      <4>1. IsFiniteSet(s) /\ Cardinality(s) <= m /\ Cardinality(s) \in Nat /\ s \subseteq S
        BY <1>a DEF Size
      <4>2. Cardinality(s \ {Some(s)}) = Cardinality(s) - 1
        BY <3>5, <4>1, SomeIn, FS_RemoveElement
      <4> QED BY <3>1, <4>1, <4>2 DEF Size
    <3>6. \A s \in Size(S, m) : Step(g, s) = Step(f, s)
      <4> HIDE DEF g
      <4> QED BY <3>4, <3>5
    <3>7. Sums(g, Size(S, m))
      <4>1. g = [s \in Size(S, m) |-> Step(g, s)]
        <5>1. [s \in Size(S, m) |-> Step(g, s)] = [s \in Size(S, m) |-> Step(f, s)]
          <6> HIDE DEF g, Step
          <6> QED BY <3>6
        <5> QED BY <5>1
      <4> HIDE DEF g
      <4> QED BY <4>1 DEF Sums
    <3> QED BY <3>7
  <2>3. CASE m # 0 /\ m - 1 \in missing
    BY <2>3
  <2> QED BY <2>1, <2>2, <2>3
<1>2. missing = {}
  <2> HIDE DEF missing
  <2>1. missing \in SUBSET Nat
    BY DEF missing
  <2> QED BY <1>1, <2>1, NoLeastIsEmpty
<1>3. Cardinality(S) \in Nat /\ \A s \in SUBSET S : Cardinality(s) <= Cardinality(S)
  BY FS_CardinalityType, FS_Subset
<1>4. Size(S, Cardinality(S)) = SUBSET S
  BY <1>3 DEF Size
<1> QED BY <1>2, <1>3, <1>4

\* The function that sums the subsets of S.
Total(S) == CHOOSE f : Sums(f, SUBSET S)

LEMMA TotalUnfolds ==
    ASSUME NEW S, IsFiniteSet(S)
    PROVE  /\ SumOf(S) = Total(S)[S]
           /\ Total(S)[{}] = 0
           /\ \A s \in SUBSET S : s # {} =>
                Total(S)[s] = Signed(Some(s)) + Total(S)[s \ {Some(s)}]
<1>1. Sums(Total(S), SUBSET S)
  BY SumsExist, Zenon DEF Total
<1>2. SumOf(S) = Total(S)[S]
  BY SumUnfolds, Zenon DEF Total
<1>3. \A s \in SUBSET S : Total(S)[s] = IF s = {} THEN 0
                     ELSE Signed(Some(s)) + Total(S)[s \ {Some(s)}]
  BY <1>1 DEF Sums
<1> QED BY <1>2, <1>3

\* The order in which the entries are taken makes no difference.
LEMMA TotalTakesAny ==
    ASSUME NEW S \in SUBSET Entry, IsFiniteSet(S)
    PROVE  \A s \in SUBSET S :
               /\ Total(S)[s] \in Int
               /\ \A e \in s : Total(S)[s] = Signed(e) + Total(S)[s \ {e}]
<1> DEFINE F == Total(S)
           Right(s) == F[s] \in Int /\ \A e \in s : F[s] = Signed(e) + F[s \ {e}]
           wrong == {n \in Nat : \E s \in SUBSET S : Cardinality(s) = n /\ ~Right(s)}
<1>a. \A e \in S : Signed(e) \in Int
  BY DEF Signed, Entry
<1>b. \A s \in SUBSET S : IsFiniteSet(s) /\ Cardinality(s) \in Nat
  BY FS_Subset, FS_CardinalityType
<1>c. F[{}] = 0 /\ \A s \in SUBSET S : s # {} => F[s] = Signed(Some(s)) + F[s \ {Some(s)}]
  BY TotalUnfolds
<1> HIDE DEF F
<1>1. ASSUME NEW m \in wrong PROVE \E k \in wrong : k < m
  <2>1. PICK s \in SUBSET S : Cardinality(s) = m /\ ~Right(s)
    OBVIOUS
  <2>2. SUFFICES ASSUME \A k \in wrong : ~(k < m)
                 PROVE  FALSE
    OBVIOUS
  <2>3. \A t \in SUBSET S : Cardinality(t) < m => Right(t)
    BY <1>b, <2>2
  <2>4. s # {}
    <3>1. Right({})
      BY <1>c
    <3> QED BY <2>1, <3>1
  <2>5. \A e \in s : s \ {e} \in SUBSET S /\ Cardinality(s \ {e}) < m
    <3>1. \A e \in s : Cardinality(s \ {e}) = Cardinality(s) - 1
      BY <1>b, FS_RemoveElement
    <3> QED BY <1>b, <2>1, <3>1
  <2> DEFINE x == Some(s)
  <2>6. x \in s /\ F[s] = Signed(x) + F[s \ {x}]
    BY <1>c, <2>4, SomeIn
  <2> HIDE DEF x
  <2>7. F[s] \in Int
    BY <1>a, <2>3, <2>5, <2>6
  <2>8. ASSUME NEW e \in s PROVE F[s] = Signed(e) + F[s \ {e}]
    <3>1. CASE e = x
      BY <2>6, <3>1
    <3>2. CASE e # x
      <4>1. F[s \ {x}] = Signed(e) + F[(s \ {x}) \ {e}]
        BY <2>3, <2>5, <2>6, <3>2
      <4>2. F[s \ {e}] = Signed(x) + F[(s \ {e}) \ {x}]
        BY <2>3, <2>5, <2>6, <3>2
      <4>3. (s \ {x}) \ {e} = (s \ {e}) \ {x}
        OBVIOUS
      <4>4. F[(s \ {e}) \ {x}] \in Int
        <5>1. Cardinality((s \ {e}) \ {x}) <= Cardinality(s \ {e})
          BY <1>b, <2>5, FS_RemoveElement
        <5>2. (s \ {e}) \ {x} \in SUBSET S
          OBVIOUS
        <5>3. Cardinality((s \ {e}) \ {x}) < m
          BY <1>b, <2>1, <2>5, <5>1, <5>2
        <5> QED BY <2>3, <5>2, <5>3
      <4>5. Signed(x) \in Int /\ Signed(e) \in Int
        BY <1>a, <2>6
      <4>6. F[s \ {x}] \in Int /\ F[s \ {e}] \in Int
        BY <2>3, <2>5, <2>6
      <4>7. F[(s \ {x}) \ {e}] = F[(s \ {e}) \ {x}]
        BY <4>3
      <4> HIDE DEF Right
      <4> QED BY <2>6, <4>1, <4>2, <4>4, <4>5, <4>6, <4>7
    <3> QED BY <3>1, <3>2
  <2> QED BY <2>1, <2>7, <2>8
<1>2. wrong = {}
  <2>1. wrong \in SUBSET Nat
    OBVIOUS
  <2> HIDE DEF wrong
  <2> QED BY <1>1, <2>1, NoLeastIsEmpty
<1>3. \A s \in SUBSET S : Right(s)
  BY <1>b, <1>2
<1> QED BY <1>3 DEF F

\* The total of a set is the same within any larger one.
LEMMA TotalsAgree ==
    ASSUME NEW T \in SUBSET Entry, IsFiniteSet(T), NEW S \in SUBSET T
    PROVE  Total(S)[S] = Total(T)[S]
<1> DEFINE F == Total(S)
           G == Total(T)
           wrong == {n \in Nat : \E s \in SUBSET S : Cardinality(s) = n /\ F[s] # G[s]}
<1>a. IsFiniteSet(S)
  BY FS_Subset
<1>b. \A s \in SUBSET S : IsFiniteSet(s) /\ Cardinality(s) \in Nat
  BY <1>a, FS_Subset, FS_CardinalityType
<1>c. F[{}] = 0 /\ \A s \in SUBSET S : s # {} => F[s] = Signed(Some(s)) + F[s \ {Some(s)}]
  BY <1>a, TotalUnfolds
<1>d. G[{}] = 0 /\ \A s \in SUBSET S : s # {} => G[s] = Signed(Some(s)) + G[s \ {Some(s)}]
  BY TotalUnfolds
<1> HIDE DEF F, G
<1>1. ASSUME NEW m \in wrong PROVE \E k \in wrong : k < m
  <2>1. PICK s \in SUBSET S : Cardinality(s) = m /\ F[s] # G[s]
    OBVIOUS
  <2>2. s # {} /\ Some(s) \in s
    BY <1>c, <1>d, <2>1, SomeIn
  <2> DEFINE t == s \ {Some(s)}
  <2>3. t \in SUBSET S /\ F[t] # G[t]
    BY <1>c, <1>d, <2>1, <2>2
  <2>4. Cardinality(t) < m /\ Cardinality(t) \in Nat
    <3>1. Cardinality(t) = Cardinality(s) - 1
      BY <1>b, <2>2, FS_RemoveElement
    <3> QED BY <1>b, <2>1, <3>1
  <2> QED BY <2>3, <2>4
<1>2. wrong = {}
  <2>1. wrong \in SUBSET Nat
    OBVIOUS
  <2> HIDE DEF wrong
  <2> QED BY <1>1, <2>1, NoLeastIsEmpty
<1> QED BY <1>b, <1>2 DEF F, G

\* What is used of sums from here on.
LEMMA SumOfNone == SumOf({}) = 0
BY FS_EmptySet, TotalUnfolds

LEMMA SumIsInt ==
    ASSUME NEW S \in SUBSET Entry, IsFiniteSet(S)
    PROVE  SumOf(S) \in Int
BY TotalUnfolds, TotalTakesAny

LEMMA SumAdds ==
    ASSUME NEW S \in SUBSET Entry, IsFiniteSet(S), NEW e \in Entry, e \notin S
    PROVE  /\ SumOf(S) \in Int
           /\ SumOf(S \cup {e}) = SumOf(S) + Signed(e)
<1> DEFINE T == S \cup {e}
<1>1. T \in SUBSET Entry /\ IsFiniteSet(T) /\ S \in SUBSET T /\ T \ {e} = S
  BY FS_AddElement
<1>2. Total(T)[T] = Signed(e) + Total(T)[S]
  BY <1>1, TotalTakesAny
<1>3. SumOf(T) = Total(T)[T] /\ SumOf(S) = Total(S)[S]
  BY <1>1, TotalUnfolds
<1>4. Total(S)[S] = Total(T)[S]
  BY <1>1, TotalsAgree
<1>5. Total(S)[S] \in Int
  BY TotalTakesAny
<1>6. Signed(e) \in Int
  BY DEF Signed, Entry
<1> QED BY <1>2, <1>3, <1>4, <1>5, <1>6

(***************************************************************************)
(* Balances.  What one transaction adds to one account is finite, so its   *)
(* balance is the one before and what the transaction adds to it.          *)
(***************************************************************************)
\* The entries of one account: of one Journey, in one unit.
EntriesOf(j, u) == {e \in ledger : e.journey = j /\ e.unit = u}

FiniteAccounts == \A j \in Journeys, u \in Units : IsFiniteSet(EntriesOf(j, u))

LEMMA BalanceIsSum ==
    \A j, u : Balance(j, u) = SumOf(EntriesOf(j, u))
BY DEF Balance, SumOf, EntriesOf

LEMMA AtMostOneIsFinite ==
    ASSUME NEW S, \A d, e \in S : d = e
    PROVE  IsFiniteSet(S)
<1>1. CASE S = {}
  BY <1>1, FS_EmptySet
<1>2. CASE S # {}
  <2>1. PICK e \in S : S = {e}
    BY <1>2
  <2> QED BY <2>1, FS_Singleton
<1> QED BY <1>1, <1>2

\* A transaction adds at most one entry of a kind to an account.
LEMMA FiniteStep ==
    ASSUME TypeOK, FiniteAccounts, UNCHANGED <<ledger, writes>> \/ \E es : Posts(es)
    PROVE  FiniteAccounts'
<1>1. CASE UNCHANGED <<ledger, writes>>
  BY <1>1 DEF FiniteAccounts, EntriesOf
<1>2. ASSUME NEW es, Posts(es), NEW j \in Journeys, NEW u \in Units
      PROVE  IsFiniteSet(EntriesOf(j, u)')
  <2> DEFINE Added(c) == {e \in es : e.journey = j /\ e.unit = u /\ e.correction = c}
  <2>1. \A c : IsFiniteSet(Added(c))
    <3>1. \A c : \A d, e \in Added(c) : d = e
      BY <1>2 DEF Posts
    <3> HIDE DEF Added
    <3> QED BY <3>1, AtMostOneIsFinite
  <2>2. EntriesOf(j, u)' = ((EntriesOf(j, u) \cup Added("ORIGINAL"))
                              \cup Added("REVERSAL")) \cup Added("REPLACEMENT")
    <3>1. \A e \in es : e.correction \in {"ORIGINAL", "REVERSAL", "REPLACEMENT"}
      BY <1>2 DEF Posts, Entry, Corrections
    <3>2. EntriesOf(j, u)' = {e \in ledger \cup es : e.journey = j /\ e.unit = u}
      BY <1>2 DEF Posts, EntriesOf
    <3> QED BY <3>1, <3>2 DEF EntriesOf
  <2>3. IsFiniteSet(EntriesOf(j, u))
    BY DEF FiniteAccounts
  <2> HIDE DEF Added
  <2> QED BY <2>1, <2>2, <2>3, FS_Union
<1> QED BY <1>1, <1>2 DEF FiniteAccounts

\* A settlement changes the balance of a unit it settles by its amount.
LEMMA SettledBalance ==
    ASSUME TypeOK, FiniteAccounts, KeysUsed,
           NEW s \in Settlement, s.type \in SettlementOps, Post(SettlementEntries(s)),
           NEW u \in Units, s.amount[u] > 0
    PROVE  /\ Balance(s.journey, u) \in Int
           /\ Balance(s.journey, u)' = IF s.type = "FinalCollaboratorPayment"
                                       THEN Balance(s.journey, u) + s.amount[u]
                                       ELSE Balance(s.journey, u) - s.amount[u]
<1> DEFINE e == SettlementEntry(s, u)
           S == EntriesOf(s.journey, u)
<1>1. e \in SettlementEntries(s)
  BY DEF SettlementEntries
<1>2. e \in Entry
  BY <1>1, PostedEntryTypes
<1>3. e \notin ledger
  <2>1. e.key[1] = writes
    BY DEF SettlementEntry
  <2> QED BY <2>1 DEF KeysUsed, TypeOK
<1>4. EntriesOf(s.journey, u)' = S \cup {e}
  <2>1. EntriesOf(s.journey, u)' =
            {d \in ledger \cup SettlementEntries(s) : d.journey = s.journey /\ d.unit = u}
    BY DEF Post, EntriesOf
  <2>2. \A d \in SettlementEntries(s) : d.unit = u => d = e
    BY DEF SettlementEntries, SettlementEntry
  <2>3. e.journey = s.journey /\ e.unit = u
    BY DEF SettlementEntry
  <2> HIDE DEF e
  <2> QED BY <1>1, <2>1, <2>2, <2>3 DEF EntriesOf
<1>5. Signed(e) = IF s.type = "FinalCollaboratorPayment"
                  THEN s.amount[u] ELSE -s.amount[u]
  BY DEF SettlementEntry, Signed
<1>6. S \in SUBSET Entry /\ IsFiniteSet(S) /\ e \notin S
  BY <1>3 DEF EntriesOf, TypeOK, FiniteAccounts, Settlement
<1>7. s.amount[u] \in Nat
  BY DEF Settlement, Amounts
<1> HIDE DEF e, S
<1>8. SumOf(S) \in Int /\ SumOf(S \cup {e}) = SumOf(S) + Signed(e)
  BY <1>2, <1>6, SumAdds
<1>9. Balance(s.journey, u) = SumOf(S) /\ Balance(s.journey, u)' = SumOf(S \cup {e})
  BY <1>4, BalanceIsSum DEF S, SumOf, Balance, EntriesOf
<1> QED BY <1>5, <1>7, <1>8, <1>9

LEMMA BalancesAreInt ==
    ASSUME TypeOK, FiniteAccounts, NEW j \in Journeys, NEW u \in Units
    PROVE  Balance(j, u) \in Int
<1>1. EntriesOf(j, u) \in SUBSET Entry /\ IsFiniteSet(EntriesOf(j, u))
  BY DEF EntriesOf, TypeOK, FiniteAccounts
<1> QED BY <1>1, SumIsInt, BalanceIsSum

(***************************************************************************)
(* Serial requests.  Two races of the account are disagreements of the     *)
(* code with what it says (the runs payout_race and closure_race): a       *)
(* settlement is derived from balances read some steps before it, and a    *)
(* closure from blockers read before it.  Neither is left when no two      *)
(* requests about one Journey overlap and its accruals are not calculated  *)
(* while it is being closed.  One worker at a time is a special case.      *)
(***************************************************************************)
\* The Journey that the request at w is about.
About(w) == IF job[w].op \in {"ReverseEntry", "ReplaceEntry"}
            THEN job[w].original.journey ELSE job[w].journey

\* No two requests under way are about the same Journey, which neither the
\* handlers nor their transactions see to.
OneRequestPerJourney ==
    \A v, w \in Workers :
        pc[v] # "idle" /\ pc[w] # "idle" /\ About(v) = About(w) => v = w

\* Having found no accrual PENDING, and before closing.
PastAccruals(w) == job[w].op = "CloseJourney" /\ pc[w] \in {"receipts", "commit"}

\* Calculations leave alone the accrual of a Journey that a closure has
\* passed by.
AccrualsWait ==
    \A w \in Workers : PastAccruals(w) =>
        accrual'[job[w].journey] = accrual[job[w].journey]

(***************************************************************************)
(* What a step does to the account, by how far its handler is.             *)
(***************************************************************************)
\* No handler moves, and what was discharged stays so.
Aside ==
    /\ UNCHANGED <<ledger, settlements, closed, pc, job>>
    /\ DOMAIN receipts' = DOMAIN receipts

\* A handler has read; what it has read is known where it matters.
Read(w) ==
    /\ UNCHANGED <<rows, closed, accrual>>
    /\ \/ ReadBalances(w) \/ BeginFinalPayment(w)
       \/ PreviewAccruals(w) \/ PreviewReceipts(w)
       \/ \E next, j : /\ Goto(w, next, j)
                       /\ j.op \in SettlementOps =>
                            j.op \notin FinalOps /\ next = "balances"
                       /\ j.op = "CloseJourney" => next \notin {"receipts", "commit"}
                       /\ next = "award" => j.op = "ApproveJourneyBonusAward"

\* A handler has written, to the Journey of its request only.
Written(w) ==
    /\ pc[w] = "commit" /\ Finish(w)
    /\ \A e \in ledger' \ ledger : e.journey = About(w)
    /\ \A e \in DOMAIN receipts' \ DOMAIN receipts : e.journey = About(w)
    /\ \A j \in closed' \ closed : j = About(w)
    /\ \A j \in Journeys : j # About(w) => accrual'[j] = accrual[j]

\* Posting entries of the Journey obliges receipts of the Journey.
LEMMA PostedAbout ==
    ASSUME NEW es, NEW j, Post(es), \A e \in es : e.journey = j
    PROVE  /\ \A e \in ledger' \ ledger : e.journey = j
           /\ \A e \in DOMAIN receipts' \ DOMAIN receipts : e.journey = j
BY DEF Post, Obliged

\* Only an approval reads an award.
AwardsApproved ==
    \A w \in Workers : pc[w] = "award" => job[w].op = "ApproveJourneyBonusAward"

\* Every step leaves the handlers aside, or is one handler's read or write.
LEMMA HandlerSteps ==
    ASSUME TypeOK, AwardsApproved, [Next]_vars
    PROVE  Aside \/ \E w \in Workers : Read(w) \/ Written(w)
<1> DEFINE Goal == Aside \/ \E w \in Workers : Read(w) \/ Written(w)
           Quiet(next, j) == /\ j.op \in SettlementOps =>
                                    j.op \notin FinalOps /\ next = "balances"
                             /\ j.op = "CloseJourney" => next \notin {"receipts", "commit"}
                             /\ next = "award" => j.op = "ApproveJourneyBonusAward"
<1>a. ASSUME NEW w \in Workers, NEW next, NEW j, Quiet(next, j), Goto(w, next, j),
             UNCHANGED <<rows, closed, accrual>>
      PROVE  Read(w)
  BY <1>a DEF Read
<1>b. ASSUME NEW w \in Workers, Finish(w), UNCHANGED <<rows, closed, accrual>>
      PROVE  Read(w)
  BY <1>a, <1>b DEF Finish, NoJob, SettlementOps, PayoutOps, FinalOps
<1>c. ASSUME NEW w \in Workers, NEW j, Goto(w, "commit", j), UNCHANGED <<rows, journey>>,
             j.op \in {"ReverseEntry", "ReplaceEntry", "CreateExpense", "PostRun"}
      PROVE  Read(w)
  BY <1>a, <1>c DEF SettlementOps, PayoutOps, FinalOps, journey
<1>1. ASSUME NEW w \in Workers, Settling(w)
      PROVE  Goal
  <2>1. CASE BeginPartialPayout(w) \/ BeginZeroGold(w)
    <3>1. ASSUME NEW j, NEW op \in PayoutOps, j.op = op, Goto(w, "balances", j),
                 UNCHANGED <<rows, journey>>
          PROVE  Read(w)
      BY <1>a, <3>1 DEF PayoutOps, FinalOps, journey
    <3>2. CASE BeginPartialPayout(w)
      BY <3>1, <3>2 DEF BeginPartialPayout, PayoutOps
    <3>3. CASE BeginZeroGold(w)
      BY <3>1, <3>3 DEF BeginZeroGold, PayoutOps
    <3> QED BY <2>1, <3>2, <3>3
  <2>2. CASE BeginFinalPayment(w) \/ ReadBalances(w)
    BY <2>2 DEF BeginFinalPayment, ReadBalances, Read, journey
  <2>3. CASE CommitSettlement(w)
    <3> DEFINE s == [journey |-> job[w].journey, request |-> job[w].request,
                     type |-> job[w].op, amount |-> job[w].amount]
    <3>1. About(w) = s.journey
      BY <2>3 DEF CommitSettlement, About, SettlementOps, PayoutOps, FinalOps
    <3>2. \A e \in SettlementEntries(s) : e.journey = s.journey
      BY DEF SettlementEntries, SettlementEntry
    <3>3. UNCHANGED <<ledger, receipts>> \/ Post(SettlementEntries(s))
      BY <2>3 DEF CommitSettlement, rows
    <3>4. Written(w)
      <4>1. /\ \A e \in ledger' \ ledger : e.journey = About(w)
            /\ \A e \in DOMAIN receipts' \ DOMAIN receipts : e.journey = About(w)
        BY <3>1, <3>2, <3>3, PostedAbout
      <4> QED BY <2>3, <4>1 DEF CommitSettlement, Written, journey
    <3> QED BY <3>4
  <2> QED BY <1>1, <2>1, <2>2, <2>3 DEF Settling
<1>2. ASSUME NEW w \in Workers, Closing(w)
      PROVE  Goal
  <2>1. CASE BeginCloseJourney(w)
    <3>1. PICK j : Goto(w, "balances", j) /\ j.op = "CloseJourney"
      BY <2>1 DEF BeginCloseJourney
    <3>2. Quiet("balances", j)
      BY <3>1 DEF SettlementOps, PayoutOps, FinalOps
    <3> QED BY <1>a, <2>1, <3>1, <3>2 DEF BeginCloseJourney, journey
  <2>2. CASE PreviewBalances(w)
    <3>1. Finish(w) \/ Goto(w, "accruals", job[w])
      BY <2>2 DEF PreviewBalances, Preview
    <3>2. Quiet("accruals", job[w])
      BY <2>2 DEF PreviewBalances, Preview, SettlementOps, PayoutOps, FinalOps
    <3> QED BY <1>a, <1>b, <2>2, <3>1, <3>2 DEF PreviewBalances, Preview, journey
  <2>3. CASE PreviewAccruals(w) \/ PreviewReceipts(w)
    BY <2>3 DEF PreviewAccruals, PreviewReceipts, Preview, Read, journey
  <2>4. CASE CommitCloseJourney(w)
    <3>1. About(w) = job[w].journey
      BY <2>4 DEF CommitCloseJourney, About
    <3>2. \A j \in closed' \ closed : j = About(w)
      BY <2>4, <3>1 DEF CommitCloseJourney
    <3> QED BY <2>4, <3>2 DEF CommitCloseJourney, Written
  <2> QED BY <1>2, <2>1, <2>2, <2>3, <2>4 DEF Closing
<1>3. ASSUME NEW w \in Workers, Correcting(w)
      PROVE  Goal
  <2>1. CASE BeginReverseEntry(w) \/ BeginReplaceEntry(w)
    <3>1. CASE BeginReverseEntry(w)
      BY <1>c, <3>1 DEF BeginReverseEntry
    <3>2. CASE BeginReplaceEntry(w)
      BY <1>c, <3>2 DEF BeginReplaceEntry
    <3> QED BY <2>1, <3>1, <3>2
  <2>2. CASE CommitCorrection(w)
    <3>1. About(w) = job[w].original.journey
      BY <2>2 DEF CommitCorrection, About
    <3>2. \A e \in CorrectionEntries(job[w]) : e.journey = About(w)
      BY <3>1 DEF CorrectionEntries, Reversal, CorrectionEntry
    <3>3. /\ \A e \in ledger' \ ledger : e.journey = About(w)
          /\ \A e \in DOMAIN receipts' \ DOMAIN receipts : e.journey = About(w)
      BY <2>2, <3>2, PostedAbout DEF CommitCorrection
    <3> QED BY <2>2, <3>3 DEF CommitCorrection, Written, journey
  <2> QED BY <1>3, <2>1, <2>2 DEF Correcting
<1>4. ASSUME NEW w \in Workers, Receipting(w)
      PROVE  Goal
  <2>1. UNCHANGED <<settlements, closed, pc, job>>
    BY <1>4 DEF Receipting, PrintReceipt, ReturnReceipt, AcceptReceipt, journey
  <2> QED BY <1>4, <2>1, ReceiptingEffect DEF Aside
<1>5. ASSUME NEW w \in Workers, Others(w)
      PROVE  Goal
  <2>1. CASE CalculateAccruals(w) \/ ResolveExtension(w)
    BY <2>1 DEF CalculateAccruals, ResolveExtension, Aside, rows
  <2>2. CASE BeginCreateExpense(w) \/ BeginPostRun(w)
    <3>1. CASE BeginCreateExpense(w)
      BY <1>c, <3>1 DEF BeginCreateExpense
    <3>2. CASE BeginPostRun(w)
      BY <1>c, <3>2 DEF BeginPostRun
    <3> QED BY <2>2, <3>1, <3>2
  <2>3. CASE BeginExtendJourney(w) \/ BeginCreateAward(w) \/ BeginApproveAward(w)
    <3>1. ASSUME NEW op \in {"ExtendJourney", "CreateJourneyBonusAward",
                             "ApproveJourneyBonusAward"},
                 NEW next, next = "award" => op = "ApproveJourneyBonusAward",
                 BeginOnOpenJourney(w, op, next)
          PROVE  Read(w)
      <4>1. PICK j \in Journeys : Goto(w, next, [op |-> op, journey |-> j])
        BY <3>1 DEF BeginOnOpenJourney
      <4>2. Quiet(next, [op |-> op, journey |-> j])
        BY <3>1 DEF SettlementOps, PayoutOps, FinalOps
      <4> QED BY <1>a, <3>1, <4>1, <4>2 DEF BeginOnOpenJourney, journey
    <3> QED BY <2>3, <3>1 DEF BeginExtendJourney, BeginCreateAward, BeginApproveAward
  <2>4. CASE ReadAward(w)
    <3>1. Finish(w) \/ Goto(w, "commit", job[w])
      BY <2>4 DEF ReadAward
    <3>2. Quiet("commit", job[w])
      BY <2>4 DEF ReadAward, AwardsApproved, SettlementOps, PayoutOps, FinalOps
    <3> QED BY <1>a, <1>b, <2>4, <3>1, <3>2 DEF ReadAward, journey
  <2>5. CASE CommitExtendJourney(w) \/ CommitCreateAward(w)
    BY <1>b, <2>5 DEF CommitExtendJourney, CommitCreateAward, rows
  <2>6. CASE CommitCreateExpense(w) \/ CommitPostRun(w) \/ CommitApproveAward(w)
    <3>1. About(w) = job[w].journey
      BY <2>6 DEF CommitCreateExpense, CommitPostRun, CommitApproveAward, About
    <3>2. UNCHANGED <<ledger, receipts>> \/ \E u, d, a, t : Post({OtherEntry(job[w].journey, u, d, a, t)})
      BY <2>6 DEF CommitCreateExpense, CommitPostRun, CommitApproveAward
    <3>3. \A u, d, a, t : OtherEntry(job[w].journey, u, d, a, t).journey = About(w)
      BY <3>1 DEF OtherEntry
    <3>4. /\ \A e \in ledger' \ ledger : e.journey = About(w)
          /\ \A e \in DOMAIN receipts' \ DOMAIN receipts : e.journey = About(w)
      <4>1. CASE UNCHANGED <<ledger, receipts>>
        BY <4>1
      <4>2. ASSUME NEW u, NEW d, NEW a, NEW t,
                   Post({OtherEntry(job[w].journey, u, d, a, t)})
            PROVE  /\ \A e \in ledger' \ ledger : e.journey = About(w)
                   /\ \A e \in DOMAIN receipts' \ DOMAIN receipts : e.journey = About(w)
        <5>1. \A e \in {OtherEntry(job[w].journey, u, d, a, t)} : e.journey = About(w)
          BY <3>3
        <5> QED BY <4>2, <5>1, PostedAbout
      <4> QED BY <3>2, <4>1, <4>2
    <3>5. \A j \in Journeys : j # About(w) => accrual'[j] = accrual[j]
      BY <2>6, <3>1 DEF CommitCreateExpense, CommitPostRun, CommitApproveAward, journey, TypeOK
    <3> QED BY <2>6, <3>4, <3>5
        DEF CommitCreateExpense, CommitPostRun, CommitApproveAward, Written, journey
  <2> QED BY <1>5, <2>1, <2>2, <2>3, <2>4, <2>5, <2>6 DEF Others
<1>6. CASE UNCHANGED vars
  BY <1>6 DEF vars, Aside
<1> QED BY <1>1, <1>2, <1>3, <1>4, <1>5, <1>6 DEF Next

LEMMA AwardsApprovedStep ==
    ASSUME TypeOK, AwardsApproved, [Next]_vars
    PROVE  AwardsApproved'
<1>1. CASE Aside
  BY <1>1 DEF Aside, AwardsApproved
<1>2. ASSUME NEW w \in Workers, Read(w), NEW v \in Workers, pc'[v] = "award"
      PROVE  job'[v].op = "ApproveJourneyBonusAward"
  <2>1. ASSUME NEW next, NEW j, Goto(w, next, j),
               next = "award" => j.op = "ApproveJourneyBonusAward"
        PROVE  job'[v].op = "ApproveJourneyBonusAward"
    BY <1>2, <2>1 DEF Goto, TypeOK, AwardsApproved
  <2>2. CASE ReadBalances(w)
    BY <2>1, <2>2 DEF ReadBalances, Finish
  <2>3. CASE BeginFinalPayment(w)
    BY <2>1, <2>3 DEF BeginFinalPayment
  <2>4. CASE PreviewAccruals(w) \/ PreviewReceipts(w)
    BY <2>1, <2>4 DEF PreviewAccruals, PreviewReceipts, Preview, Finish
  <2> QED BY <1>2, <2>1, <2>2, <2>3, <2>4 DEF Read
<1>3. ASSUME NEW w \in Workers, Written(w)
      PROVE  AwardsApproved'
  BY <1>3 DEF Written, Finish, Goto, TypeOK, AwardsApproved
<1> QED BY <1>1, <1>2, <1>3, HandlerSteps DEF AwardsApproved

(***************************************************************************)
(* What a handler has read of a Journey of its own still stands.           *)
(***************************************************************************)
\* What the settlement to be written was derived from.
Derives(op, amount, balance) ==
    CASE op \in PayoutOps                -> amount <= balance
      [] op = "FinalTenantPayment"       -> amount = balance
      [] op = "FinalCollaboratorPayment" -> amount = -balance

\* The amounts about to be committed are those the balances give now.
BalancesStand ==
    \A w \in Workers : pc[w] = "commit" /\ job[w].op \in SettlementOps =>
        \A u \in Units : job[w].amount[u] > 0 =>
            Derives(job[w].op, job[w].amount[u], SumOf(EntriesOf(job[w].journey, u)))

\* The Journey of a final payment under way is still open.
FinalsOpen ==
    \A w \in Workers : pc[w] # "idle" /\ job[w].op \in FinalOps =>
        job[w].journey \notin closed

\* No accrual found settled by a closure under way is PENDING again.
AccrualsStand ==
    \A w \in Workers : PastAccruals(w) => accrual[job[w].journey] # "PENDING"

\* No receipt of a Journey about to be closed is outstanding.
ReceiptsStand ==
    \A w \in Workers : pc[w] = "commit" /\ job[w].op = "CloseJourney" =>
        Outstanding(job[w].journey) = {}

\* Another request has written to another Journey.
LEMMA OthersWrite ==
    ASSUME TypeOK, OneRequestPerJourney, NEW w \in Workers, Written(w),
           NEW v \in Workers, pc'[v] # "idle"
    PROVE  /\ pc'[v] = pc[v] /\ job'[v] = job[v] /\ About(v) # About(w)
           /\ pc[v] # "idle"
<1>1. v # w
  BY DEF Written, Finish, Goto, TypeOK
<1>2. pc'[v] = pc[v] /\ job'[v] = job[v]
  BY <1>1 DEF Written, Finish, Goto, TypeOK
<1> QED BY <1>1, <1>2 DEF OneRequestPerJourney, Written

\* No step but a write touches the entries of a Journey.
LEMMA EntriesStand ==
    ASSUME ledger \subseteq ledger', NEW j, NEW k, j # k,
           \A e \in ledger' \ ledger : e.journey = k
    PROVE  \A u : EntriesOf(j, u)' = EntriesOf(j, u)
BY DEF EntriesOf

\* Amounts derived from balances, and not refused, are what these cover.
LEMMA DerivedStands ==
    ASSUME NEW op \in SettlementOps, NEW asked, NEW balance \in [Units -> Int],
           NEW amount, amount = Derived(op, asked, balance),
           Settles(op, amount, balance), NEW u \in Units, amount[u] > 0
    PROVE  Derives(op, amount[u], balance[u])
<1>1. CASE op = "PartialPayout"
  BY <1>1 DEF Settles, Derives, PayoutOps
<1>2. CASE op = "ZeroGold"
  BY <1>2 DEF Derived, Derives, PayoutOps
<1>3. CASE op = "FinalTenantPayment"
  BY <1>3 DEF Derived, Derives, PayoutOps
<1>4. CASE op = "FinalCollaboratorPayment"
  BY <1>4 DEF Derived, Derives, PayoutOps
<1> QED BY <1>1, <1>2, <1>3, <1>4 DEF SettlementOps, PayoutOps, FinalOps

LEMMA BalancesStandStep ==
    ASSUME TypeOK, AwardsApproved, FiniteAccounts, OneRequestPerJourney, BalancesStand,
           [Next]_vars
    PROVE  BalancesStand'
<1> SUFFICES ASSUME NEW v \in Workers, pc'[v] = "commit", job'[v].op \in SettlementOps,
                    NEW u \in Units, job'[v].amount[u] > 0,
                    NEW k, k = job'[v].journey
             PROVE  Derives(job'[v].op, job'[v].amount[u], SumOf(EntriesOf(k, u)'))
  BY DEF BalancesStand, EntriesOf
<1>a. job \in [Workers -> Job] /\ pc \in [Workers -> Steps]
  BY DEF TypeOK
<1>b. ASSUME pc'[v] = pc[v], job'[v] = job[v],
             EntriesOf(k, u)' = EntriesOf(k, u)
      PROVE  Derives(job'[v].op, job'[v].amount[u], SumOf(EntriesOf(k, u)'))
  <2>1. Derives(job[v].op, job[v].amount[u], SumOf(EntriesOf(job[v].journey, u)))
    BY <1>b DEF BalancesStand
  <2> QED BY <1>b, <2>1
<1>c. ASSUME ledger' = ledger
      PROVE  EntriesOf(k, u)' = EntriesOf(k, u)
  BY <1>c DEF EntriesOf
<1>1. CASE Aside
  BY <1>1, <1>b, <1>c DEF Aside
<1>2. ASSUME NEW w \in Workers, Read(w)
      PROVE  Derives(job'[v].op, job'[v].amount[u], SumOf(EntriesOf(k, u)'))
  <2>a. ledger' = ledger
    BY <1>2 DEF Read, rows
  <2>1. ASSUME NEW next, NEW j, Goto(w, next, j),
               next = "commit" => j.op \notin SettlementOps
        PROVE  v # w /\ pc'[v] = pc[v] /\ job'[v] = job[v]
    BY <1>a, <2>1 DEF Goto
  <2>2. CASE ReadBalances(w)
    <3> DEFINE balance == [x \in Units |-> Balance(job[w].journey, x)]
               amount == Derived(job[w].op, job[w].amount, balance)
    <3>1. CASE amount \in Amounts /\ Settles(job[w].op, amount, balance)
      <4>1. Goto(w, "commit", [job[w] EXCEPT !.amount = amount])
        BY <2>2, <3>1 DEF ReadBalances
      <4>2. CASE v = w
        <5>1. job[w] \in Job /\ job[w].op \in SettlementOps
          BY <1>a, <2>2 DEF ReadBalances
        <5>2. \A a : /\ [job[w] EXCEPT !.amount = a].op = job[w].op
                     /\ [job[w] EXCEPT !.amount = a].journey = job[w].journey
                     /\ [job[w] EXCEPT !.amount = a].amount = a
          BY <5>1 DEF Job, NoJob, SettlementOps, PayoutOps, FinalOps
        <5>3. job'[v] = [job[w] EXCEPT !.amount = amount]
          BY <1>a, <4>1, <4>2 DEF Goto
        <5>4. /\ job'[v].op = job[w].op /\ job'[v].journey = job[w].journey
              /\ job'[v].amount = amount
          BY <5>2, <5>3
        <5>5. balance \in [Units -> Int]
          <6>1. job[w].journey \in Journeys
            BY <5>1 DEF Job, NoJob, SettlementOps, PayoutOps, FinalOps
          <6> QED BY <6>1, BalancesAreInt
        <5>6. Derives(job[w].op, amount[u], balance[u])
          <6> HIDE DEF balance, amount
          <6>1. amount = Derived(job[w].op, job[w].amount, balance)
            BY DEF amount
          <6> QED BY <3>1, <5>1, <5>4, <5>5, <6>1, DerivedStands
        <5>7. balance[u] = SumOf(EntriesOf(k, u))
          BY <5>4, BalanceIsSum
        <5> HIDE DEF balance, amount
        <5> QED BY <5>4, <5>6, <5>7, <1>c, <2>a
      <4>3. CASE v # w
        <5>1. pc'[v] = pc[v] /\ job'[v] = job[v]
          BY <1>a, <4>1, <4>3 DEF Goto
        <5> QED BY <5>1, <1>b, <1>c, <2>a
      <4> QED BY <4>2, <4>3
    <3>2. CASE ~(amount \in Amounts /\ Settles(job[w].op, amount, balance))
      <4>1. Finish(w)
        BY <2>2, <3>2 DEF ReadBalances
      <4> QED BY <2>1, <4>1, <1>b, <1>c, <2>a DEF Finish
    <3> QED BY <3>1, <3>2
  <2>3. CASE BeginFinalPayment(w)
    <3>1. v # w /\ pc'[v] = pc[v] /\ job'[v] = job[v]
      BY <2>1, <2>3 DEF BeginFinalPayment
    <3> QED BY <3>1, <1>b, <1>c, <2>a
  <2>4. CASE PreviewAccruals(w) \/ PreviewReceipts(w)
    <3>1. v # w /\ pc'[v] = pc[v] /\ job'[v] = job[v]
      BY <2>1, <2>4 DEF PreviewAccruals, PreviewReceipts, Preview, Finish, NoJob,
         SettlementOps, PayoutOps, FinalOps
    <3> QED BY <3>1, <1>b, <1>c, <2>a
  <2>5. ASSUME NEW next, NEW j, Goto(w, next, j),
               j.op \in SettlementOps => j.op \notin FinalOps /\ next = "balances"
        PROVE  v # w /\ pc'[v] = pc[v] /\ job'[v] = job[v]
    BY <2>1, <2>5
  <2> QED BY <1>2, <2>2, <2>3, <2>4, <2>5, <1>b, <1>c, <2>a DEF Read
<1>3. ASSUME NEW w \in Workers, Written(w)
      PROVE  Derives(job'[v].op, job'[v].amount[u], SumOf(EntriesOf(k, u)'))
  <2>1. pc'[v] = pc[v] /\ job'[v] = job[v] /\ About(v) # About(w)
    BY <1>3, OthersWrite
  <2>2. About(v) = job[v].journey
    BY <2>1 DEF About, SettlementOps, PayoutOps, FinalOps
  <2>3. EntriesOf(k, u)' = EntriesOf(k, u)
    BY <1>3, <2>1, <2>2, LedgerGrows, EntriesStand DEF Written
  <2> QED BY <1>b, <2>1, <2>3
<1> QED BY <1>1, <1>2, <1>3, HandlerSteps

LEMMA FinalsOpenStep ==
    ASSUME TypeOK, AwardsApproved, OneRequestPerJourney, FinalsOpen, [Next]_vars
    PROVE  FinalsOpen'
<1> SUFFICES ASSUME NEW v \in Workers, pc'[v] # "idle", job'[v].op \in FinalOps
             PROVE  job'[v].journey \notin closed'
  BY DEF FinalsOpen
<1>a. job \in [Workers -> Job] /\ pc \in [Workers -> Steps]
  BY DEF TypeOK
<1>1. CASE Aside
  BY <1>1 DEF Aside, FinalsOpen
<1>2. ASSUME NEW w \in Workers, Read(w)
      PROVE  job'[v].journey \notin closed'
  <2>a. closed' = closed
    BY <1>2 DEF Read
  <2>1. ASSUME NEW next, NEW j, Goto(w, next, j),
               j.op \in FinalOps => next = "idle" \/ j.journey \notin closed
        PROVE  job'[v].journey \notin closed'
    BY <1>a, <2>a, <2>1 DEF Goto, FinalsOpen
  <2>2. CASE ReadBalances(w)
    <3>1. job[w] \in Job /\ job[w].op \in SettlementOps /\ pc[w] # "idle"
      BY <1>a, <2>2 DEF ReadBalances
    <3>2. \A a : /\ [job[w] EXCEPT !.amount = a].op = job[w].op
                 /\ [job[w] EXCEPT !.amount = a].journey = job[w].journey
      BY <3>1 DEF Job, NoJob, SettlementOps, PayoutOps, FinalOps
    <3>3. \/ \E a : Goto(w, "commit", [job[w] EXCEPT !.amount = a])
          \/ Finish(w)
      BY <2>2 DEF ReadBalances
    <3>4. job[w].op \in FinalOps => job[w].journey \notin closed
      BY <3>1 DEF FinalsOpen
    <3>5. CASE Finish(w)
      BY <2>1, <3>5 DEF Finish
    <3>6. ASSUME NEW a, Goto(w, "commit", [job[w] EXCEPT !.amount = a])
          PROVE  job'[v].journey \notin closed'
      <4> DEFINE j == [job[w] EXCEPT !.amount = a]
      <4>1. j.op = job[w].op /\ j.journey = job[w].journey
        BY <3>2
      <4> HIDE DEF j
      <4>2. Goto(w, "commit", j)
        BY <3>6 DEF j
      <4> QED BY <2>1, <3>4, <4>1, <4>2
    <3> QED BY <3>3, <3>5, <3>6
  <2>3. CASE BeginFinalPayment(w)
    <3>1. PICK op \in FinalOps, j \in Journeys, r \in RequestIds :
            /\ j \notin closed
            /\ Goto(w, "balances", [op |-> op, journey |-> j, request |-> r,
                                    amount |-> NoAmount])
      BY <2>3 DEF BeginFinalPayment
    <3> QED BY <2>1, <3>1
  <2>4. CASE PreviewAccruals(w) \/ PreviewReceipts(w)
    BY <2>1, <2>4 DEF PreviewAccruals, PreviewReceipts, Preview, Finish, FinalOps
  <2>5. ASSUME NEW next, NEW j, Goto(w, next, j),
               j.op \in SettlementOps => j.op \notin FinalOps /\ next = "balances"
        PROVE  job'[v].journey \notin closed'
    BY <2>1, <2>5 DEF SettlementOps
  <2> QED BY <1>2, <2>2, <2>3, <2>4, <2>5 DEF Read
<1>3. ASSUME NEW w \in Workers, Written(w)
      PROVE  job'[v].journey \notin closed'
  <2>1. pc[v] # "idle" /\ job'[v] = job[v] /\ About(v) # About(w)
    BY <1>3, OthersWrite
  <2>2. About(v) = job[v].journey
    BY <2>1 DEF About, FinalOps
  <2> QED BY <1>3, <2>1, <2>2 DEF Written, FinalsOpen
<1> QED BY <1>1, <1>2, <1>3, HandlerSteps

\* A worker comes past the accruals only by the preview.
LEMMA ClosingRead ==
    ASSUME TypeOK, NEW w \in Workers, Read(w), NEW v \in Workers,
           job'[v].op = "CloseJourney", pc'[v] \in {"receipts", "commit"}
    PROVE  \/ job'[v] = job[v] /\ pc'[v] = pc[v]
           \/ v = w /\ job'[v] = job[v] /\ pc'[v] = "receipts" /\ PreviewAccruals(w)
              /\ accrual[job[v].journey] # "PENDING"
           \/ v = w /\ job'[v] = job[v] /\ pc'[v] = "commit" /\ PreviewReceipts(w)
              /\ Outstanding(job[v].journey) = {}
<1> DEFINE Kept == job'[v] = job[v] /\ pc'[v] = pc[v]
<1>a. job \in [Workers -> Job] /\ pc \in [Workers -> Steps]
  BY DEF TypeOK
<1>1. ASSUME NEW next, NEW j, Goto(w, next, j),
             j.op = "CloseJourney" => next \notin {"receipts", "commit"}
      PROVE  Kept
  BY <1>a, <1>1 DEF Goto
<1>2. CASE ReadBalances(w)
  <2>1. job[w] \in Job /\ job[w].op \in SettlementOps
    BY <1>a, <1>2 DEF ReadBalances
  <2>2. \A a : [job[w] EXCEPT !.amount = a].op = job[w].op
    BY <2>1 DEF Job, NoJob, SettlementOps, PayoutOps, FinalOps
  <2>3. \/ \E a : Goto(w, "commit", [job[w] EXCEPT !.amount = a])
        \/ Finish(w)
    BY <1>2 DEF ReadBalances
  <2>4. ASSUME NEW a, Goto(w, "commit", [job[w] EXCEPT !.amount = a])
        PROVE  Kept
    <3>1. [job[w] EXCEPT !.amount = a].op # "CloseJourney"
      BY <2>1, <2>2 DEF SettlementOps, PayoutOps, FinalOps
    <3> QED BY <1>1, <2>4, <3>1
  <2>5. CASE Finish(w)
    BY <1>1, <2>5 DEF Finish
  <2> QED BY <2>3, <2>4, <2>5
<1>3. CASE BeginFinalPayment(w)
  BY <1>1, <1>3 DEF BeginFinalPayment
<1>4. CASE PreviewAccruals(w)
  <2>1. \/ Goto(w, "receipts", job[w]) /\ accrual[job[w].journey] # "PENDING"
        \/ Finish(w)
    BY <1>4 DEF PreviewAccruals, Preview
  <2>2. CASE Finish(w)
    BY <1>1, <2>2 DEF Finish
  <2>3. CASE Goto(w, "receipts", job[w]) /\ accrual[job[w].journey] # "PENDING"
    BY <1>a, <1>4, <2>3 DEF Goto
  <2> QED BY <2>1, <2>2, <2>3
<1>5. CASE PreviewReceipts(w)
  <2>1. \/ Goto(w, "commit", job[w]) /\ Outstanding(job[w].journey) = {}
        \/ Finish(w)
    BY <1>5 DEF PreviewReceipts, Preview
  <2>2. CASE Finish(w)
    BY <1>1, <2>2 DEF Finish
  <2>3. CASE Goto(w, "commit", job[w]) /\ Outstanding(job[w].journey) = {}
    BY <1>a, <1>5, <2>3 DEF Goto
  <2> QED BY <2>1, <2>2, <2>3
<1> QED BY <1>1, <1>2, <1>3, <1>4, <1>5 DEF Read

LEMMA AccrualsStandStep ==
    ASSUME TypeOK, AwardsApproved, OneRequestPerJourney, AccrualsStand, AccrualsWait,
           [Next]_vars
    PROVE  AccrualsStand'
<1> SUFFICES ASSUME NEW v \in Workers, job'[v].op = "CloseJourney",
                    pc'[v] \in {"receipts", "commit"}
             PROVE  accrual'[job'[v].journey] # "PENDING"
  BY DEF AccrualsStand, PastAccruals
<1>a. ASSUME job'[v] = job[v], pc'[v] = pc[v]
      PROVE  accrual'[job'[v].journey] # "PENDING"
  BY <1>a DEF AccrualsStand, PastAccruals, AccrualsWait
<1>1. CASE Aside
  BY <1>1, <1>a DEF Aside
<1>2. ASSUME NEW w \in Workers, Read(w)
      PROVE  accrual'[job'[v].journey] # "PENDING"
  <2>1. accrual' = accrual
    BY <1>2 DEF Read
  <2>2. CASE v = w /\ job'[v] = job[v] /\ PreviewReceipts(w)
    BY <2>1, <2>2 DEF PreviewReceipts, Preview, AccrualsStand, PastAccruals
  <2> QED BY <1>2, <1>a, <2>1, <2>2, ClosingRead
<1>3. ASSUME NEW w \in Workers, Written(w)
      PROVE  accrual'[job'[v].journey] # "PENDING"
  BY <1>3, <1>a, OthersWrite
<1> QED BY <1>1, <1>2, <1>3, HandlerSteps

LEMMA ReceiptsStandStep ==
    ASSUME TypeOK, AwardsApproved, OneRequestPerJourney, ReceiptsStand, [Next]_vars
    PROVE  ReceiptsStand'
<1> SUFFICES ASSUME NEW v \in Workers, job'[v].op = "CloseJourney", pc'[v] = "commit",
                    NEW e \in DOMAIN receipts', e.journey = job'[v].journey
             PROVE  receipts'[e].status = "RETURNED"
  BY DEF ReceiptsStand, Outstanding
<1>a. ASSUME job'[v] = job[v], e \in DOMAIN receipts, Outstanding(job[v].journey) = {}
      PROVE  receipts'[e].status = "RETURNED"
  <2>1. receipts[e].status = "RETURNED"
    BY <1>a DEF Outstanding
  <2> QED BY <1>a, <2>1, DischargedKept
<1>b. ASSUME job'[v] = job[v], pc'[v] = pc[v]
      PROVE  Outstanding(job[v].journey) = {}
  BY <1>b DEF ReceiptsStand
<1>1. CASE Aside
  BY <1>1, <1>a, <1>b DEF Aside
<1>2. ASSUME NEW w \in Workers, Read(w)
      PROVE  receipts'[e].status = "RETURNED"
  <2>1. receipts' = receipts
    BY <1>2 DEF Read, rows
  <2> QED BY <1>2, <1>a, <1>b, <2>1, ClosingRead
<1>3. ASSUME NEW w \in Workers, Written(w)
      PROVE  receipts'[e].status = "RETURNED"
  <2>1. pc'[v] = pc[v] /\ job'[v] = job[v] /\ About(v) # About(w)
    BY <1>3, OthersWrite
  <2>2. About(v) = job[v].journey
    BY <2>1 DEF About
  <2>3. e \in DOMAIN receipts
    BY <1>3, <2>1, <2>2 DEF Written
  <2> QED BY <1>a, <1>b, <2>1, <2>3
<1> QED BY <1>1, <1>2, <1>3, HandlerSteps

(***************************************************************************)
(* The theorems.                                                           *)
(***************************************************************************)
\* What holds of the accounts however the requests overlap.
Accounts == TypeOK /\ CorrectsLedger /\ KeysUsed /\ KeysName /\ FiniteAccounts
                   /\ AwardsApproved

LEMMA AccountsAlways == Spec => []Accounts
<1>1. Init => CorrectsLedger /\ KeysUsed /\ KeysName /\ FiniteAccounts /\ AwardsApproved
  <2>1. Init => FiniteAccounts /\ AwardsApproved
    BY FS_EmptySet DEF Init, FiniteAccounts, EntriesOf, AwardsApproved
  <2> QED BY <2>1, MapsInit
<1>2. TypeOK /\ TypeOK' /\ Accounts /\ [Next]_vars => Accounts'
  BY CorrectsLedgerStep, LedgerStep, KeysStep, FiniteStep, AwardsApprovedStep DEF Accounts
<1>3. TypeOK /\ CorrectsLedger /\ KeysUsed /\ KeysName /\ FiniteAccounts /\ AwardsApproved
      => Accounts
  BY DEF Accounts
<1> QED BY <1>1, <1>2, <1>3, TypeCorrect, PTL DEF Spec

LEMMA StandInit ==
    Init => BalancesStand /\ FinalsOpen /\ AccrualsStand /\ ReceiptsStand
BY DEF Init, BalancesStand, FinalsOpen, AccrualsStand, ReceiptsStand, PastAccruals

\* A new settlement is what its handler has derived.
LEMMA SettlementsAreDerived ==
    ASSUME TypeOK, [Next]_vars, NEW s \in settlements' \ settlements,
           s.type \in SettlementOps
    PROVE  \E w \in Workers :
            /\ pc[w] = "commit" /\ s \in Settlement
            /\ job[w].op = s.type /\ job[w].journey = s.journey
            /\ job[w].amount = s.amount
            /\ Post(SettlementEntries(s))
<1>1. ASSUME NEW w \in Workers, CommitSettlement(w)
      PROVE  /\ pc[w] = "commit" /\ s \in Settlement
             /\ job[w].op = s.type /\ job[w].journey = s.journey
             /\ job[w].amount = s.amount
             /\ Post(SettlementEntries(s))
  <2> DEFINE t == [journey |-> job[w].journey, request |-> job[w].request,
                   type |-> job[w].op, amount |-> job[w].amount]
  <2>1. settlements' = settlements \cup {t} /\ Post(SettlementEntries(t))
    BY <1>1 DEF CommitSettlement, rows
  <2>2. t \in Settlement
    BY <1>1 DEF CommitSettlement, Job, NoJob, Settlement, SettlementOps, PayoutOps,
       FinalOps, TypeOK
  <2>3. s = t
    BY <2>1
  <2> QED BY <1>1, <2>1, <2>2, <2>3 DEF CommitSettlement
<1>2. ASSUME NEW w \in Workers, CommitCloseJourney(w)
      PROVE  FALSE
  BY <1>2 DEF CommitCloseJourney, SettlementOps, PayoutOps, FinalOps
<1>3. ASSUME NEW w \in Workers, CommitCorrection(w) \/ Receipting(w)
      PROVE  FALSE
  BY <1>3 DEF CommitCorrection, Receipting, PrintReceipt, ReturnReceipt, AcceptReceipt
<1> QED BY <1>1, <1>2, <1>3, StepKinds DEF PostsOther

\* The balances a settlement leaves.
LEMMA SettlementsCovered ==
    ASSUME Accounts, BalancesStand, FinalsOpen, [Next]_vars,
           NEW s \in settlements' \ settlements, s.type \in SettlementOps
    PROVE  /\ s.type \in FinalOps => s.journey \notin closed
           /\ \A u \in Units : s.amount[u] > 0 =>
                IF s.type \in PayoutOps THEN Balance(s.journey, u)' >= 0
                ELSE Balance(s.journey, u)' = 0
<1>1. PICK w \in Workers : /\ pc[w] = "commit" /\ s \in Settlement
                           /\ job[w].op = s.type /\ job[w].journey = s.journey
                           /\ job[w].amount = s.amount
                           /\ Post(SettlementEntries(s))
  BY SettlementsAreDerived DEF Accounts
<1>2. s.type \in FinalOps => s.journey \notin closed
  BY <1>1 DEF FinalsOpen
<1>3. ASSUME NEW u \in Units, s.amount[u] > 0
      PROVE  IF s.type \in PayoutOps THEN Balance(s.journey, u)' >= 0
             ELSE Balance(s.journey, u)' = 0
  <2>1. Derives(s.type, s.amount[u], Balance(s.journey, u))
    <3>1. Derives(s.type, s.amount[u], SumOf(EntriesOf(s.journey, u)))
      BY <1>1, <1>3 DEF BalancesStand
    <3> QED BY <3>1, BalanceIsSum
  <2>2. /\ Balance(s.journey, u) \in Int
        /\ Balance(s.journey, u)' = IF s.type = "FinalCollaboratorPayment"
                                    THEN Balance(s.journey, u) + s.amount[u]
                                    ELSE Balance(s.journey, u) - s.amount[u]
    BY <1>1, <1>3, SettledBalance DEF Accounts
  <2>3. s.amount[u] \in Nat
    BY <1>1 DEF Settlement, Amounts
  <2>4. CASE s.type \in PayoutOps
    <3>1. s.type # "FinalCollaboratorPayment"
      BY <2>4 DEF PayoutOps
    <3>2. s.amount[u] <= Balance(s.journey, u)
      BY <2>1, <2>4, <3>1 DEF Derives, PayoutOps
    <3>3. Balance(s.journey, u)' = Balance(s.journey, u) - s.amount[u]
      BY <2>2, <3>1
    <3>4. Balance(s.journey, u)' >= 0
      BY <2>2, <2>3, <3>2, <3>3
    <3> QED BY <2>4, <3>4
  <2>5. CASE s.type = "FinalTenantPayment"
    BY <2>1, <2>2, <2>3, <2>5 DEF Derives, PayoutOps
  <2>6. CASE s.type = "FinalCollaboratorPayment"
    BY <2>1, <2>2, <2>3, <2>6 DEF Derives, PayoutOps
  <2> QED BY <2>4, <2>5, <2>6 DEF SettlementOps, FinalOps
<1> QED BY <1>2, <1>3

LEMMA StandAlways ==
    Spec /\ []OneRequestPerJourney => [](BalancesStand /\ FinalsOpen /\ ReceiptsStand)
<1>1. Accounts /\ OneRequestPerJourney /\ BalancesStand /\ FinalsOpen /\ ReceiptsStand
        /\ [Next]_vars => (BalancesStand /\ FinalsOpen /\ ReceiptsStand)'
  BY BalancesStandStep, FinalsOpenStep, ReceiptsStandStep DEF Accounts
<1> QED BY <1>1, StandInit, AccountsAlways, PTL DEF Spec

\* Of requests about one Journey that do not overlap, none pays out more
\* than the Journey has: what ErrPayoutExceedsAvailableBalance promises.
THEOREM PayoutsStayCovered ==
    Spec /\ []OneRequestPerJourney => PayoutsCovered
<1>1. Accounts /\ BalancesStand /\ FinalsOpen /\ [Next]_vars =>
        [\A s \in NewSettlements(PayoutOps), u \in Units :
            s.amount[u] > 0 => Balance(s.journey, u)' >= 0]_vars
  BY SettlementsCovered DEF NewSettlements, SettlementOps
<1> QED BY <1>1, AccountsAlways, StandAlways, PTL DEF Spec, PayoutsCovered

\* Such requests leave every unit that a final payment settles at zero, and
\* none is posted to a Journey closed meanwhile (CreateSettlementWithEntries).
THEOREM FinalPaymentsExact ==
    Spec /\ []OneRequestPerJourney => FinalPaymentsSettle
<1>a. PayoutOps \cap FinalOps = {}
  BY DEF PayoutOps, FinalOps
<1>1. Accounts /\ BalancesStand /\ FinalsOpen /\ [Next]_vars =>
        [\A s \in NewSettlements(FinalOps) :
            /\ s.journey \notin closed
            /\ \A u \in Units : s.amount[u] > 0 => Balance(s.journey, u)' = 0]_vars
  BY <1>a, SettlementsCovered DEF NewSettlements, SettlementOps
<1> QED BY <1>1, AccountsAlways, StandAlways, PTL DEF Spec, FinalPaymentsSettle

LEMMA ClosureUnblocked ==
    ASSUME TypeOK, AccrualsStand, ReceiptsStand, [Next]_vars, NEW j \in closed' \ closed
    PROVE  /\ accrual[j] # "PENDING"
           /\ \A e \in DOMAIN receipts :
                e.journey = j => receipts[e].status = "RETURNED"
<1>1. PICK w \in Workers : CommitCloseJourney(w)
  BY StepKinds DEF PostsOther, CommitSettlement, CommitCorrection, Receipting,
     PrintReceipt, ReturnReceipt, AcceptReceipt, journey
<1>2. j = job[w].journey /\ pc[w] = "commit" /\ job[w].op = "CloseJourney"
  BY <1>1 DEF CommitCloseJourney
<1> QED BY <1>2 DEF AccrualsStand, ReceiptsStand, PastAccruals, Outstanding

\* A Journey closes with no receipt outstanding and no accrual PENDING, when
\* besides its accruals wait for a closure that has begun (SettlementPreview,
\* CloseJourneyWithAudit).
THEOREM ClosuresUnblocked ==
    Spec /\ []OneRequestPerJourney /\ [][AccrualsWait]_vars => ClosesUnblocked
<1>1. Accounts /\ OneRequestPerJourney /\ AccrualsStand /\ [Next]_vars
        /\ [AccrualsWait]_vars => AccrualsStand'
  <2> SUFFICES ASSUME Accounts, OneRequestPerJourney, AccrualsStand, [Next]_vars,
                      [AccrualsWait]_vars
               PROVE  AccrualsStand'
    OBVIOUS
  <2>1. CASE AccrualsWait
    BY <2>1, AccrualsStandStep DEF Accounts
  <2>2. CASE UNCHANGED vars
    BY <2>2 DEF vars, AccrualsStand, PastAccruals
  <2> QED BY <2>1, <2>2
<1>2. Accounts /\ AccrualsStand /\ ReceiptsStand /\ [Next]_vars =>
        [\A j \in closed' \ closed :
            /\ accrual[j] # "PENDING"
            /\ \A e \in DOMAIN receipts :
                e.journey = j => receipts[e].status = "RETURNED"]_vars
  BY ClosureUnblocked DEF Accounts
<1> QED BY <1>1, <1>2, StandInit, AccountsAlways, StandAlways, PTL DEF Spec, ClosesUnblocked

\* Nor does it close before every final payment is accepted in the app by the
\* party that receives it.
THEOREM FinalPaymentsAccepted ==
    Spec /\ []OneRequestPerJourney => FinalReceiptsAcceptedBeforeClose
<1>1. ASSUME TypeOK, ReceiptsInv, ReceiptsStand, [Next]_vars,
             NEW j \in closed' \ closed, NEW e \in DOMAIN receipts,
             e.journey = j, Final(receipts[e])
      PROVE  receipts[e].acceptedBy # "nobody"
  <2>1. PICK w \in Workers : CommitCloseJourney(w)
    BY <1>1, StepKinds DEF PostsOther, CommitSettlement, CommitCorrection, Receipting,
       PrintReceipt, ReturnReceipt, AcceptReceipt, journey
  <2>2. j = job[w].journey /\ pc[w] = "commit" /\ job[w].op = "CloseJourney"
    BY <1>1, <2>1 DEF CommitCloseJourney
  <2>3. receipts[e].status = "RETURNED"
    BY <1>1, <2>2 DEF ReceiptsStand, Outstanding
  <2>4. IsFinalSettlement(e)
    BY <1>1 DEF ReceiptsInv, PurposesMatch
  <2>5. receipts[e].acceptedBy = receipts[e].acceptingParty
    BY <1>1, <2>3, <2>4 DEF ReceiptsInv, ReceiptsDischarged, IsFinalSettlement
  <2>6. receipts[e].acceptingParty \in Parties
    BY <1>1 DEF TypeOK, Receipt
  <2> QED BY <2>5, <2>6 DEF Parties
<1>2. TypeOK /\ ReceiptsInv /\ ReceiptsStand /\ [Next]_vars =>
        [\A j \in closed' \ closed : \A e \in DOMAIN receipts :
            e.journey = j /\ Final(receipts[e]) => receipts[e].acceptedBy # "nobody"]_vars
  BY <1>1
<1> QED BY <1>2, TypeCorrect, ReceiptsAlways, StandAlways, PTL
    DEF Spec, FinalReceiptsAcceptedBeforeClose

\* A single worker that closes a Journey calculates and posts no accruals.
LEMMA AccrualChanges ==
    ASSUME TypeOK, AwardsApproved, [Next]_vars, \A v, w \in Workers : v = w
    PROVE  AccrualsWait
<1> SUFFICES ASSUME NEW w \in Workers, PastAccruals(w), accrual' # accrual
             PROVE  FALSE
  BY DEF AccrualsWait
<1>1. Settling(w) \/ Closing(w) \/ Correcting(w) \/ Receipting(w) \/ Others(w)
  BY DEF Next, vars
<1>2. ~(Settling(w) \/ Closing(w) \/ Correcting(w) \/ Receipting(w))
  BY DEF Settling, BeginPartialPayout, BeginZeroGold, BeginFinalPayment, ReadBalances,
     CommitSettlement, Closing, BeginCloseJourney, PreviewBalances, PreviewAccruals,
     PreviewReceipts, Preview, CommitCloseJourney, Correcting, BeginReverseEntry,
     BeginReplaceEntry, CommitCorrection, Receipting, PrintReceipt, ReturnReceipt,
     AcceptReceipt, journey
<1>3. CalculateAccruals(w) \/ CommitPostRun(w)
  BY <1>1, <1>2 DEF Others, BeginCreateExpense, CommitCreateExpense, BeginPostRun,
     BeginExtendJourney, CommitExtendJourney, ResolveExtension, BeginCreateAward,
     CommitCreateAward, BeginApproveAward, ReadAward, CommitApproveAward,
     BeginOnOpenJourney, journey
<1> QED BY <1>3 DEF CalculateAccruals, CommitPostRun, Idle, PastAccruals

\* One request at a time: payouts are covered, final payments exact and
\* closures unblocked, for every number of Journeys, units and request ids.
THEOREM SerialRequests ==
    ASSUME \A v, w \in Workers : v = w
    PROVE  Spec => PayoutsCovered /\ FinalPaymentsSettle /\ ClosesUnblocked
<1>1. OneRequestPerJourney
  BY DEF OneRequestPerJourney
<1>2. TypeOK /\ AwardsApproved /\ [Next]_vars => [AccrualsWait]_vars
  BY AccrualChanges
<1>3. Accounts => TypeOK /\ AwardsApproved
  BY DEF Accounts
<1> QED BY <1>1, <1>2, <1>3, AccountsAlways, PayoutsStayCovered, FinalPaymentsExact,
           ClosuresUnblocked, PTL DEF Spec
=============================================================================
