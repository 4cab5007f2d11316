--------------------------- MODULE ImmutableLedger ---------------------------
(***************************************************************************)
(* What a ledger promises, whoever posts to it: entries are added and     *)
(* never changed or removed, and an entry is undone by one other entry, of *)
(* the same account and the opposite value, that is not itself undone.     *)
(* CurrentAccount is shown to implement this specification.                *)
(***************************************************************************)
EXTENDS Integers

CONSTANT Nothing      \* what an entry that cancels no other cancels

VARIABLE entries      \* records [id, account, value, cancels]

\* x undoes an entry of es that stands: a booking that nothing has undone,
\* neither before nor in the same transaction.
CancelsStanding(x, es, new) ==
    /\ \E o \in es :
        /\ o.id = x.cancels
        /\ o.cancels = Nothing
        /\ o.account = x.account
        /\ o.value = -x.value
    /\ \A y \in es \cup (new \ {x}) : y.cancels # x.cancels

\* A transaction adds new to the entries es.
Appends(es, new) ==
    \A x \in new :
        /\ \A y \in es \cup (new \ {x}) : y.id # x.id
        /\ x.cancels # Nothing => CancelsStanding(x, es, new)

Append == entries \subseteq entries' /\ Appends(entries, entries' \ entries)

Spec == entries = {} /\ [][Append]_entries
=============================================================================
