------------------------------ MODULE LockOrder ------------------------------
(***************************************************************************)
(* Row locks of the transactions that share machines and material lots.    *)
(* A transaction asks for its locks one after another, keeps what it got   *)
(* until it ends, and waits for a lock another one holds.  The order it    *)
(* asks in comes from the code: orderLockTargets of packages/core ranks    *)
(* the kinds of rows and sorts rows of a kind by their ids.  What ends     *)
(* several reservations at once does not sort them: an UPDATE or a loop    *)
(* meets them in the order of the query's scan, and the accounting trigger *)
(* of each locks its lot.                                                  *)
(*                                                                         *)
(* A unit is a machine with its profile, its calibration and one lot; a    *)
(* reservation set is identified by the units it covers.  The rows ranked  *)
(* before the sets (sessions, orders, phases, plans) are not modelled.     *)
(***************************************************************************)
EXTENDS Integers, SequencesExt

CONSTANTS
  Units,           \* numbers in the order of the ids
  Transactions,
  Operations       \* the kinds of transactions that may run

\* The kinds that ask for their lots in the order of the ids, or for one lot only,
\* and those that end several reservations in the order of a scan.
OrderedOperations ==
  {"ingest", "reserve", "recovery", "capture", "settle", "releaseOne", "availability", "catalog"}
UnorderedOperations == {"releaseSet", "cancel", "close", "expiry"}

ASSUME LockAssumption ==
  /\ Units \subseteq Nat /\ IsFiniteSet(Units)
  /\ Operations \subseteq OrderedOperations \cup UnorderedOperations

VARIABLES
  todo,            \* locks a transaction has yet to ask for, in its order
  got              \* locks it holds

lockVars == <<todo, got>>

\* The rows of a kind in the order of their ids.
Sorted(U) ==
  {s \in [1..Cardinality(U) -> U] : \A i, j \in 1..Cardinality(U) : i < j => s[i] < s[j]}
Rows(kind, s) == [i \in 1..Len(s) |-> <<kind, s[i]>>]

\* lockTargetRank of the resource rows: taven_create_phase_reservation, the capture
\* and lockAndCheckResources of a recovery preparation follow it.
resourceRows(s) ==
  Rows("machine_profile", s) \o Rows("machine", s) \o Rows("machine_calibration", s)
    \o Rows("inventory", s)

\* Mutant: the lot is locked first, to read its balance.
lotFirst(u) ==
  <<<<"inventory", u>>, <<"machine_profile", u>>, <<"machine", u>>, <<"machine_calibration", u>>>>
lockCandidateResources(u) ==
  <<<<"machine_profile", u>>, <<"machine", u>>, <<"machine_calibration", u>>, <<"inventory", u>>>>

\* taven_lock_phase_reservation_set_for_capture: a set over the units U and its children
Children(kind, U, s) == [i \in 1..Len(s) |-> <<kind, <<U, s[i]>>>>]
captureRows(U, s) ==
  <<<<"phase_reservation_set", U>>>> \o Children("inventory_reservation", U, s)
    \o Children("capacity_reservation", U, s) \o Children("production_reservation", U, s)
    \o resourceRows(s)

\* taven_settle_printing_production_reservation and, before printing,
\* taven_release_production_reservation_before_print: one plate of a set; ending
\* its inventory reservation updates the lot through the accounting trigger
settleRows(U, u) ==
  <<<<"phase_reservation_set", U>>, <<"production_reservation", <<U, u>>>>,
    <<"inventory_reservation", <<U, u>>>>, <<"inventory", u>>,
    <<"capacity_reservation", <<U, u>>>>>>

\* finalizeCancellation: the plates of the order, settled or released one after
\* another in one transaction
cancelRows(U, scan) == FlattenSeq([i \in 1..Len(scan) |-> settleRows(U, scan[i])])

\* One UPDATE of the inventory reservations of a set, each with its lot
endInventoryReservations(U, scan) ==
  FlattenSeq([i \in 1..Len(scan) |->
    <<<<"inventory_reservation", <<U, scan[i]>>>>, <<"inventory", scan[i]>>>>])
endReservations(U, scan) ==
  endInventoryReservations(U, scan) \o Children("capacity_reservation", U, scan)
    \o Children("production_reservation", U, scan)
\* taven_release_phase_reservation_set
releaseSetRows(U, scan) == <<<<"phase_reservation_set", U>>>> \o endReservations(U, scan)
\* taven_close_initial_checkout_payment: the set comes last
closeRows(U, scan) == endReservations(U, scan) \o <<<<"phase_reservation_set", U>>>>
\* taven_expire_reserved_phase_reservation_sets: one set after another, in the
\* order of their expiry, in one transaction
expiryRows(order) ==
  FlattenSeq([i \in 1..Len(order) |-> releaseSetRows({order[i]}, <<order[i]>>)])

Scripts(op) ==
  LET some == (SUBSET Units) \ {{}}
      Scans(rows(_, _)) == UNION {{rows(U, scan) : scan \in SetToSeqs(U)} : U \in some}
  IN  CASE op = "ingest" -> {lockCandidateResources(u) : u \in Units}
        [] op \in {"reserve", "recovery"} -> UNION {{resourceRows(s) : s \in Sorted(U)} : U \in some}
        [] op = "capture" -> UNION {{captureRows(U, s) : s \in Sorted(U)} : U \in some}
        [] op \in {"settle", "releaseOne"} -> UNION {{settleRows(U, u) : u \in U} : U \in some}
        [] op = "availability" -> {<<<<"machine", u>>>> : u \in Units}
        [] op = "catalog" -> {<<<<"inventory", u>>>> : u \in Units}
        [] op = "cancel" -> Scans(cancelRows)
        [] op = "releaseSet" -> Scans(releaseSetRows)
        [] op = "close" -> Scans(closeRows)
        [] op = "expiry" -> {expiryRows(order) : order \in SetToSeqs(Units)}

LockInit ==
  /\ todo \in [Transactions -> UNION {Scripts(op) : op \in Operations}]
  /\ got = [t \in Transactions |-> {}]

Holder(l, t) == \E u \in Transactions \ {t} : l \in got[u]

\* FOR UPDATE
acquire(t) ==
  /\ todo[t] # <<>> /\ ~Holder(Head(todo[t]), t)
  /\ got' = [got EXCEPT ![t] = @ \cup {Head(todo[t])}]
  /\ todo' = [todo EXCEPT ![t] = Tail(@)]
commit(t) ==
  /\ todo[t] = <<>> /\ got[t] # {}
  /\ got' = [got EXCEPT ![t] = {}]
  /\ UNCHANGED todo
LockNext == \E t \in Transactions : acquire(t) \/ commit(t)
LockSpec == LockInit /\ [][LockNext]_lockVars

\* Transactions never wait for each other in a circle, the order-dependent deadlock
\* that taven_create_phase_reservation says its one stable order avoids: in every
\* group of waiting transactions one waits for a lock that no member of the group
\* holds, however many machines and lots each of them covers.
NoCircularWait ==
  \A group \in (SUBSET Transactions) \ {{}} :
    \E t \in group : todo[t] = <<>> \/ \A u \in group \ {t} : Head(todo[t]) \notin got[u]
==============================================================================
