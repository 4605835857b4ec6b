--------------------------- MODULE ResourceProofs ---------------------------
(***************************************************************************)
(* What the transactions over production resources guarantee for every     *)
(* number of transactions, machines, lots and jobs; and what three users   *)
(* of them guarantee: the preparation of a recovery, the assisted request  *)
(* that becomes an order, and the individual order that reserves resources *)
(* before it is paid.                                                      *)
(***************************************************************************)
EXTENDS LockOrder, Resources, RecoveryPreparation, QuoteRequests, IndividualOrders,
        SequenceTheorems, SumLemmas

-----------------------------------------------------------------------------
(* Row locks.  Sets, machines and lots are locked in one order by everybody.  *)
(* The children of a set are not: a capture and a settlement ask for them in  *)
(* different orders, and need the lock of their set to keep them apart.       *)

ChildKinds == {"inventory_reservation", "capacity_reservation", "production_reservation"}
RowKinds == {"machine_profile", "machine", "machine_calibration", "inventory"}
Locks == ({"phase_reservation_set"} \X SUBSET Units) \cup (RowKinds \X Units)
           \cup (ChildKinds \X ((SUBSET Units) \X Units))

Level(kind) == CASE kind = "phase_reservation_set" -> 0
                 [] kind = "machine_profile" -> 1
                 [] kind = "machine" -> 2
                 [] kind = "machine_calibration" -> 3
                 [] kind = "inventory" -> 4
Child(l) == l[1] \in ChildKinds
SetOf(l) == <<"phase_reservation_set", l[2][1]>>
Before(l, m) ==
  \/ Level(l[1]) < Level(m[1])
  \/ l[1] = m[1] /\ l[1] \in RowKinds /\ l[2] < m[2]

\* A transaction asks for what is not a child in the common order.
InOrder(s) ==
  \A i, j \in 1..Len(s) : i < j /\ ~Child(s[i]) /\ ~Child(s[j]) => Before(s[i], s[j])
\* It asks for a child of a set only after the set.
Covered(s, held) ==
  \A i \in 1..Len(s) : Child(s[i]) => \/ SetOf(s[i]) \in held
                                       \/ \E j \in 1..Len(s) : j < i /\ s[j] = SetOf(s[i])

\* A stretch of a script: rows of levels lo to hi and children of the set over U.
Stretch(s, U, lo, hi) ==
  /\ s \in Seq(Locks) /\ InOrder(s)
  /\ \A i \in 1..Len(s) : IF Child(s[i]) THEN s[i][2][1] = U
                          ELSE lo <= Level(s[i][1]) /\ Level(s[i][1]) <= hi

LEMMA StretchesJoin ==
  ASSUME NEW a, NEW b, NEW U, NEW lo \in Int, NEW m \in Int, NEW hi \in Int,
         Stretch(a, U, lo, m), Stretch(b, U, m + 1, hi), lo <= m + 1, m <= hi
  PROVE  /\ Stretch(a \o b, U, lo, hi)
         /\ Len(a) > 0 => (a \o b)[1] = a[1] /\ Len(a \o b) > 0
<1>1. a \in Seq(Locks) /\ b \in Seq(Locks)
  BY DEF Stretch
<1>2. /\ a \o b \in Seq(Locks) /\ Len(a \o b) = Len(a) + Len(b)
      /\ \A i \in 1..Len(a \o b) : (a \o b)[i] = IF i <= Len(a) THEN a[i] ELSE b[i - Len(a)]
      /\ Len(a) \in Nat /\ Len(b) \in Nat
  BY <1>1
<1>3. ASSUME NEW l \in Locks, ~Child(l) PROVE Level(l[1]) \in 0..4
  BY <1>3 DEF Locks, Child, Level, RowKinds, ChildKinds
<1>4. \A i \in 1..Len(a) : a[i] \in Locks
  BY <1>1
<1>5. \A i \in 1..Len(b) : b[i] \in Locks
  BY <1>1
<1>6. InOrder(a \o b)
  <2> SUFFICES ASSUME NEW i \in 1..Len(a \o b), NEW j \in 1..Len(a \o b), i < j,
                      ~Child((a \o b)[i]), ~Child((a \o b)[j])
               PROVE  Before((a \o b)[i], (a \o b)[j])
    BY DEF InOrder
  <2>0. InOrder(a)
    BY DEF Stretch
  <2>1. CASE j <= Len(a)
    <3>1. i \in 1..Len(a) /\ j \in 1..Len(a)
      BY <2>1, <1>2
    <3>2. (a \o b)[i] = a[i] /\ (a \o b)[j] = a[j]
      BY <3>1, <1>2
    <3> QED
      BY <2>0, <3>1, <3>2 DEF InOrder
  <2>2. CASE i > Len(a)
    <3>1. i - Len(a) \in 1..Len(b) /\ j - Len(a) \in 1..Len(b) /\ i - Len(a) < j - Len(a)
      BY <2>2, <1>2
    <3>2. (a \o b)[i] = b[i - Len(a)] /\ (a \o b)[j] = b[j - Len(a)]
      BY <2>2, <1>2
    <3> QED
      BY <3>1, <3>2 DEF InOrder, Stretch
  <2>3. CASE i <= Len(a) /\ j > Len(a)
    <3>1. i \in 1..Len(a) /\ j - Len(a) \in 1..Len(b)
      BY <2>3, <1>2
    <3>2. (a \o b)[i] = a[i] /\ (a \o b)[j] = b[j - Len(a)]
      BY <2>3, <1>2
    <3>3. /\ ~Child(a[i]) => Level(a[i][1]) <= m
          /\ ~Child(b[j - Len(a)]) => m + 1 <= Level(b[j - Len(a)][1])
      BY <3>1, SMTT(20) DEF Stretch
    <3>4. Level(a[i][1]) \in 0..4 /\ Level(b[j - Len(a)][1]) \in 0..4
      BY <3>1, <3>2, <1>3, <1>4, <1>5
    <3>5. Level(a[i][1]) < Level(b[j - Len(a)][1])
      <4> DEFINE x == Level(a[i][1])
                 y == Level(b[j - Len(a)][1])
      <4>1. x <= m /\ m + 1 <= y /\ x \in 0..4 /\ y \in 0..4
        BY <3>2, <3>3, <3>4, Zenon
      <4> HIDE DEF x, y
      <4>2. x < y
        BY <4>1
      <4> QED
        BY <4>2, Zenon DEF x, y
    <3> QED
      BY <3>2, <3>5 DEF Before
  <2> QED
    BY <2>1, <2>2, <2>3, <1>2
<1>7. ASSUME NEW i \in 1..Len(a \o b)
      PROVE  IF Child((a \o b)[i]) THEN (a \o b)[i][2][1] = U
             ELSE lo <= Level((a \o b)[i][1]) /\ Level((a \o b)[i][1]) <= hi
  <2>1. CASE i <= Len(a)
    <3>1. i \in 1..Len(a) /\ (a \o b)[i] = a[i]
      BY <2>1, <1>2
    <3>2. ~Child(a[i]) => Level(a[i][1]) \in 0..4
      BY <3>1, <1>3, <1>4
    <3> QED
      BY <3>1, <3>2 DEF Stretch
  <2>2. CASE i > Len(a)
    <3>1. i - Len(a) \in 1..Len(b) /\ (a \o b)[i] = b[i - Len(a)]
      BY <2>2, <1>2
    <3>2. ~Child(b[i - Len(a)]) => Level(b[i - Len(a)][1]) \in 0..4
      BY <3>1, <1>3, <1>5
    <3> QED
      BY <3>1, <3>2 DEF Stretch
  <2> QED
    BY <2>1, <2>2, <1>2
<1> QED
  BY <1>2, <1>6, <1>7 DEF Stretch

\* Rows of one kind are sorted by their ids.
LEMMA RowsStretch ==
  ASSUME NEW U \in SUBSET Units, NEW s \in Sorted(U), NEW kind \in RowKinds, NEW V
  PROVE  Stretch(Rows(kind, s), V, Level(kind), Level(kind))
<1> DEFINE r == Rows(kind, s)
<1>1. /\ Cardinality(U) \in Nat /\ s \in [1..Cardinality(U) -> U]
      /\ \A i, j \in 1..Cardinality(U) : i < j => s[i] < s[j]
  BY FS_Subset, FS_CardinalityType, LockAssumption DEF Sorted
<1>2. s \in Seq(U) /\ Len(s) = Cardinality(U)
  BY <1>1
<1>3. /\ r \in Seq(Locks) /\ Len(r) = Len(s)
      /\ \A i \in 1..Len(s) : r[i] = <<kind, s[i]>> /\ ~Child(r[i])
  <2>1. \A i \in 1..Len(s) : <<kind, s[i]>> \in Locks /\ ~Child(<<kind, s[i]>>)
    BY <1>1, <1>2 DEF Locks, Child, RowKinds, ChildKinds
  <2> QED
    BY <2>1, <1>2 DEF Rows
<1>4. InOrder(r)
  BY <1>1, <1>2, <1>3 DEF InOrder, Before
<1>5. Level(kind) \in Int
  BY DEF Level, RowKinds
<1> QED
  BY <1>3, <1>4, <1>5 DEF Stretch

LEMMA ChildLock ==
  ASSUME NEW U \in SUBSET Units, NEW u \in Units, NEW kind \in ChildKinds
  PROVE  LET l == <<kind, <<U, u>>>>
         IN  l \in Locks /\ Child(l) /\ l[2][1] = U /\ SetOf(l) = <<"phase_reservation_set", U>>
<1> DEFINE x == <<U, u>>
           l == <<kind, x>>
<1>1. x \in (SUBSET Units) \X Units /\ x[1] = U
  OBVIOUS
<1> HIDE DEF x
<1>2. l \in ChildKinds \X ((SUBSET Units) \X Units) /\ l[1] = kind /\ l[2] = x
  BY <1>1
<1>3. l \in Locks
  BY <1>2, Zenon DEF Locks
<1>4. Child(l)
  BY <1>2, Zenon DEF Child
<1>5. l[2][1] = U
  BY <1>1, <1>2, Zenon
<1> QED
  BY <1>3, <1>4, <1>5 DEF SetOf, x

LEMMA ChildrenStretch ==
  ASSUME NEW U \in SUBSET Units, NEW s \in Sorted(U), NEW kind \in ChildKinds,
         NEW lo \in Int, NEW hi \in Int
  PROVE  Stretch(Children(kind, U, s), U, lo, hi)
<1> DEFINE r == Children(kind, U, s)
<1>1. Cardinality(U) \in Nat /\ s \in [1..Cardinality(U) -> U]
  BY FS_Subset, FS_CardinalityType, LockAssumption DEF Sorted
<1>2. s \in Seq(U) /\ Len(s) = Cardinality(U)
  BY <1>1
<1> DEFINE l(i) == <<kind, <<U, s[i]>>>>
<1>3. ASSUME NEW i \in 1..Len(s)
      PROVE  l(i) \in Locks /\ Child(l(i)) /\ l(i)[2][1] = U
  <2>1. s[i] \in Units
    BY <1>1, <1>2
  <2> QED
    BY <2>1, ChildLock
<1>4. r = [i \in 1..Len(s) |-> l(i)]
  BY Zenon DEF Children
<1> HIDE DEF l, r
<1>5. /\ r \in Seq(Locks) /\ Len(r) = Len(s)
      /\ \A i \in 1..Len(s) : r[i] = l(i)
  BY <1>2, <1>3, <1>4
<1>6. Stretch(r, U, lo, hi)
  BY <1>3, <1>5 DEF Stretch, InOrder
<1> QED
  BY <1>6 DEF r

LEMMA ResourceRowsStretch ==
  ASSUME NEW U \in SUBSET Units, NEW s \in Sorted(U), NEW V
  PROVE  Stretch(resourceRows(s), V, 1, 4)
<1>1. /\ Stretch(Rows("machine_profile", s), V, 1, 1) /\ Stretch(Rows("machine", s), V, 2, 2)
      /\ Stretch(Rows("machine_calibration", s), V, 3, 3) /\ Stretch(Rows("inventory", s), V, 4, 4)
  <2>1. \A kind \in RowKinds : Stretch(Rows(kind, s), V, Level(kind), Level(kind))
    BY RowsStretch
  <2> QED
    BY <2>1, Zenon DEF RowKinds, Level
<1>2. Stretch(Rows("machine_profile", s) \o Rows("machine", s), V, 1, 2)
  BY <1>1, StretchesJoin
<1>3. Stretch(Rows("machine_profile", s) \o Rows("machine", s)
                \o Rows("machine_calibration", s), V, 1, 3)
  BY <1>1, <1>2, StretchesJoin
<1> QED
  BY <1>1, <1>3, StretchesJoin DEF resourceRows

LEMMA CaptureRowsStretch ==
  ASSUME NEW U \in SUBSET Units, NEW s \in Sorted(U)
  PROVE  /\ Stretch(captureRows(U, s), U, 0, 4)
         /\ captureRows(U, s)[1] = <<"phase_reservation_set", U>> /\ Len(captureRows(U, s)) > 0
<1> DEFINE a == <<<<"phase_reservation_set", U>>>>
           b == a \o Children("inventory_reservation", U, s)
           c == b \o Children("capacity_reservation", U, s)
           d == c \o Children("production_reservation", U, s)
<1>1. Stretch(a, U, 0, 0) /\ Len(a) > 0 /\ a[1] = <<"phase_reservation_set", U>>
  <2>1. <<"phase_reservation_set", U>> \in Locks
    BY DEF Locks
  <2>2. ~Child(<<"phase_reservation_set", U>>)
    BY DEF Child, ChildKinds
  <2>3. Level("phase_reservation_set") = 0
    BY DEF Level
  <2> QED
    BY <2>1, <2>2, <2>3 DEF Stretch, InOrder
<1>2. \A kind \in ChildKinds : Stretch(Children(kind, U, s), U, 1, 0)
  BY ChildrenStretch
<1> HIDE DEF a
<1>3. Stretch(b, U, 0, 0) /\ Len(b) > 0 /\ b[1] = <<"phase_reservation_set", U>>
  BY <1>1, <1>2, StretchesJoin DEF ChildKinds
<1> HIDE DEF b
<1>4. Stretch(c, U, 0, 0) /\ Len(c) > 0 /\ c[1] = <<"phase_reservation_set", U>>
  BY <1>2, <1>3, StretchesJoin DEF ChildKinds
<1> HIDE DEF c
<1>5. Stretch(d, U, 0, 0) /\ Len(d) > 0 /\ d[1] = <<"phase_reservation_set", U>>
  BY <1>2, <1>4, StretchesJoin DEF ChildKinds
<1>6. captureRows(U, s) = d \o resourceRows(s)
  BY Zenon DEF captureRows, a, b, c, d
<1> HIDE DEF d
<1>7. Stretch(resourceRows(s), U, 1, 4)
  BY ResourceRowsStretch
<1> QED
  BY <1>5, <1>6, <1>7, StretchesJoin

\* What every script keeps to, whatever part of it is done.
Proper(s) == s \in Seq(Locks) /\ InOrder(s) /\ Covered(s, {})

LEMMA StretchesProper ==
  ASSUME NEW s, NEW U, Stretch(s, U, 0, 4),
         \/ \A i \in 1..Len(s) : ~Child(s[i])
         \/ Len(s) > 0 /\ s[1] = <<"phase_reservation_set", U>>
  PROVE  Proper(s)
<1>1. s \in Seq(Locks) /\ InOrder(s) /\ \A i \in 1..Len(s) : Child(s[i]) => s[i][2][1] = U
  BY DEF Stretch
<1>2. Covered(s, {})
  <2> SUFFICES ASSUME NEW i \in 1..Len(s), Child(s[i])
               PROVE  \E j \in 1..Len(s) : j < i /\ s[j] = SetOf(s[i])
    BY DEF Covered
  <2>1. s[1] = <<"phase_reservation_set", U>> /\ Len(s) > 0
    OBVIOUS
  <2>2. s[1] = SetOf(s[i])
    BY <1>1, <2>1 DEF SetOf
  <2>3. i # 1
    BY <2>1 DEF Child, ChildKinds
  <2> QED
    BY <2>2, <2>3, <1>1
<1> QED
  BY <1>1, <1>2 DEF Proper

LEMMA SettleRowsProper ==
  ASSUME NEW U \in SUBSET Units, NEW u \in U
  PROVE  Proper(settleRows(U, u))
<1> DEFINE p == <<"phase_reservation_set", U>>
           a == <<"production_reservation", <<U, u>>>>
           b == <<"inventory_reservation", <<U, u>>>>
           c == <<"inventory", u>>
           d == <<"capacity_reservation", <<U, u>>>>
           s == <<p, a, b, c, d>>
<1>1. p \in Locks /\ ~Child(p) /\ Level(p[1]) = 0
  BY DEF Locks, Child, ChildKinds, Level
<1>2. c \in Locks /\ ~Child(c) /\ Level(c[1]) = 4
  BY DEF Locks, Child, ChildKinds, Level, RowKinds
<1>3. \A l \in {a, b, d} : l \in Locks /\ Child(l) /\ SetOf(l) = p
  <2>1. \A k \in ChildKinds : LET l == <<k, <<U, u>>>>
                               IN  l \in Locks /\ Child(l) /\ SetOf(l) = p
    BY ChildLock
  <2>2. /\ "production_reservation" \in ChildKinds /\ "inventory_reservation" \in ChildKinds
        /\ "capacity_reservation" \in ChildKinds
    BY DEF ChildKinds
  <2> QED
    BY <2>1, <2>2, Zenon
<1>4. settleRows(U, u) = s
  BY Zenon DEF settleRows
<1> HIDE DEF p, a, b, c, d
<1>5. s \in Seq(Locks) /\ Len(s) = 5
  BY <1>1, <1>2, <1>3
<1>6. \A i \in 1..5 : i = 1 \/ i = 2 \/ i = 3 \/ i = 4 \/ i = 5
  OBVIOUS
<1>7. InOrder(s)
  <2>1. Before(p, c)
    BY <1>1, <1>2 DEF Before
  <2> QED
    BY <2>1, <1>1, <1>2, <1>3, <1>5, <1>6 DEF InOrder
<1>8. Covered(s, {})
  BY <1>1, <1>2, <1>3, <1>5, <1>6 DEF Covered
<1> QED
  BY <1>4, <1>5, <1>7, <1>8 DEF Proper

LEMMA SingleRows ==
  ASSUME NEW u \in Units
  PROVE  /\ Proper(lockCandidateResources(u))
         /\ Proper(<<<<"machine", u>>>>) /\ Proper(<<<<"inventory", u>>>>)
<1>1. \A kind \in RowKinds : <<kind, u>> \in Locks /\ ~Child(<<kind, u>>)
  BY DEF Locks, Child, RowKinds, ChildKinds
<1>2. \A kind \in RowKinds : Proper(<<<<kind, u>>>>)
  BY <1>1 DEF Proper, InOrder, Covered
<1> DEFINE a == <<"machine_profile", u>>
           b == <<"machine", u>>
           c == <<"machine_calibration", u>>
           d == <<"inventory", u>>
           s == <<a, b, c, d>>
<1>3. \A l \in {a, b, c, d} : l \in Locks /\ ~Child(l)
  BY <1>1 DEF RowKinds
<1>4. /\ Before(a, b) /\ Before(a, c) /\ Before(a, d)
      /\ Before(b, c) /\ Before(b, d) /\ Before(c, d)
  BY DEF Before, Level
<1>5. lockCandidateResources(u) = s
  BY Zenon DEF lockCandidateResources
<1> HIDE DEF a, b, c, d
<1>6. s \in Seq(Locks) /\ Len(s) = 4
  BY <1>3
<1>7. \A i \in 1..4 : i = 1 \/ i = 2 \/ i = 3 \/ i = 4
  OBVIOUS
<1>8. InOrder(s)
  BY <1>4, <1>6, <1>7 DEF InOrder
<1>9. Covered(s, {})
  BY <1>3, <1>6, <1>7 DEF Covered
<1>10. Proper(lockCandidateResources(u))
  BY <1>5, <1>6, <1>8, <1>9 DEF Proper
<1> QED
  BY <1>2, <1>10 DEF RowKinds

\* Every script of an ordered operation keeps to the order.
LEMMA ScriptsProper ==
  ASSUME NEW op \in OrderedOperations, NEW s \in Scripts(op)
  PROVE  Proper(s)
<1>1. \A U \in SUBSET Units : \A q \in Sorted(U) : Proper(resourceRows(q))
  <2> SUFFICES ASSUME NEW U \in SUBSET Units, NEW q \in Sorted(U)
               PROVE  Proper(resourceRows(q))
    OBVIOUS
  <2>1. \A V : Stretch(resourceRows(q), V, 1, 4)
    BY ResourceRowsStretch
  <2>2. \A i \in 1..Len(resourceRows(q)) : ~Child(resourceRows(q)[i])
    <3>1. Stretch(resourceRows(q), 1, 1, 4) /\ Stretch(resourceRows(q), 2, 1, 4)
      BY <2>1
    <3> QED
      BY <3>1 DEF Stretch
  <2>3. Stretch(resourceRows(q), U, 0, 4)
    <3>1. \A i \in 1..Len(resourceRows(q)) : 1 <= Level(resourceRows(q)[i][1])
                                            => 0 <= Level(resourceRows(q)[i][1])
      <4>1. \A l \in Locks : ~Child(l) => Level(l[1]) \in 0..4
        BY DEF Locks, Child, Level, RowKinds, ChildKinds
      <4> QED
        BY <4>1, <2>1, <2>2 DEF Stretch
    <3> QED
      BY <3>1, <2>1 DEF Stretch
  <2> QED
    BY <2>2, <2>3, StretchesProper
<1>2. \A U \in SUBSET Units : \A q \in Sorted(U) : Proper(captureRows(U, q))
  BY CaptureRowsStretch, StretchesProper
<1>3. \A U \in SUBSET Units : \A u \in U : Proper(settleRows(U, u))
  BY SettleRowsProper
<1>4. CASE op = "ingest"
  BY <1>4, SingleRows DEF Scripts
<1>5. CASE op \in {"reserve", "recovery"}
  BY <1>5, <1>1 DEF Scripts
<1>6. CASE op = "capture"
  BY <1>6, <1>2 DEF Scripts
<1>7. CASE op \in {"settle", "releaseOne"}
  BY <1>7, <1>3 DEF Scripts
<1>8. CASE op = "availability"
  BY <1>8, SingleRows DEF Scripts
<1>9. CASE op = "catalog"
  BY <1>9, SingleRows DEF Scripts
<1> QED
  BY <1>4, <1>5, <1>6, <1>7, <1>8, <1>9 DEF OrderedOperations

\* The inductive invariant: a lock has one holder; what a transaction still asks
\* for comes after what it holds; a child is held or asked for with its set.
LockInv ==
  /\ todo \in [Transactions -> Seq(Locks)] /\ got \in [Transactions -> SUBSET Locks]
  /\ \A t, u \in Transactions : t # u => got[t] \cap got[u] = {}
  /\ \A t \in Transactions :
       /\ InOrder(todo[t]) /\ Covered(todo[t], got[t])
       /\ \A l \in got[t] : Child(l) => SetOf(l) \in got[t]
       /\ \A l \in got[t], i \in 1..Len(todo[t]) :
            ~Child(l) /\ ~Child(todo[t][i]) => Before(l, todo[t][i])

LEMMA AcquireKeeps ==
  ASSUME LockInv, NEW t \in Transactions, acquire(t) PROVE LockInv'
<1> DEFINE h == Head(todo[t])
           s == Tail(todo[t])
<1>1. /\ todo[t] \in Seq(Locks) /\ todo[t] # <<>> /\ got[t] \in SUBSET Locks
      /\ InOrder(todo[t]) /\ Covered(todo[t], got[t])
  BY DEF LockInv, acquire
<1>2. /\ h = todo[t][1] /\ h \in Locks /\ s \in Seq(Locks)
      /\ Len(todo[t]) \in Nat \ {0} /\ Len(s) = Len(todo[t]) - 1
      /\ \A i \in 1..Len(s) : s[i] = todo[t][i + 1] /\ i + 1 \in 1..Len(todo[t])
  BY <1>1
<1>3. /\ todo' = [todo EXCEPT ![t] = s] /\ got' = [got EXCEPT ![t] = @ \cup {h}]
      /\ \A u \in Transactions \ {t} : h \notin got[u]
  BY DEF acquire, Holder
<1>4. /\ todo'[t] = s /\ got'[t] = got[t] \cup {h}
      /\ \A u \in Transactions \ {t} : todo'[u] = todo[u] /\ got'[u] = got[u]
  BY <1>3 DEF LockInv
<1> HIDE DEF h, s
<1>5. todo' \in [Transactions -> Seq(Locks)] /\ got' \in [Transactions -> SUBSET Locks]
  BY <1>1, <1>2, <1>3 DEF LockInv
<1>6. \A u, v \in Transactions : u # v => got'[u] \cap got'[v] = {}
  BY <1>3, <1>4 DEF LockInv
<1>7. InOrder(s)
  <2> SUFFICES ASSUME NEW i \in 1..Len(s), NEW j \in 1..Len(s), i < j, ~Child(s[i]), ~Child(s[j])
               PROVE  Before(s[i], s[j])
    BY DEF InOrder
  <2>1. s[i] = todo[t][i + 1] /\ s[j] = todo[t][j + 1]
    BY <1>2
  <2>2. i + 1 \in 1..Len(todo[t]) /\ j + 1 \in 1..Len(todo[t]) /\ i + 1 < j + 1
    BY <1>2
  <2> QED
    BY <1>1, <2>1, <2>2 DEF InOrder
<1>8. Covered(s, got[t] \cup {h})
  <2> SUFFICES ASSUME NEW i \in 1..Len(s), Child(s[i]), SetOf(s[i]) \notin got[t] \cup {h}
               PROVE  \E j \in 1..Len(s) : j < i /\ s[j] = SetOf(s[i])
    BY DEF Covered
  <2>1. PICK j \in 1..Len(todo[t]) : j < i + 1 /\ todo[t][j] = SetOf(s[i])
    BY <1>1, <1>2 DEF Covered
  <2>2. j # 1
    BY <2>1, <1>2
  <2>3. j - 1 \in 1..Len(s) /\ s[j - 1] = todo[t][j] /\ j - 1 < i
    BY <2>1, <2>2, <1>2
  <2> QED
    BY <2>1, <2>3
<1>9. Child(h) => SetOf(h) \in got[t]
  <2> SUFFICES ASSUME Child(h), SetOf(h) \notin got[t] PROVE FALSE
    OBVIOUS
  <2>1. 1 \in 1..Len(todo[t])
    BY <1>2
  <2>2. PICK j \in 1..Len(todo[t]) : j < 1 /\ todo[t][j] = SetOf(todo[t][1])
    BY <1>1, <1>2, <2>1 DEF Covered
  <2> QED
    BY <2>2
<1>10. \A l \in got[t] \cup {h}, i \in 1..Len(s) : ~Child(l) /\ ~Child(s[i]) => Before(l, s[i])
  <2>1. \A i \in 1..Len(s) : ~Child(h) /\ ~Child(s[i]) => Before(h, s[i])
    <3> SUFFICES ASSUME NEW i \in 1..Len(s), ~Child(h), ~Child(s[i]) PROVE Before(h, s[i])
      OBVIOUS
    <3>1. 1 \in 1..Len(todo[t]) /\ i + 1 \in 1..Len(todo[t]) /\ 1 < i + 1
      BY <1>2
    <3> QED
      BY <3>1, <1>1, <1>2 DEF InOrder
  <2>2. \A l \in got[t], i \in 1..Len(s) : ~Child(l) /\ ~Child(s[i]) => Before(l, s[i])
    BY <1>2 DEF LockInv
  <2> QED
    BY <2>1, <2>2
<1>11. ASSUME NEW u \in Transactions
       PROVE  /\ InOrder(todo'[u]) /\ Covered(todo'[u], got'[u])
              /\ \A l \in got'[u] : Child(l) => SetOf(l) \in got'[u]
              /\ \A l \in got'[u], i \in 1..Len(todo'[u]) :
                   ~Child(l) /\ ~Child(todo'[u][i]) => Before(l, todo'[u][i])
  <2>1. CASE u = t
    <3>1. \A l \in got[t] \cup {h} : Child(l) => SetOf(l) \in got[t] \cup {h}
      BY <1>9 DEF LockInv
    <3> QED
      BY <2>1, <3>1, <1>4, <1>7, <1>8, <1>10
  <2>2. CASE u # t
    BY <2>2, <1>4 DEF LockInv
  <2> QED
    BY <2>1, <2>2
<1>12. \A u \in Transactions :
         /\ InOrder(todo'[u]) /\ Covered(todo'[u], got'[u])
         /\ \A l \in got'[u] : Child(l) => SetOf(l) \in got'[u]
         /\ \A l \in got'[u], i \in 1..Len(todo'[u]) :
              ~Child(l) /\ ~Child(todo'[u][i]) => Before(l, todo'[u][i])
  BY <1>11
<1> QED
  BY <1>5, <1>6, <1>12 DEF LockInv, InOrder, Covered, Child, SetOf, Before, Level, Locks

LEMMA CommitKeeps ==
  ASSUME LockInv, NEW t \in Transactions, commit(t) PROVE LockInv'
<1>1. /\ todo' = todo /\ todo[t] = <<>> /\ got'[t] = {}
      /\ got' \in [Transactions -> SUBSET Locks]
      /\ \A u \in Transactions \ {t} : got'[u] = got[u]
  BY DEF LockInv, commit
<1>2. Len(todo[t]) = 0
  BY <1>1
<1>3. ASSUME NEW u \in Transactions
      PROVE  /\ InOrder(todo[u]) /\ Covered(todo[u], got'[u])
             /\ \A l \in got'[u] : Child(l) => SetOf(l) \in got'[u]
             /\ \A l \in got'[u], i \in 1..Len(todo[u]) :
                  ~Child(l) /\ ~Child(todo[u][i]) => Before(l, todo[u][i])
  <2>1. CASE u = t
    BY <2>1, <1>1, <1>2 DEF LockInv, Covered
  <2>2. CASE u # t
    BY <2>2, <1>1 DEF LockInv
  <2> QED
    BY <2>1, <2>2
<1>4. \A u, v \in Transactions : u # v => got'[u] \cap got'[v] = {}
  BY <1>1 DEF LockInv
<1>5. \A u \in Transactions :
        /\ InOrder(todo'[u]) /\ Covered(todo'[u], got'[u])
        /\ \A l \in got'[u] : Child(l) => SetOf(l) \in got'[u]
        /\ \A l \in got'[u], i \in 1..Len(todo'[u]) :
             ~Child(l) /\ ~Child(todo'[u][i]) => Before(l, todo'[u][i])
  BY <1>1, <1>3
<1>6. todo' \in [Transactions -> Seq(Locks)]
  BY <1>1 DEF LockInv
<1> QED
  BY <1>1, <1>4, <1>5, <1>6 DEF LockInv, InOrder, Covered, Child, SetOf, Before, Level, Locks

LEMMA LocksStart == ASSUME LockInit, Operations \subseteq OrderedOperations PROVE LockInv
<1>1. \A t \in Transactions : Proper(todo[t]) /\ got[t] = {}
  <2> SUFFICES ASSUME NEW t \in Transactions PROVE Proper(todo[t]) /\ got[t] = {}
    OBVIOUS
  <2>1. todo[t] \in UNION {Scripts(op) : op \in Operations} /\ got[t] = {}
    BY DEF LockInit
  <2>2. PICK op \in Operations : todo[t] \in Scripts(op)
    BY <2>1
  <2> QED
    BY <2>1, <2>2, ScriptsProper
<1>2. todo \in [Transactions -> Seq(Locks)] /\ got \in [Transactions -> SUBSET Locks]
  <2>1. todo = [t \in Transactions |-> todo[t]] /\ got = [t \in Transactions |-> {}]
    BY DEF LockInit
  <2> QED
    BY <2>1, <1>1 DEF Proper
<1> QED
  BY <1>1, <1>2 DEF LockInv, Proper

LEMMA UnitsBounded == \E b \in Nat : \A u \in Units : u <= b
<1> DEFINE f == [u \in Units |-> u]
<1>1. IsFiniteSet(Units) /\ \A u \in Units : f[u] \in Nat /\ f[u] = u
  BY LockAssumption
<1> HIDE DEF f
<1>2. \A u \in Units : SumFunctionOnSet(f, Units) = f[u] + SumFunctionOnSet(f, Units \ {u})
  BY <1>1, SumRemove
<1>3. \A u \in Units : SumFunctionOnSet(f, Units \ {u}) \in Nat
  <2> SUFFICES ASSUME NEW u \in Units PROVE SumFunctionOnSet(f, Units \ {u}) \in Nat
    OBVIOUS
  <2>1. IsFiniteSet(Units \ {u}) /\ \A v \in Units \ {u} : f[v] \in Nat
    BY <1>1, FS_RemoveElement
  <2> QED
    BY <2>1, SumRemove
<1>4. SumFunctionOnSet(f, Units) \in Nat
  BY <1>1, SumRemove
<1> DEFINE b == SumFunctionOnSet(f, Units)
<1>5. ASSUME NEW u \in Units PROVE u <= b
  <2> DEFINE r == SumFunctionOnSet(f, Units \ {u})
  <2>1. b = u + r /\ r \in Nat /\ u \in Nat /\ b \in Nat
    BY <1>1, <1>2, <1>3, <1>4, Zenon
  <2> HIDE DEF r, b
  <2> QED
    BY <2>1
<1> HIDE DEF b
<1>6. b \in Nat
  BY <1>4 DEF b
<1> QED
  BY <1>5, <1>6

\* In a circle everybody waits for a row, not for a child, and for one before the
\* row its holder waits for: the last of these rows has no holder in the circle.
LEMMA InvariantForbidsCircles == ASSUME LockInv PROVE NoCircularWait
<1> SUFFICES ASSUME NEW group \in (SUBSET Transactions) \ {{}},
                    \A t \in group : /\ todo[t] # <<>>
                                     /\ \E u \in group \ {t} : Head(todo[t]) \in got[u]
             PROVE  FALSE
  BY DEF NoCircularWait
<1> DEFINE W(t) == Head(todo[t])
<1>1. ASSUME NEW t \in group
      PROVE  W(t) \in Locks /\ ~Child(W(t)) /\ W(t) = todo[t][1] /\ 1 \in 1..Len(todo[t])
  <2>1. todo[t] \in Seq(Locks) /\ todo[t] # <<>> /\ Covered(todo[t], got[t])
    BY DEF LockInv
  <2>2. W(t) \in Locks /\ W(t) = todo[t][1] /\ 1 \in 1..Len(todo[t])
    BY <2>1
  <2>3. ASSUME Child(W(t)) PROVE FALSE
    <3>1. SetOf(W(t)) \in got[t]
      BY <2>1, <2>2, <2>3 DEF Covered
    <3>2. PICK u \in group \ {t} : W(t) \in got[u]
      OBVIOUS
    <3>3. SetOf(W(t)) \in got[u]
      BY <2>3, <3>2 DEF LockInv
    <3> QED
      BY <3>1, <3>2, <3>3 DEF LockInv
  <2> QED
    BY <2>2, <2>3
<1>2. ASSUME NEW t \in group PROVE \E u \in group : Before(W(t), W(u))
  <2>1. PICK u \in group \ {t} : W(t) \in got[u]
    OBVIOUS
  <2>2. Before(W(t), todo[u][1])
    BY <2>1, <1>1 DEF LockInv
  <2> QED
    BY <2>1, <2>2, <1>1
<1> HIDE DEF W
<1> DEFINE L(t) == Level(W(t)[1])
<1>3. \A l \in Locks : /\ ~Child(l) => Level(l[1]) \in 0..4
                       /\ l[1] \in RowKinds => l[2] \in Units
  BY DEF Locks, Child, Level, RowKinds, ChildKinds
<1>4. \A t \in group : L(t) \in 0..4
  BY <1>1, <1>3
<1> DEFINE Heights == {4 - L(t) : t \in group}
<1>5. PICK top \in group : \A t \in group : L(t) <= L(top)
  <2>1. Heights \in SUBSET Nat /\ Heights # {}
    BY <1>4
  <2>2. PICK n \in Heights : \A m \in Heights : n <= m
    BY <2>1, LeastNatural
  <2>3. PICK t \in group : n = 4 - L(t)
    BY <2>2
  <2>4. \A u \in group : 4 - L(t) <= 4 - L(u)
    BY <2>2, <2>3
  <2>5. \A u \in group : L(u) <= L(t)
    <3> HIDE DEF L
    <3> QED
      BY <2>4, <1>4
  <2> QED
    BY <2>5
<1> DEFINE Topmost == {t \in group : L(t) = L(top)}
<1>6. ASSUME NEW t \in Topmost
      PROVE  \E u \in Topmost : W(t)[1] \in RowKinds /\ W(u)[1] \in RowKinds /\ W(t)[2] < W(u)[2]
  <2>1. PICK u \in group : Before(W(t), W(u))
    BY <1>2
  <2>2. ~ (L(t) < L(u))
    BY <1>4, <1>5
  <2>3. W(t)[1] = W(u)[1] /\ W(t)[1] \in RowKinds /\ W(t)[2] < W(u)[2]
    BY <2>1, <2>2 DEF Before
  <2> QED
    BY <2>3
<1>7. PICK b \in Nat : \A u \in Units : u <= b
  BY UnitsBounded
<1>8. \A t \in Topmost : W(t)[2] \in Units
  BY <1>1, <1>3, <1>6
<1> DEFINE Distances == {b - W(t)[2] : t \in Topmost}
<1>9. Distances \in SUBSET Nat /\ Distances # {}
  <2>1. \A t \in Topmost : W(t)[2] \in Nat /\ W(t)[2] <= b
    BY <1>7, <1>8, LockAssumption
  <2>2. top \in Topmost
    OBVIOUS
  <2> QED
    BY <2>1, <2>2
<1>10. PICK n \in Distances : \A m \in Distances : n <= m
  BY <1>9, LeastNatural
<1>11. PICK t \in Topmost : n = b - W(t)[2]
  BY <1>10
<1>12. PICK u \in Topmost : W(t)[2] < W(u)[2]
  BY <1>6, <1>11
<1>13. b - W(t)[2] <= b - W(u)[2]
  BY <1>10, <1>11, <1>12
<1>14. W(t)[2] \in Nat /\ W(u)[2] \in Nat
  BY <1>8, LockAssumption
<1> QED
  BY <1>7, <1>12, <1>13, <1>14

\* However many transactions reserve, capture, settle or release a plate, ingest,
\* recover or edit the catalog over however many machines and lots: they never wait
\* for each other in a circle.  The operations that end several reservations in the
\* order of a scan (the release of a whole set, a cancellation, the close of a
\* checkout, the expiry worker) are excluded: with them TLC finds a circle.
THEOREM TransactionsNeverDeadlock ==
  ASSUME Operations \subseteq OrderedOperations PROVE LockSpec => []NoCircularWait
<1>1. LockInit => LockInv
  BY LocksStart
<1>2. LockInv /\ [LockNext]_lockVars => LockInv'
  <2> SUFFICES ASSUME LockInv, [LockNext]_lockVars PROVE LockInv'
    OBVIOUS
  <2>1. CASE UNCHANGED lockVars
    <3>1. todo' = todo /\ got' = got
      BY <2>1 DEF lockVars
    <3>2. /\ todo' \in [Transactions -> Seq(Locks)] /\ got' \in [Transactions -> SUBSET Locks]
          /\ \A t, u \in Transactions : t # u => got'[t] \cap got'[u] = {}
      BY <3>1 DEF LockInv
    <3>3. \A t \in Transactions :
            /\ InOrder(todo'[t]) /\ Covered(todo'[t], got'[t])
            /\ \A l \in got'[t] : Child(l) => SetOf(l) \in got'[t]
            /\ \A l \in got'[t], i \in 1..Len(todo'[t]) :
                 ~Child(l) /\ ~Child(todo'[t][i]) => Before(l, todo'[t][i])
      BY <3>1 DEF LockInv
    <3> QED
      BY <3>2, <3>3 DEF LockInv, InOrder, Covered, Child, SetOf, Before, Level, Locks
  <2> QED
    BY <2>1, AcquireKeeps, CommitKeeps DEF LockNext
<1>3. LockInv => NoCircularWait
  BY InvariantForbidsCircles
<1> QED
  BY <1>1, <1>2, <1>3, PTL DEF LockSpec

-----------------------------------------------------------------------------
(* Estimates, plans and reservations.  A candidate is written once and then   *)
(* stays as it is, because an attempt ends in one way only; so what was       *)
(* checked of it when it was planned is still true of it when it is reserved, *)
(* and the database constraints keep the reserved intervals apart.            *)

Results == {{}, {"DEAD"}, {"SUCCEEDED"}, {"RETRYABLE"}, {"FAILED"}}
BookingStates == {"NONE", "RESERVED", "HELD", "PRINTING", "RELEASED", "EXPIRED", "SETTLED"}
Candidates == [made : BOOLEAN, from : Nat, to : Nat, expires : Nat, version : Nat]

ResourcesTyped ==
  /\ clock \in Nat
  /\ printer \in [status : {"ACTIVE", "MAINTENANCE"}, calibration : {"DRAFT", "ACTIVE", "RETIRED"},
                  version : Nat, windows : Calendars \cup {{}}]
  /\ lot \in [status : {"AVAILABLE", "RETIRED"}, mount : {"MOUNTED", "UNMOUNTED"},
              remaining : Int, reserved : Int, receipt : Nat]
  /\ receipts \in [EstimateJobs -> Seq(Results)]
  /\ estimate \in [EstimateJobs -> Candidates]
  /\ planned \in [EstimateJobs -> Nat]
  /\ booking \in [EstimateJobs -> [set : BookingStates, expires : Nat]]
  /\ ledger \in [adjusted : SUBSET Deltas, consumed : Int, received : Nat]

\* What holds of one job: only its last attempt can be open or have succeeded, a
\* plan carries the expiry of the candidate, a reservation has a plan and, while
\* it is unpaid, ends before its machine time.
JobSound(j) ==
  /\ \A n \in 1..Len(receipts[j]) : n < Len(receipts[j]) => receipts[j][n] = {"RETRYABLE"}
  /\ estimate[j].made <=> \E n \in 1..Len(receipts[j]) : receipts[j][n] = {"SUCCEEDED"}
  /\ estimate[j].made => estimate[j].expires <= estimate[j].from
  /\ planned[j] # 0 => estimate[j].made /\ planned[j] = estimate[j].expires
  /\ booking[j].set # "NONE" => planned[j] # 0
  /\ booking[j].set = "RESERVED" => booking[j].expires <= estimate[j].from
JobsSound == \A j \in EstimateJobs : JobSound(j)

MaterialSound ==
  /\ MaterialAccounted
  /\ lot.receipt = 0 => ledger.received = 0
  /\ IsFiniteSet(ledger.adjusted)

ResourcesInv == ResourcesTyped /\ JobsSound /\ NoDoubleBooking /\ MaterialSound

LEMMA InvariantGivesReservations == ASSUME ResourcesInv PROVE ReservationsSound
<1>1. OneResultPerJob
  <2> SUFFICES ASSUME NEW j \in EstimateJobs
               PROVE  /\ \A n \in DOMAIN receipts[j] : Cardinality(receipts[j][n]) <= 1
                      /\ estimate[j].made <=> \E n \in DOMAIN receipts[j] : "SUCCEEDED" \in receipts[j][n]
                      /\ \A n \in DOMAIN receipts[j] : n < Len(receipts[j]) => receipts[j][n] = {"RETRYABLE"}
    BY DEF OneResultPerJob
  <2>1. /\ receipts[j] \in Seq(Results) /\ DOMAIN receipts[j] = 1..Len(receipts[j])
        /\ \A n \in 1..Len(receipts[j]) : receipts[j][n] \in Results
        /\ JobSound(j)
    BY DEF ResourcesInv, ResourcesTyped, JobsSound
  <2>2. \A r \in Results : Cardinality(r) <= 1
    <3>1. Cardinality({}) = 0
      BY FS_EmptySet
    <3>2. \A x : Cardinality({x}) = 1
      BY FS_Singleton
    <3>3. \A r \in Results : r = {} \/ \E x : r = {x}
      BY DEF Results
    <3>4. ASSUME NEW r \in Results PROVE Cardinality(r) = 0 \/ Cardinality(r) = 1
      BY <3>1, <3>2, <3>3
    <3> QED
      BY <3>4
  <2>3. \A r \in Results : "SUCCEEDED" \in r <=> r = {"SUCCEEDED"}
    BY DEF Results
  <2> QED
    BY <2>1, <2>2, <2>3 DEF JobSound
<1>2. ReservedEndsBeforeStart
  BY DEF ResourcesInv, JobsSound, JobSound, ReservedEndsBeforeStart
<1> QED
  BY <1>1, <1>2 DEF ResourcesInv, MaterialSound, ReservationsSound

LEMMA ResourcesStart == ASSUME ResourcesInit PROVE ResourcesInv
<1> USE DEF ResourcesInit
<1>1. ResourcesTyped
  BY DEF ResourcesTyped, NoEstimate, NoBooking, Candidates, BookingStates
<1>2. JobsSound
  BY DEF JobsSound, JobSound, NoEstimate, NoBooking
<1>3. LiveJobs = {}
  BY DEF LiveJobs, NoBooking, Live
<1>4. NoDoubleBooking
  BY <1>3 DEF NoDoubleBooking
<1>5. MaterialSound
  <2>1. SumFunctionOnSet(Grams, LiveJobs) = 0
    BY <1>3, SumEmpty
  <2>2. SumFunctionOnSet(Adjustments, ledger.adjusted) = 0
    BY SumEmpty
  <2>3. IsFiniteSet(ledger.adjusted)
    BY FS_EmptySet
  <2> QED
    BY <2>1, <2>2, <2>3 DEF MaterialSound, MaterialAccounted, NoBooking
<1> QED
  BY <1>1, <1>2, <1>4, <1>5 DEF ResourcesInv

\* What a step leaves alone keeps its part of the invariant.
LEMMA ResourceFrames ==
  ASSUME ResourcesInv
  PROVE  /\ UNCHANGED <<receipts, estimate, planned, booking>> => JobsSound'
         /\ UNCHANGED <<estimate, booking>> /\ printer'.windows = printer.windows => NoDoubleBooking'
         /\ UNCHANGED <<lot, ledger, booking>> => MaterialSound'
<1>1. ASSUME UNCHANGED <<receipts, estimate, planned, booking>> PROVE JobsSound'
  BY <1>1 DEF ResourcesInv, JobsSound, JobSound
<1>2. ASSUME UNCHANGED <<estimate, booking>>, printer'.windows = printer.windows PROVE NoDoubleBooking'
  BY <1>2 DEF ResourcesInv, NoDoubleBooking, LiveJobs, Inside, Meet
<1>3. ASSUME UNCHANGED <<lot, ledger, booking>> PROVE MaterialSound'
  <2>1. LiveJobs' = LiveJobs
    BY <1>3 DEF LiveJobs
  <2> QED
    BY <1>3, <2>1 DEF ResourcesInv, MaterialSound, MaterialAccounted
<1> QED
  BY <1>1, <1>2, <1>3

\* What a step may know of a job.
LEMMA JobFacts ==
  ASSUME ResourcesInv, NEW j \in EstimateJobs
  PROVE  /\ receipts[j] \in Seq(Results) /\ estimate[j] \in Candidates /\ planned[j] \in Nat
         /\ booking[j] \in [set : BookingStates, expires : Nat]
         /\ Len(receipts[j]) \in Nat /\ DOMAIN receipts[j] = 1..Len(receipts[j])
         /\ \A n \in 1..Len(receipts[j]) : receipts[j][n] \in Results
         /\ JobSound(j)
BY DEF ResourcesInv, ResourcesTyped, JobsSound

\* Jobs are sound when the one a step is about is, and the others are as before.
LEMMA OtherJobs ==
  ASSUME ResourcesInv, NEW j \in EstimateJobs, JobSound(j)',
         \A k \in EstimateJobs \ {j} : /\ receipts'[k] = receipts[k] /\ estimate'[k] = estimate[k]
                                       /\ planned'[k] = planned[k] /\ booking'[k] = booking[k]
  PROVE  JobsSound'
<1>1. ASSUME NEW k \in EstimateJobs \ {j} PROVE JobSound(k)'
  <2>1. JobSound(k)
    BY DEF ResourcesInv, JobsSound
  <2>2. /\ receipts'[k] = receipts[k] /\ estimate'[k] = estimate[k]
        /\ planned'[k] = planned[k] /\ booking'[k] = booking[k]
    BY <1>1
  <2> QED
    BY <2>1, <2>2 DEF JobSound
<1> QED
  BY <1>1 DEF JobsSound

\* While an attempt of a job is open the job has no candidate.
LEMMA OpenMeansUnmade ==
  ASSUME ResourcesInv, NEW j \in EstimateJobs, NEW n \in 1..Len(receipts[j]), receipts[j][n] = {}
  PROVE  /\ n = Len(receipts[j]) /\ ~estimate[j].made /\ planned[j] = 0 /\ booking[j].set = "NONE"
         /\ \A m \in 1..Len(receipts[j]) : m # n => receipts[j][m] = {"RETRYABLE"}
<1>1. /\ JobSound(j) /\ Len(receipts[j]) \in Nat
  BY JobFacts
<1>2. n = Len(receipts[j])
  <2>1. {"RETRYABLE"} # {}
    OBVIOUS
  <2>2. ~ (n < Len(receipts[j]))
    BY <1>1, <2>1, Zenon DEF JobSound
  <2> QED
    BY <1>1, <2>2
<1>3. \A m \in 1..Len(receipts[j]) : m # n => receipts[j][m] = {"RETRYABLE"}
  BY <1>1, <1>2 DEF JobSound
<1>4. \A m \in 1..Len(receipts[j]) : receipts[j][m] # {"SUCCEEDED"}
  <2>1. {"RETRYABLE"} # {"SUCCEEDED"} /\ {} # {"SUCCEEDED"}
    OBVIOUS
  <2> QED
    BY <1>3, <2>1
<1> QED
  BY <1>1, <1>2, <1>3, <1>4 DEF JobSound

LEMMA stageDispatchKeeps ==
  ASSUME ResourcesInv, NEW j \in EstimateJobs, stageDispatch(j) PROVE ResourcesInv'
<1> DEFINE s == receipts[j]
           r == Append(s, {})
<1>1. /\ receipts' = [receipts EXCEPT ![j] = r]
      /\ UNCHANGED <<phaseOf, clock, printer, lot, estimate, planned, booking, ledger, changes>>
      /\ s # <<>> => "RETRYABLE" \in s[Len(s)]
  BY DEF stageDispatch
<1>2. /\ s \in Seq(Results) /\ Len(s) \in Nat /\ JobSound(j)
      /\ \A n \in 1..Len(s) : s[n] \in Results
  BY JobFacts
<1>3. {} \in Results
  BY DEF Results
<1>4. /\ r \in Seq(Results) /\ Len(r) = Len(s) + 1 /\ r[Len(s) + 1] = {}
      /\ \A n \in 1..Len(s) : r[n] = s[n]
  BY <1>2, <1>3
<1>5. \A n \in 1..Len(s) : s[n] = {"RETRYABLE"}
  <2>1. \A x \in Results : "RETRYABLE" \in x => x = {"RETRYABLE"}
    BY DEF Results
  <2>2. Len(s) > 0 => s # <<>>
    BY <1>2
  <2>3. Len(s) > 0 => s[Len(s)] = {"RETRYABLE"}
    BY <1>1, <1>2, <2>1, <2>2
  <2> QED
    BY <1>2, <2>3 DEF JobSound
<1>6. receipts'[j] = r /\ \A k \in EstimateJobs \ {j} : receipts'[k] = receipts[k]
  BY <1>1 DEF ResourcesInv, ResourcesTyped
<1> HIDE DEF s, r
<1>7. ResourcesTyped'
  <2>1. receipts' \in [EstimateJobs -> Seq(Results)]
    BY <1>1, <1>4 DEF ResourcesInv, ResourcesTyped
  <2> QED
    BY <1>1, <2>1 DEF ResourcesInv, ResourcesTyped
<1>8. JobSound(j)'
  <2>1. \A n \in 1..Len(r) : n < Len(r) => r[n] = {"RETRYABLE"}
    BY <1>2, <1>4, <1>5
  <2>2. \A n \in 1..Len(r) : r[n] # {"SUCCEEDED"}
    <3>1. {"RETRYABLE"} # {"SUCCEEDED"} /\ {} # {"SUCCEEDED"}
      OBVIOUS
    <3>2. \A n \in 1..Len(r) : n \in 1..Len(s) \/ n = Len(s) + 1
      BY <1>2, <1>4
    <3> QED
      BY <1>4, <1>5, <3>1, <3>2
  <2>3. ~estimate[j].made
    <3>1. {"RETRYABLE"} # {"SUCCEEDED"}
      OBVIOUS
    <3> QED
      BY <1>2, <1>5, <3>1 DEF JobSound, s
  <2> QED
    BY <1>1, <1>2, <1>6, <2>1, <2>2, <2>3 DEF JobSound
<1>9. JobsSound'
  BY <1>1, <1>6, <1>8, OtherJobs
<1> QED
  BY <1>1, <1>7, <1>9, ResourceFrames DEF ResourcesInv

\* An open attempt ends without a candidate.
LEMMA EndsWithoutCandidate ==
  ASSUME ResourcesInv, NEW j \in EstimateJobs, NEW n \in 1..Len(receipts[j]), receipts[j][n] = {},
         NEW class \in {"DEAD", "RETRYABLE", "FAILED"},
         receipts' = [receipts EXCEPT ![j][n] = {class}],
         UNCHANGED <<phaseOf, clock, printer, lot, estimate, planned, booking, ledger, changes>>
  PROVE  ResourcesInv'
<1> DEFINE s == receipts[j]
           r == [s EXCEPT ![n] = {class}]
<1>1. /\ s \in Seq(Results) /\ Len(s) \in Nat /\ JobSound(j)
      /\ \A m \in 1..Len(s) : s[m] \in Results
  BY JobFacts
<1>2. /\ n = Len(s) /\ ~estimate[j].made /\ planned[j] = 0 /\ booking[j].set = "NONE"
      /\ \A m \in 1..Len(s) : m # n => s[m] = {"RETRYABLE"}
  BY OpenMeansUnmade
<1>3. {class} \in Results /\ {class} # {"SUCCEEDED"}
  BY DEF Results
<1>4. /\ r \in Seq(Results) /\ Len(r) = Len(s) /\ r[n] = {class}
      /\ \A m \in 1..Len(s) : m # n => r[m] = s[m]
  BY <1>1, <1>3
<1>5. receipts'[j] = r /\ \A k \in EstimateJobs \ {j} : receipts'[k] = receipts[k]
  BY DEF ResourcesInv, ResourcesTyped
<1>6. receipts' \in [EstimateJobs -> Seq(Results)]
  <2>1. receipts' = [receipts EXCEPT ![j] = r]
    OBVIOUS
  <2> HIDE DEF r
  <2> QED
    BY <1>4, <2>1 DEF ResourcesInv, ResourcesTyped
<1> HIDE DEF s, r
<1>7. ResourcesTyped'
  BY <1>6 DEF ResourcesInv, ResourcesTyped
<1>8. JobSound(j)'
  <2>1. \A m \in 1..Len(r) : m < Len(r) => r[m] = {"RETRYABLE"}
    BY <1>1, <1>2, <1>4
  <2>2. \A m \in 1..Len(r) : r[m] # {"SUCCEEDED"}
    <3>1. {"RETRYABLE"} # {"SUCCEEDED"}
      OBVIOUS
    <3> QED
      BY <1>2, <1>3, <1>4, <3>1
  <2> QED
    BY <1>1, <1>2, <1>5, <2>1, <2>2 DEF JobSound
<1>9. JobsSound'
  BY <1>5, <1>8, OtherJobs
<1> QED
  BY <1>7, <1>9, ResourceFrames DEF ResourcesInv

\* The candidate is written with the success of its attempt; its machine time
\* begins after it expires.
LEMMA ingestSucceededKeeps ==
  ASSUME ResourcesInv, NEW j \in EstimateJobs, NEW n \in 1..Len(receipts[j]), ingestSucceeded(j, n)
  PROVE  ResourcesInv'
<1> DEFINE s == receipts[j]
           r == [s EXCEPT ![n] = {"SUCCEEDED"}]
           free == Starts(phaseOf[j])
           start == Min(free)
           c == newCandidate(start)
<1>1. /\ receipts[j][n] = {} /\ free # {}
      /\ estimate' = [estimate EXCEPT ![j] = c]
      /\ UNCHANGED <<phaseOf, clock, printer, lot, planned, booking, ledger, changes>>
  BY DEF ingestSucceeded, terminalOpen
<1>2. /\ s \in Seq(Results) /\ Len(s) \in Nat /\ JobSound(j)
      /\ \A m \in 1..Len(s) : s[m] \in Results
  BY JobFacts
<1>3. /\ n = Len(s) /\ ~estimate[j].made /\ planned[j] = 0 /\ booking[j].set = "NONE"
      /\ \A m \in 1..Len(s) : m # n => s[m] = {"RETRYABLE"}
  BY <1>1, OpenMeansUnmade
<1>4. receipts' = [receipts EXCEPT ![j] = r]
  <2>1. receipts' = [receipts EXCEPT ![j][n] = @ \cup {"SUCCEEDED"}]
    BY DEF ingestSucceeded
  <2>2. {} \cup {"SUCCEEDED"} = {"SUCCEEDED"}
    OBVIOUS
  <2> QED
    BY <1>1, <2>1, <2>2
<1>5. start \in Nat /\ clock + CandidateTTL <= start
  <2>1. clock \in Nat /\ CandidateTTL \in Nat /\ SearchHorizon \in Nat
    BY ResourcesAssumption DEF ResourcesInv, ResourcesTyped
  <2>2. free \in SUBSET Nat /\ \A t \in free : clock + CandidateTTL <= t
    BY <2>1 DEF Starts, expiresAt
  <2>3. \E t \in free : \A u \in free : t <= u
    BY <1>1, <2>2, LeastNatural
  <2>4. start \in free
    BY <2>3, Zenon DEF Min
  <2> QED
    BY <2>2, <2>4
<1>6. c \in Candidates /\ c.made /\ c.expires <= c.from
  <2>1. clock \in Nat /\ printer.version \in Nat /\ CandidateTTL \in Nat
    BY ResourcesAssumption DEF ResourcesInv, ResourcesTyped
  <2> HIDE DEF start
  <2>2. start + 1 \in Nat /\ clock + CandidateTTL \in Nat
    BY <1>5, <2>1
  <2> QED
    BY <1>5, <2>1, <2>2 DEF newCandidate, Candidates
<1>7. {"SUCCEEDED"} \in Results
  BY DEF Results
<1>8. /\ r \in Seq(Results) /\ Len(r) = Len(s) /\ r[n] = {"SUCCEEDED"}
      /\ \A m \in 1..Len(s) : m # n => r[m] = s[m]
  BY <1>2, <1>7
<1> HIDE DEF s, r, c, free, start
<1>9. /\ receipts'[j] = r /\ \A k \in EstimateJobs \ {j} : receipts'[k] = receipts[k]
      /\ estimate'[j] = c /\ \A k \in EstimateJobs \ {j} : estimate'[k] = estimate[k]
  BY <1>1, <1>4 DEF ResourcesInv, ResourcesTyped
<1>10. receipts' \in [EstimateJobs -> Seq(Results)] /\ estimate' \in [EstimateJobs -> Candidates]
  BY <1>1, <1>4, <1>6, <1>8 DEF ResourcesInv, ResourcesTyped
<1>11. ResourcesTyped'
  BY <1>1, <1>10 DEF ResourcesInv, ResourcesTyped
<1>12. JobSound(j)'
  <2>1. \A m \in 1..Len(r) : m < Len(r) => r[m] = {"RETRYABLE"}
    BY <1>2, <1>3, <1>8
  <2>2. n \in 1..Len(r)
    BY <1>8 DEF s
  <2> QED
    BY <1>1, <1>3, <1>6, <1>8, <1>9, <2>1, <2>2 DEF JobSound
<1>13. JobsSound'
  BY <1>1, <1>9, <1>12, OtherJobs
<1>14. NoDoubleBooking'
  <2>1. LiveJobs' = LiveJobs /\ j \notin LiveJobs
    BY <1>1, <1>3 DEF LiveJobs, Live
  <2>2. \A k \in LiveJobs : estimate'[k] = estimate[k]
    BY <1>9, <2>1 DEF LiveJobs
  <2> QED
    BY <1>1, <2>1, <2>2 DEF ResourcesInv, NoDoubleBooking, Inside, Meet
<1> QED
  BY <1>1, <1>11, <1>13, <1>14, ResourceFrames DEF ResourcesInv

\* The plan takes the usable candidate with the least material, then the first.
LEMMA LeastCandidate ==
  ASSUME NEW S \in SUBSET EstimateJobs, S # {}
  PROVE  \E j \in S : \A k \in S : Grams[j] < Grams[k] \/ (Grams[j] = Grams[k] /\ j <= k)
<1> DEFINE G == {Grams[j] : j \in S}
<1>1. S \in SUBSET Nat /\ \A j \in S : Grams[j] \in Nat
  BY ResourcesAssumption
<1>2. PICK g \in G : \A h \in G : g <= h
  <2>1. G \in SUBSET Nat /\ G # {}
    BY <1>1
  <2> HIDE DEF G
  <2> QED
    BY <2>1, LeastNatural
<1> DEFINE T == {j \in S : Grams[j] = g}
<1>3. PICK j \in T : \A k \in T : j <= k
  <2>1. T \in SUBSET Nat /\ T # {}
    BY <1>1, <1>2
  <2> HIDE DEF T
  <2> QED
    BY <2>1, LeastNatural
<1>4. ASSUME NEW k \in S PROVE Grams[j] < Grams[k] \/ (Grams[j] = Grams[k] /\ j <= k)
  <2>1. Grams[j] = g /\ g \in Nat /\ Grams[k] \in Nat /\ g <= Grams[k]
    BY <1>1, <1>2, <1>3
  <2>2. Grams[k] = g => j <= k
    BY <1>3
  <2> QED
    BY <2>1, <2>2
<1> QED
  BY <1>3, <1>4

LEMMA createCompletePlanKeeps ==
  ASSUME ResourcesInv, NEW p, createCompletePlan(p) PROVE ResourcesInv'
<1> DEFINE usableJobs == {j \in Phase(p) : plannable(j)}
           best == CHOOSE j \in usableJobs : \A k \in usableJobs :
                     Grams[j] < Grams[k] \/ (Grams[j] = Grams[k] /\ j <= k)
<1>1. /\ usableJobs # {} /\ planned[best] = 0
      /\ planned' = [planned EXCEPT ![best] = estimate[best].expires]
      /\ UNCHANGED <<phaseOf, clock, printer, lot, receipts, estimate, booking, ledger, changes>>
  BY DEF createCompletePlan
<1>2. usableJobs \in SUBSET EstimateJobs /\ \A j \in usableJobs : estimate[j].made
  BY DEF Phase, plannable
<1>3. best \in usableJobs
  <2>1. \E j \in usableJobs : \A k \in usableJobs :
          Grams[j] < Grams[k] \/ (Grams[j] = Grams[k] /\ j <= k)
    BY <1>1, <1>2, LeastCandidate
  <2> HIDE DEF usableJobs
  <2> QED
    BY <2>1, Zenon
<1> HIDE DEF best, usableJobs
<1>4. PICK j \in EstimateJobs : /\ estimate[j].made
                               /\ planned' = [planned EXCEPT ![j] = estimate[j].expires]
  BY <1>1, <1>2, <1>3
<1>5. /\ estimate[j] \in Candidates /\ JobSound(j)
  BY JobFacts
<1>6. estimate[j].expires \in Nat
  BY <1>5 DEF Candidates
<1>7. /\ planned' \in [EstimateJobs -> Nat] /\ planned'[j] = estimate[j].expires
      /\ \A k \in EstimateJobs \ {j} : planned'[k] = planned[k]
  BY <1>4, <1>6 DEF ResourcesInv, ResourcesTyped
<1>8. ResourcesTyped'
  BY <1>1, <1>7 DEF ResourcesInv, ResourcesTyped
<1>9. JobSound(j)'
  <2>1. booking[j].set # "NONE" => estimate[j].expires # 0
    BY <1>5 DEF JobSound
  <2> QED
    BY <1>1, <1>4, <1>5, <1>7, <2>1 DEF JobSound
<1>10. JobsSound'
  BY <1>1, <1>7, <1>9, OtherJobs
<1> QED
  BY <1>1, <1>8, <1>10, ResourceFrames DEF ResourcesInv

\* The reserved amount while a reservation comes and goes.
LEMMA LiveSums ==
  ASSUME NEW S \in SUBSET EstimateJobs
  PROVE  /\ SumFunctionOnSet(Grams, S) \in Nat
         /\ \A j \in S : /\ SumFunctionOnSet(Grams, S \ {j}) = SumFunctionOnSet(Grams, S) - Grams[j]
                         /\ Grams[j] <= SumFunctionOnSet(Grams, S)
<1>1. IsFiniteSet(S) /\ \A j \in S : Grams[j] \in Nat
  BY ResourcesAssumption, FS_Subset
<1>2. /\ SumFunctionOnSet(Grams, S) \in Nat
      /\ \A j \in S : SumFunctionOnSet(Grams, S) = Grams[j] + SumFunctionOnSet(Grams, S \ {j})
  BY <1>1, SumRemove
<1>3. ASSUME NEW j \in S
      PROVE  /\ SumFunctionOnSet(Grams, S \ {j}) = SumFunctionOnSet(Grams, S) - Grams[j]
             /\ Grams[j] <= SumFunctionOnSet(Grams, S)
  <2>1. IsFiniteSet(S \ {j}) /\ \A k \in S \ {j} : Grams[k] \in Nat
    BY <1>1, FS_RemoveElement
  <2> DEFINE rest == SumFunctionOnSet(Grams, S \ {j})
             all == SumFunctionOnSet(Grams, S)
  <2>2. rest \in Nat
    BY <2>1, SumRemove
  <2>3. all = Grams[j] + rest /\ Grams[j] \in Nat /\ all \in Nat
    BY <1>1, <1>2
  <2> HIDE DEF rest, all
  <2>4. rest = all - Grams[j] /\ Grams[j] <= all
    BY <2>2, <2>3
  <2> QED
    BY <2>4 DEF rest, all
<1> QED
  BY <1>2, <1>3

LEMMA reservePhaseKeeps ==
  ASSUME ResourcesInv, NEW j \in EstimateJobs, reservePhase(j) PROVE ResourcesInv'
<1> DEFINE b == [set |-> "RESERVED", expires |-> clock + ReservationTTL]
<1>1. /\ planned[j] > 0 /\ booking[j] = NoBooking /\ availabilityCurrent(j) /\ capacityFree(j)
      /\ clock + ReservationTTL <= planned[j] /\ takeMaterial(j)
      /\ booking' = [booking EXCEPT ![j] = b]
      /\ UNCHANGED <<phaseOf, clock, printer, receipts, estimate, planned, ledger, changes>>
  BY DEF reservePhase
<1>2. /\ JobSound(j) /\ estimate[j] \in Candidates /\ planned[j] \in Nat
  BY JobFacts
<1>3. b \in [set : BookingStates, expires : Nat] /\ b.set = "RESERVED" /\ b.expires <= planned[j]
  BY <1>1, ResourcesAssumption DEF ResourcesInv, ResourcesTyped, BookingStates
<1> HIDE DEF b
<1>4. /\ booking' \in [EstimateJobs -> [set : BookingStates, expires : Nat]] /\ booking'[j] = b
      /\ \A k \in EstimateJobs \ {j} : booking'[k] = booking[k]
  BY <1>1, <1>3 DEF ResourcesInv, ResourcesTyped
<1>5. /\ lot' = [lot EXCEPT !.reserved = lot.reserved + Grams[j]]
      /\ lot.remaining - lot.reserved >= Grams[j] /\ Grams[j] \in Nat
      /\ lot.remaining \in Int /\ lot.reserved \in Int
  BY <1>1, ResourcesAssumption DEF takeMaterial, ResourcesInv, ResourcesTyped
<1>6. /\ lot' \in [status : {"AVAILABLE", "RETIRED"}, mount : {"MOUNTED", "UNMOUNTED"},
                   remaining : Int, reserved : Int, receipt : Nat]
      /\ lot'.reserved = lot.reserved + Grams[j] /\ lot'.remaining = lot.remaining
      /\ lot'.mount = lot.mount /\ lot'.receipt = lot.receipt
  <2> DEFINE x == lot.reserved + Grams[j]
  <2>1. x \in Int /\ lot' = [lot EXCEPT !.reserved = x]
    BY <1>5
  <2> HIDE DEF x
  <2>2. lot'.reserved = x /\ lot'.remaining = lot.remaining
    BY <2>1 DEF ResourcesInv, ResourcesTyped
  <2> QED
    BY <2>1, <2>2 DEF ResourcesInv, ResourcesTyped, x
<1>7. ResourcesTyped'
  BY <1>1, <1>4, <1>6 DEF ResourcesInv, ResourcesTyped
<1>8. JobSound(j)'
  <2>1. estimate[j].made /\ planned[j] = estimate[j].expires /\ estimate[j].expires <= estimate[j].from
    BY <1>1, <1>2 DEF JobSound
  <2>2. b.expires <= estimate[j].from
    BY <1>2, <1>3, <2>1 DEF Candidates
  <2> QED
    BY <1>1, <1>2, <1>3, <1>4, <2>2 DEF JobSound
<1>9. JobsSound'
  BY <1>1, <1>4, <1>8, OtherJobs
<1>10. j \notin LiveJobs /\ LiveJobs' = LiveJobs \cup {j} /\ LiveJobs \in SUBSET EstimateJobs
  BY <1>1, <1>3, <1>4 DEF LiveJobs, Live, NoBooking
<1>11. NoDoubleBooking'
  <2>1. Inside(estimate[j], printer.windows)
    BY <1>1 DEF availabilityCurrent
  <2>2. \A k \in LiveJobs : ~Meet(estimate[j], estimate[k]) /\ ~Meet(estimate[k], estimate[j])
    BY <1>1 DEF capacityFree, Meet
  <2>3. \A k \in LiveJobs : /\ Inside(estimate[k], printer.windows)
                            /\ \A l \in LiveJobs \ {k} : ~Meet(estimate[k], estimate[l])
    BY DEF ResourcesInv, NoDoubleBooking
  <2>4. \A k \in LiveJobs \cup {j} :
          /\ Inside(estimate[k], printer.windows)
          /\ \A l \in (LiveJobs \cup {j}) \ {k} : ~Meet(estimate[k], estimate[l])
    BY <2>1, <2>2, <2>3
  <2> QED
    BY <1>1, <1>10, <2>4 DEF NoDoubleBooking, Inside, Meet
<1>12. MaterialSound'
  <2>1. SumFunctionOnSet(Grams, LiveJobs') = SumFunctionOnSet(Grams, LiveJobs) + Grams[j]
    <3> DEFINE L == LiveJobs \cup {j}
    <3>1. L \in SUBSET EstimateJobs /\ j \in L /\ L \ {j} = LiveJobs
      BY <1>10
    <3>2. /\ SumFunctionOnSet(Grams, L) \in Nat
          /\ SumFunctionOnSet(Grams, L \ {j}) = SumFunctionOnSet(Grams, L) - Grams[j]
      BY <3>1, LiveSums
    <3> DEFINE x == SumFunctionOnSet(Grams, L)
               y == SumFunctionOnSet(Grams, LiveJobs)
    <3>3. y = x - Grams[j] /\ x \in Nat /\ Grams[j] \in Nat
      BY <1>5, <3>1, <3>2
    <3>4. LiveJobs' = L
      BY <1>10
    <3> HIDE DEF x, y
    <3>5. x = y + Grams[j]
      BY <3>3
    <3> QED
      BY <3>4, <3>5, Zenon DEF x, y
  <2>2. (\E k \in EstimateJobs : booking'[k].set = "PRINTING")
          => \E k \in EstimateJobs : booking[k].set = "PRINTING"
    BY <1>3, <1>4
  <2>3. lot'.reserved <= lot'.remaining
    BY <1>5, <1>6
  <2> QED
    BY <1>1, <1>6, <2>1, <2>2, <2>3 DEF ResourcesInv, MaterialSound, MaterialAccounted
<1> QED
  BY <1>7, <1>9, <1>11, <1>12 DEF ResourcesInv

\* A paid set stays live.
LEMMA StaysLive ==
  ASSUME ResourcesInv, NEW j \in EstimateJobs, booking[j].set \in {"RESERVED", "HELD"},
         NEW status \in {"HELD", "PRINTING"},
         status = "PRINTING" => lot.mount = "MOUNTED",
         booking' = [booking EXCEPT ![j].set = status],
         UNCHANGED <<phaseOf, clock, printer, lot, receipts, estimate, planned, ledger, changes>>
  PROVE  ResourcesInv'
<1>1. JobSound(j) /\ booking[j] \in [set : BookingStates, expires : Nat]
  BY JobFacts
<1>2. /\ booking' \in [EstimateJobs -> [set : BookingStates, expires : Nat]]
      /\ booking'[j].set = status /\ \A k \in EstimateJobs \ {j} : booking'[k] = booking[k]
  BY <1>1 DEF ResourcesInv, ResourcesTyped, BookingStates
<1>3. ResourcesTyped'
  BY <1>2 DEF ResourcesInv, ResourcesTyped
<1>4. JobSound(j)'
  BY <1>1, <1>2 DEF JobSound
<1>5. JobsSound'
  BY <1>2, <1>4, OtherJobs
<1>6. LiveJobs' = LiveJobs
  <2>1. \A k \in EstimateJobs : booking'[k].set \in Live <=> booking[k].set \in Live
    BY <1>2 DEF Live
  <2> QED
    BY <2>1 DEF LiveJobs
<1>7. NoDoubleBooking'
  BY <1>6 DEF ResourcesInv, NoDoubleBooking, Inside, Meet
<1>8. MaterialSound'
  <2>1. (\E k \in EstimateJobs : booking'[k].set = "PRINTING") => lot.mount = "MOUNTED"
    BY <1>2 DEF ResourcesInv, MaterialSound, MaterialAccounted
  <2> QED
    BY <1>6, <2>1 DEF ResourcesInv, MaterialSound, MaterialAccounted
<1> QED
  BY <1>3, <1>5, <1>7, <1>8 DEF ResourcesInv

\* A live reservation ends: its interval and its material are free again.
LEMMA ReservationEnds ==
  ASSUME ResourcesInv, NEW j \in EstimateJobs, j \in LiveJobs,
         NEW status \in {"RELEASED", "EXPIRED", "SETTLED"},
         booking' = [booking EXCEPT ![j].set = status],
         NEW used \in Nat, used <= Grams[j],
         lot' = [lot EXCEPT !.remaining = @ - used, !.reserved = @ - Grams[j]],
         ledger' = [ledger EXCEPT !.consumed = @ + used],
         UNCHANGED <<phaseOf, clock, printer, receipts, estimate, planned, changes>>
  PROVE  ResourcesInv'
<1>1. JobSound(j) /\ booking[j] \in [set : BookingStates, expires : Nat]
  BY JobFacts
<1>2. /\ booking' \in [EstimateJobs -> [set : BookingStates, expires : Nat]]
      /\ booking'[j].set = status /\ \A k \in EstimateJobs \ {j} : booking'[k] = booking[k]
  BY <1>1 DEF ResourcesInv, ResourcesTyped, BookingStates
<1> DEFINE x == lot.remaining - used
           y == lot.reserved - Grams[j]
           z == ledger.consumed + used
<1>3. /\ x \in Int /\ y \in Int /\ z \in Int /\ Grams[j] \in Nat
      /\ lot.remaining \in Int /\ lot.reserved \in Int /\ ledger.consumed \in Int
      /\ lot' = [lot EXCEPT !.remaining = x, !.reserved = y]
      /\ ledger' = [ledger EXCEPT !.consumed = z]
  <2>1. lot.remaining \in Int /\ lot.reserved \in Int /\ ledger.consumed \in Int
    BY DEF ResourcesInv, ResourcesTyped
  <2>2. Grams[j] \in Nat
    BY ResourcesAssumption
  <2>3. lot' = [lot EXCEPT !.remaining = x, !.reserved = y]
    OBVIOUS
  <2>4. ledger' = [ledger EXCEPT !.consumed = z]
    OBVIOUS
  <2>5. x \in Int /\ y \in Int /\ z \in Int
    BY <2>1, <2>2
  <2> QED
    BY <2>1, <2>2, <2>3, <2>4, <2>5
<1> HIDE DEF x, y, z
<1>4. /\ lot' \in [status : {"AVAILABLE", "RETIRED"}, mount : {"MOUNTED", "UNMOUNTED"},
                   remaining : Int, reserved : Int, receipt : Nat]
      /\ lot'.reserved = y /\ lot'.remaining = x
      /\ lot'.mount = lot.mount /\ lot'.receipt = lot.receipt
  BY <1>3 DEF ResourcesInv, ResourcesTyped
<1>5. /\ ledger' \in [adjusted : SUBSET Deltas, consumed : Int, received : Nat]
      /\ ledger'.consumed = z /\ ledger'.received = ledger.received
      /\ ledger'.adjusted = ledger.adjusted
  BY <1>3 DEF ResourcesInv, ResourcesTyped
<1>6. ResourcesTyped'
  BY <1>2, <1>4, <1>5 DEF ResourcesInv, ResourcesTyped
<1>7. JobSound(j)'
  <2>1. booking[j].set # "NONE"
    BY DEF LiveJobs, Live
  <2> QED
    BY <1>1, <1>2, <2>1 DEF JobSound
<1>8. JobsSound'
  BY <1>2, <1>7, OtherJobs
<1>9. LiveJobs' = LiveJobs \ {j} /\ LiveJobs \in SUBSET EstimateJobs
  BY <1>2 DEF LiveJobs, Live
<1>10. NoDoubleBooking'
  BY <1>9 DEF ResourcesInv, NoDoubleBooking, Inside, Meet
<1>11. MaterialSound'
  <2> DEFINE L == SumFunctionOnSet(Grams, LiveJobs)
             A == SumFunctionOnSet(Adjustments, ledger.adjusted)
  <2>1. SumFunctionOnSet(Grams, LiveJobs') = L - Grams[j] /\ L \in Nat
    BY <1>9, LiveSums
  <2>2. /\ lot.reserved = L /\ lot.reserved <= lot.remaining
        /\ lot.remaining = ledger.received + A - ledger.consumed
        /\ (\E k \in EstimateJobs : booking[k].set = "PRINTING") => lot.mount = "MOUNTED"
        /\ lot.receipt = 0 => ledger.received = 0
        /\ IsFiniteSet(ledger.adjusted)
    BY DEF ResourcesInv, MaterialSound, MaterialAccounted
  <2>3. A \in Int /\ ledger.received \in Int
    <3>1. \A d \in ledger.adjusted : Adjustments[d] \in Int
      BY ResourcesAssumption DEF ResourcesInv, ResourcesTyped, Adjustments
    <3> QED
      BY <2>2, <3>1, IntSumRemove DEF ResourcesInv, ResourcesTyped
  <2>4. (\E k \in EstimateJobs : booking'[k].set = "PRINTING")
          => \E k \in EstimateJobs : booking[k].set = "PRINTING"
    BY <1>2
  <2>5. SumFunctionOnSet(Adjustments, ledger'.adjusted) = A
    BY <1>5
  <2> HIDE DEF L, A
  <2>6. /\ y = L - Grams[j] /\ y <= x /\ x = ledger.received + A - z
    BY <1>3, <2>1, <2>2, <2>3 DEF x, y, z
  <2> QED
    BY <1>4, <1>5, <2>1, <2>2, <2>4, <2>5, <2>6 DEF MaterialSound, MaterialAccounted
<1> QED
  BY <1>6, <1>8, <1>10, <1>11 DEF ResourcesInv

LEMMA giveBackKeeps ==
  ASSUME ResourcesInv, NEW j \in EstimateJobs, j \in LiveJobs,
         NEW status \in {"RELEASED", "EXPIRED"}, giveBack(j, status)
  PROVE  ResourcesInv'
<1>1. lot' = [lot EXCEPT !.remaining = @ - 0, !.reserved = @ - Grams[j]]
  <2>1. lot.remaining - 0 = lot.remaining
    BY DEF ResourcesInv, ResourcesTyped
  <2>2. lot' = [lot EXCEPT !.reserved = @ - Grams[j]]
    BY DEF giveBack
  <2>3. lot = [lot EXCEPT !.remaining = lot.remaining]
    BY DEF ResourcesInv, ResourcesTyped
  <2> QED
    BY <2>1, <2>2, <2>3 DEF ResourcesInv, ResourcesTyped
<1>2. ledger' = [ledger EXCEPT !.consumed = @ + 0]
  <2>1. ledger.consumed + 0 = ledger.consumed
    BY DEF ResourcesInv, ResourcesTyped
  <2> QED
    BY <2>1 DEF giveBack, ResourcesInv, ResourcesTyped
<1>3. 0 \in Nat /\ 0 <= Grams[j]
  BY ResourcesAssumption
<1>4. /\ booking' = [booking EXCEPT ![j].set = status]
      /\ UNCHANGED <<phaseOf, clock, printer, receipts, estimate, planned, changes>>
  BY DEF giveBack
<1> QED
  BY <1>1, <1>2, <1>3, <1>4, ReservationEnds

LEMMA NextVersion == ASSUME ResourcesInv PROVE printer.version + 1 \in Nat
BY DEF ResourcesInv, ResourcesTyped

\* The operator's changes of the machine: availability may not leave out what is
\* reserved, held or printing.
LEMMA MachineChangesKeep ==
  ASSUME ResourcesInv, machineUnchanged,
         \/ \E status \in {"ACTIVE", "MAINTENANCE"} : printer' = [printer EXCEPT !.status = status]
         \/ \E to \in {"ACTIVE", "RETIRED"} : printer' = [printer EXCEPT !.calibration = to]
         \/ \E windows \in Calendars :
              /\ noneExcluded(windows)
              /\ printer' = [printer EXCEPT !.version = @ + 1, !.windows = windows]
  PROVE  ResourcesInv'
<1>1. UNCHANGED <<phaseOf, clock, lot, receipts, estimate, planned, booking, ledger>>
  BY DEF machineUnchanged
<1>2. printer' \in [status : {"ACTIVE", "MAINTENANCE"}, calibration : {"DRAFT", "ACTIVE", "RETIRED"},
                    version : Nat, windows : Calendars \cup {{}}]
  <2>1. printer \in [status : {"ACTIVE", "MAINTENANCE"}, calibration : {"DRAFT", "ACTIVE", "RETIRED"},
                     version : Nat, windows : Calendars \cup {{}}]
    BY DEF ResourcesInv, ResourcesTyped
  <2>2. CASE \E status \in {"ACTIVE", "MAINTENANCE"} : printer' = [printer EXCEPT !.status = status]
    BY <2>1, <2>2
  <2>3. CASE \E to \in {"ACTIVE", "RETIRED"} : printer' = [printer EXCEPT !.calibration = to]
    BY <2>1, <2>3
  <2>4. ASSUME NEW windows \in Calendars,
               printer' = [printer EXCEPT !.version = @ + 1, !.windows = windows]
        PROVE  printer' \in [status : {"ACTIVE", "MAINTENANCE"},
                             calibration : {"DRAFT", "ACTIVE", "RETIRED"},
                             version : Nat, windows : Calendars \cup {{}}]
    <3>1. PICK next \in Nat : next = printer.version + 1
      BY NextVersion, Zenon
    <3>2. printer' = [printer EXCEPT !.version = next, !.windows = windows]
      BY <2>4, <3>1
    <3> QED
      BY <2>1, <3>2
  <2> QED
    BY <2>2, <2>3, <2>4
<1>3. ResourcesTyped'
  BY <1>1, <1>2 DEF ResourcesInv, ResourcesTyped
<1>4. JobsSound' /\ MaterialSound'
  BY <1>1, ResourceFrames
<1>5. printer'.windows = printer.windows \/ noneExcluded(printer'.windows)
  <2>1. printer \in [status : {"ACTIVE", "MAINTENANCE"}, calibration : {"DRAFT", "ACTIVE", "RETIRED"},
                     version : Nat, windows : Calendars \cup {{}}]
    BY DEF ResourcesInv, ResourcesTyped
  <2> QED
    BY <2>1
<1>6. NoDoubleBooking'
  <2>1. CASE printer'.windows = printer.windows
    BY <1>1, <2>1, ResourceFrames
  <2>2. CASE noneExcluded(printer'.windows)
    <3>1. LiveJobs' = LiveJobs
      BY <1>1 DEF LiveJobs
    <3> QED
      BY <1>1, <2>2, <3>1 DEF ResourcesInv, NoDoubleBooking, noneExcluded, Inside, Meet
  <2> QED
    BY <1>5, <2>1, <2>2
<1> QED
  BY <1>3, <1>4, <1>6 DEF ResourcesInv

\* Changes of the lot that move no material.
LEMMA LotChangesKeep ==
  ASSUME ResourcesInv, lotUnchanged, ledger' = ledger,
         \/ \E mount \in {"MOUNTED", "UNMOUNTED"} :
              /\ mount = "UNMOUNTED" => \A j \in EstimateJobs : booking[j].set # "PRINTING"
              /\ lot' = [lot EXCEPT !.mount = mount]
         \/ \E status \in {"AVAILABLE", "RETIRED"} : lot' = [lot EXCEPT !.status = status]
         \/ lot.receipt > 0 /\ lot' = [lot EXCEPT !.receipt = @ + 1]
  PROVE  ResourcesInv'
<1>1. UNCHANGED <<phaseOf, clock, printer, receipts, estimate, planned, booking, ledger>>
  BY DEF lotUnchanged
<1>2. /\ lot' \in [status : {"AVAILABLE", "RETIRED"}, mount : {"MOUNTED", "UNMOUNTED"},
                   remaining : Int, reserved : Int, receipt : Nat]
      /\ lot'.remaining = lot.remaining /\ lot'.reserved = lot.reserved
      /\ lot'.receipt = 0 => lot.receipt = 0
      /\ (\E j \in EstimateJobs : booking[j].set = "PRINTING") /\ lot.mount = "MOUNTED"
           => lot'.mount = "MOUNTED"
  <2>1. lot \in [status : {"AVAILABLE", "RETIRED"}, mount : {"MOUNTED", "UNMOUNTED"},
                 remaining : Int, reserved : Int, receipt : Nat]
    BY DEF ResourcesInv, ResourcesTyped
  <2>2. CASE \E mount \in {"MOUNTED", "UNMOUNTED"} :
               /\ mount = "UNMOUNTED" => \A j \in EstimateJobs : booking[j].set # "PRINTING"
               /\ lot' = [lot EXCEPT !.mount = mount]
    BY <2>1, <2>2
  <2>3. CASE \E status \in {"AVAILABLE", "RETIRED"} : lot' = [lot EXCEPT !.status = status]
    BY <2>1, <2>3
  <2>4. CASE lot.receipt > 0 /\ lot' = [lot EXCEPT !.receipt = @ + 1]
    <3>1. PICK next \in Nat : next = lot.receipt + 1
      BY <2>1
    <3>2. lot' = [lot EXCEPT !.receipt = next] /\ next # 0
      BY <2>1, <2>4, <3>1
    <3> QED
      BY <2>1, <3>2
  <2> QED
    BY <2>2, <2>3, <2>4
<1>3. ResourcesTyped'
  BY <1>1, <1>2 DEF ResourcesInv, ResourcesTyped
<1>4. JobsSound' /\ NoDoubleBooking'
  BY <1>1, ResourceFrames
<1>5. LiveJobs' = LiveJobs
  BY <1>1 DEF LiveJobs
<1>6. MaterialSound'
  BY <1>1, <1>2, <1>5 DEF ResourcesInv, MaterialSound, MaterialAccounted
<1> QED
  BY <1>3, <1>4, <1>6 DEF ResourcesInv

LEMMA receiveInventoryKeeps ==
  ASSUME ResourcesInv, NEW amount \in Deliveries, receiveInventory(amount) PROVE ResourcesInv'
<1>1. /\ UNCHANGED <<phaseOf, clock, printer, receipts, estimate, planned, booking>>
      /\ lot.receipt = 0 /\ lot.remaining = 0 /\ amount > 0
      /\ lot' = [lot EXCEPT !.remaining = amount, !.receipt = 1]
      /\ ledger' = [ledger EXCEPT !.received = amount]
  BY DEF receiveInventory, lotUnchanged
<1>2. amount \in Nat
  BY ResourcesAssumption
<1>3. /\ lot' \in [status : {"AVAILABLE", "RETIRED"}, mount : {"MOUNTED", "UNMOUNTED"},
                   remaining : Int, reserved : Int, receipt : Nat]
      /\ lot'.remaining = amount /\ lot'.reserved = lot.reserved /\ lot'.receipt = 1
      /\ lot'.mount = lot.mount
      /\ ledger' \in [adjusted : SUBSET Deltas, consumed : Int, received : Nat]
      /\ ledger'.received = amount /\ ledger'.consumed = ledger.consumed
      /\ ledger'.adjusted = ledger.adjusted
  <2>1. lot \in [status : {"AVAILABLE", "RETIRED"}, mount : {"MOUNTED", "UNMOUNTED"},
                 remaining : Int, reserved : Int, receipt : Nat]
    BY DEF ResourcesInv, ResourcesTyped
  <2>2. ledger \in [adjusted : SUBSET Deltas, consumed : Int, received : Nat]
    BY DEF ResourcesInv, ResourcesTyped
  <2>3. /\ lot' \in [status : {"AVAILABLE", "RETIRED"}, mount : {"MOUNTED", "UNMOUNTED"},
                     remaining : Int, reserved : Int, receipt : Nat]
        /\ lot'.remaining = amount /\ lot'.reserved = lot.reserved /\ lot'.receipt = 1
        /\ lot'.mount = lot.mount
    <3>1. amount \in Int /\ 1 \in Nat
      BY <1>2
    <3>2. lot' = [lot EXCEPT !.remaining = amount, !.receipt = 1]
      BY <1>1
    <3> QED
      BY <2>1, <3>1, <3>2
  <2>4. /\ ledger' \in [adjusted : SUBSET Deltas, consumed : Int, received : Nat]
        /\ ledger'.received = amount /\ ledger'.consumed = ledger.consumed
        /\ ledger'.adjusted = ledger.adjusted
    BY <1>1, <1>2, <2>2
  <2> QED
    BY <2>3, <2>4
<1>4. ResourcesTyped'
  BY <1>1, <1>3 DEF ResourcesInv, ResourcesTyped
<1>5. JobsSound' /\ NoDoubleBooking'
  BY <1>1, ResourceFrames
<1>6. LiveJobs' = LiveJobs
  BY <1>1 DEF LiveJobs
<1>7. MaterialSound'
  <2> DEFINE A == SumFunctionOnSet(Adjustments, ledger.adjusted)
  <2>1. /\ lot.reserved = SumFunctionOnSet(Grams, LiveJobs) /\ lot.reserved <= 0
        /\ 0 = 0 + A - ledger.consumed
        /\ (\E k \in EstimateJobs : booking[k].set = "PRINTING") => lot.mount = "MOUNTED"
        /\ IsFiniteSet(ledger.adjusted)
    BY <1>1 DEF ResourcesInv, MaterialSound, MaterialAccounted
  <2>2. A \in Int /\ ledger.consumed \in Int /\ lot.reserved \in Int
    <3>1. \A d \in ledger.adjusted : Adjustments[d] \in Int
      BY ResourcesAssumption DEF ResourcesInv, ResourcesTyped, Adjustments
    <3> QED
      BY <2>1, <3>1, IntSumRemove DEF ResourcesInv, ResourcesTyped
  <2>3. SumFunctionOnSet(Adjustments, ledger'.adjusted) = A
    BY <1>3
  <2> HIDE DEF A
  <2>4. amount = amount + A - ledger.consumed /\ lot.reserved <= amount
    BY <1>2, <2>1, <2>2
  <2> QED
    BY <1>1, <1>3, <1>6, <2>1, <2>3, <2>4 DEF MaterialSound, MaterialAccounted
<1> QED
  BY <1>4, <1>5, <1>7 DEF ResourcesInv

\* Each adjustment is counted once, for its key is remembered.
LEMMA adjustInventoryKeeps ==
  ASSUME ResourcesInv, NEW delta \in Deltas, adjustInventory(delta) PROVE ResourcesInv'
<1> DEFINE x == lot.remaining + delta
           S == ledger.adjusted \cup {delta}
<1>1. /\ UNCHANGED <<phaseOf, clock, printer, receipts, estimate, planned, booking>>
      /\ delta \notin ledger.adjusted /\ lot.reserved <= x
      /\ lot' = [lot EXCEPT !.remaining = x]
      /\ ledger' = [ledger EXCEPT !.adjusted = S]
      /\ delta \in Int /\ x \in Int /\ S \in SUBSET Deltas
  BY ResourcesAssumption DEF adjustInventory, lotUnchanged, ResourcesInv, ResourcesTyped
<1> HIDE DEF x, S
<1>2. /\ lot' \in [status : {"AVAILABLE", "RETIRED"}, mount : {"MOUNTED", "UNMOUNTED"},
                   remaining : Int, reserved : Int, receipt : Nat]
      /\ lot'.remaining = x /\ lot'.reserved = lot.reserved /\ lot'.receipt = lot.receipt
      /\ lot'.mount = lot.mount
      /\ ledger' \in [adjusted : SUBSET Deltas, consumed : Int, received : Nat]
      /\ ledger'.received = ledger.received /\ ledger'.consumed = ledger.consumed
      /\ ledger'.adjusted = S
  BY <1>1 DEF ResourcesInv, ResourcesTyped
<1>3. ResourcesTyped'
  BY <1>1, <1>2 DEF ResourcesInv, ResourcesTyped
<1>4. JobsSound' /\ NoDoubleBooking'
  BY <1>1, ResourceFrames
<1>5. LiveJobs' = LiveJobs
  BY <1>1 DEF LiveJobs
<1>6. MaterialSound'
  <2> DEFINE A == SumFunctionOnSet(Adjustments, ledger.adjusted)
             B == SumFunctionOnSet(Adjustments, S)
  <2>1. /\ lot.reserved = SumFunctionOnSet(Grams, LiveJobs)
        /\ lot.remaining = ledger.received + A - ledger.consumed
        /\ (\E k \in EstimateJobs : booking[k].set = "PRINTING") => lot.mount = "MOUNTED"
        /\ lot.receipt = 0 => ledger.received = 0
        /\ IsFiniteSet(ledger.adjusted)
    BY DEF ResourcesInv, MaterialSound, MaterialAccounted
  <2>2. IsFiniteSet(S) /\ \A d \in S : Adjustments[d] \in Int /\ Adjustments[d] = d
    BY <1>1, <2>1, FS_AddElement, ResourcesAssumption DEF Adjustments, S
  <2>3. delta \in S /\ S \ {delta} = ledger.adjusted
    BY <1>1 DEF S
  <2>4. B = Adjustments[delta] + SumFunctionOnSet(Adjustments, S \ {delta}) /\ B \in Int
    BY <2>2, <2>3, IntSumRemove
  <2>5. \A d \in ledger.adjusted : Adjustments[d] \in Int
    BY <2>2, <2>3
  <2>6. A \in Int /\ ledger.consumed \in Int /\ ledger.received \in Int /\ lot.remaining \in Int
    BY <2>1, <2>5, IntSumRemove DEF ResourcesInv, ResourcesTyped
  <2>7. B = delta + A
    BY <2>2, <2>3, <2>4
  <2>8. SumFunctionOnSet(Adjustments, ledger'.adjusted) = B
    BY <1>2
  <2> HIDE DEF A, B
  <2>9. x = ledger.received + B - ledger.consumed
    BY <1>1, <2>1, <2>6, <2>7 DEF x
  <2> QED
    BY <1>1, <1>2, <1>5, <2>1, <2>2, <2>8, <2>9 DEF MaterialSound, MaterialAccounted
<1> QED
  BY <1>3, <1>4, <1>6 DEF ResourcesInv

(***************************************************************************)
(* The invariant is kept by every step.                                    *)
(***************************************************************************)
LEMMA JobStepsKeep ==
  ASSUME ResourcesInv, NEW j \in EstimateJobs,
         \/ stageDispatch(j)
         \/ \E n \in DOMAIN receipts[j] :
              \/ dispatchDeadLettered(j, n) \/ ingestSucceeded(j, n)
              \/ \E class \in {"RETRYABLE", "FAILED"} : ingestFailed(j, n, class)
         \/ reservePhase(j) \/ holdForCapture(j) \/ startPrint(j)
         \/ releaseBeforePrint(j) \/ expireReserved(j)
         \/ \E used \in 0..Grams[j] : settlePrinting(j, used)
  PROVE  ResourcesInv'
<1>1. CASE stageDispatch(j)
  BY <1>1, stageDispatchKeeps
<1>2. ASSUME NEW n \in DOMAIN receipts[j], dispatchDeadLettered(j, n)
      PROVE  ResourcesInv'
  <2>1. n \in 1..Len(receipts[j])
    BY JobFacts DEF JobSound, ResourcesInv, ResourcesTyped
  <2> QED
    BY <1>2, <2>1, EndsWithoutCandidate DEF dispatchDeadLettered
<1>3. ASSUME NEW n \in DOMAIN receipts[j], NEW class \in {"RETRYABLE", "FAILED"},
             ingestFailed(j, n, class)
      PROVE  ResourcesInv'
  <2>1. n \in 1..Len(receipts[j])
    BY JobFacts DEF JobSound, ResourcesInv, ResourcesTyped
  <2> QED
    BY <1>3, <2>1, EndsWithoutCandidate DEF ingestFailed, terminalOpen
<1>4. ASSUME NEW n \in DOMAIN receipts[j], ingestSucceeded(j, n)
      PROVE  ResourcesInv'
  <2>1. n \in 1..Len(receipts[j])
    BY JobFacts DEF JobSound, ResourcesInv, ResourcesTyped
  <2> QED
    BY <1>4, <2>1, ingestSucceededKeeps
<1>5. CASE reservePhase(j)
  BY <1>5, reservePhaseKeeps
<1>6. CASE holdForCapture(j)
  BY <1>6, StaysLive DEF holdForCapture
<1>7. CASE startPrint(j)
  BY <1>7, StaysLive DEF startPrint
<1>8. CASE releaseBeforePrint(j)
  BY <1>8, giveBackKeeps DEF releaseBeforePrint, LiveJobs, Live
<1>9. CASE expireReserved(j)
  BY <1>9, giveBackKeeps DEF expireReserved, LiveJobs, Live
<1>10. ASSUME NEW used \in 0..Grams[j], settlePrinting(j, used)
       PROVE  ResourcesInv'
  <2>1. used \in Nat /\ used <= Grams[j]
    BY ResourcesAssumption
  <2>2. j \in LiveJobs
    BY <1>10 DEF settlePrinting, LiveJobs, Live
  <2> QED
    BY <1>10, <2>1, <2>2, ReservationEnds DEF settlePrinting
<1> QED
  BY <1>1, <1>2, <1>3, <1>4, <1>5, <1>6, <1>7, <1>8, <1>9, <1>10

LEMMA CatalogStepsKeep ==
  ASSUME ResourcesInv,
         \/ \E status \in {"ACTIVE", "MAINTENANCE"} : updateMachineStatus(status)
         \/ transitionCalibration("DRAFT", "ACTIVE") \/ transitionCalibration("ACTIVE", "RETIRED")
         \/ \E windows \in Calendars, v \in 0..MaxVersion : replaceMachineAvailability(windows, v)
         \/ \E amount \in Deliveries : receiveInventory(amount)
         \/ \E r \in 1..2 : correctInventoryReceipt(r)
         \/ \E mount \in {"MOUNTED", "UNMOUNTED"} : setInventoryMount(mount)
         \/ \E status \in {"AVAILABLE", "RETIRED"} : updateInventoryStatus(status)
         \/ \E delta \in Deltas : adjustInventory(delta)
  PROVE  ResourcesInv'
<1>1. CASE \E status \in {"ACTIVE", "MAINTENANCE"} : updateMachineStatus(status)
  BY <1>1, MachineChangesKeep DEF updateMachineStatus
<1>2. CASE transitionCalibration("DRAFT", "ACTIVE") \/ transitionCalibration("ACTIVE", "RETIRED")
  BY <1>2, MachineChangesKeep DEF transitionCalibration
<1>3. CASE \E windows \in Calendars, v \in 0..MaxVersion : replaceMachineAvailability(windows, v)
  BY <1>3, MachineChangesKeep DEF replaceMachineAvailability
<1>4. CASE \E amount \in Deliveries : receiveInventory(amount)
  BY <1>4, receiveInventoryKeeps
<1>5. CASE \E r \in 1..2 : correctInventoryReceipt(r)
  BY <1>5, LotChangesKeep DEF correctInventoryReceipt
<1>6. CASE \E mount \in {"MOUNTED", "UNMOUNTED"} : setInventoryMount(mount)
  BY <1>6, LotChangesKeep DEF setInventoryMount
<1>7. CASE \E status \in {"AVAILABLE", "RETIRED"} : updateInventoryStatus(status)
  BY <1>7, LotChangesKeep DEF updateInventoryStatus
<1>8. CASE \E delta \in Deltas : adjustInventory(delta)
  BY <1>8, adjustInventoryKeeps
<1> QED
  BY <1>1, <1>2, <1>3, <1>4, <1>5, <1>6, <1>7, <1>8

LEMMA clockAdvancesKeeps == ASSUME ResourcesInv, clockAdvances PROVE ResourcesInv'
<1>1. UNCHANGED <<phaseOf, printer, lot, receipts, estimate, planned, booking, ledger>>
  BY DEF clockAdvances
<1>2. clock' = clock + 1 /\ clock \in Nat
  BY DEF clockAdvances, ResourcesInv, ResourcesTyped
<1>3. ResourcesTyped'
  BY <1>1, <1>2 DEF ResourcesInv, ResourcesTyped
<1>4. JobsSound' /\ NoDoubleBooking' /\ MaterialSound'
  BY <1>1, ResourceFrames
<1> QED
  BY <1>3, <1>4 DEF ResourcesInv

\* However estimates, plans, reservations, captures, prints and releases of any
\* number of jobs interleave with the operator's changes of the machine, its
\* availability and its lot: machine time is booked once and inside the published
\* availability, the lot's balances are those of its live reservations and of its
\* ledger, every estimate has one result, and an unpaid reservation expires before
\* its machine time begins.
THEOREM ReservationsAreSound == ResourcesSpec => []ReservationsSound
<1>1. ResourcesInit => ResourcesInv
  BY ResourcesStart
<1>2. ResourcesInv /\ [ResourcesNext]_resourceVars => ResourcesInv'
  <2> SUFFICES ASSUME ResourcesInv, [ResourcesNext]_resourceVars PROVE ResourcesInv'
    OBVIOUS
  <2>1. ASSUME NEW p \in Phases, createCompletePlan(p) PROVE ResourcesInv'
    BY <2>1, createCompletePlanKeeps
  <2>2. CASE clockAdvances
    BY <2>2, clockAdvancesKeeps
  <2>3. CASE UNCHANGED resourceVars
    <3>1. UNCHANGED <<phaseOf, clock, printer, lot, receipts, estimate, planned, booking, ledger>>
      BY <2>3 DEF resourceVars
    <3>2. ResourcesTyped'
      BY <3>1 DEF ResourcesInv, ResourcesTyped
    <3> QED
      BY <3>1, <3>2, ResourceFrames DEF ResourcesInv
  <2> QED
    BY <2>1, <2>2, <2>3, JobStepsKeep, CatalogStepsKeep DEF ResourcesNext
<1>3. ResourcesInv => ReservationsSound
  BY InvariantGivesReservations
<1> QED
  BY <1>1, <1>2, <1>3, PTL DEF ResourcesSpec

-----------------------------------------------------------------------------
(* Recovery.  A failed job is prepared anew by operators that race; the last  *)
(* preparation of a scope counts, and a recovery is accepted once.  The       *)
(* reader looks at every candidate alone and the command takes them in turn:  *)
(* machine time cannot make a difference, since estimates that live at the    *)
(* same time have windows of their own, and material makes exactly the one    *)
(* between each need and their sum.                                           *)

\* The rows of the preparations.
DispatchRows == [outcome : {"PENDING", "SUCCEEDED", "FAILED"}, at : Nat, stock : Nat,
                 lot : Nat, window : Nat]
PreparationRows == [scope : Nat, at : Nat, dispatch : [Sources -> DispatchRows]]

\* Types.
RecoveryTyped ==
  /\ recoveryNow \in Nat /\ evidence \in Nat /\ stock \in Nat
  /\ freeMaterial \in [RecoveryLots -> Nat]
  /\ preparations \in Seq(PreparationRows)

\* Later preparations are made later and for evidence that is not older.
PreparationsOrdered ==
  \A g \in 1..Latest :
    /\ preparations[g].at <= recoveryNow /\ preparations[g].scope <= evidence
    /\ \A h \in 1..Latest : g < h => preparations[g].scope <= preparations[h].scope

\* The target is open again only with newer evidence than any recovery had, and no later
\* preparation is for evidence that was recovered.
RecoveredOnce ==
  \A g \in recovered :
    /\ g \in 1..Latest
    /\ targetOpen => preparations[g].scope < evidence
    /\ \A h \in 1..Latest : g < h => preparations[g].scope # preparations[h].scope

\* A scope is prepared again only after the earlier preparation expired.
OneAtATime ==
  \A g, h \in 1..Latest :
    (g < h /\ preparations[g].scope = preparations[h].scope /\ IsPending(preparations[g]))
      => preparations[h].at >= preparations[g].at + PreparationTTL

\* An estimate names a lot and was made by now; and of two with the same window one had
\* expired when the other was made.
WindowsApart ==
  \A g \in 1..Latest, s \in Sources : Succeeded(g, s) =>
    /\ Estimate(g, s).lot \in RecoveryLots /\ Estimate(g, s).at <= recoveryNow
    /\ \A h \in 1..Latest, t \in Sources :
         Succeeded(h, t) /\ Estimate(h, t).window = Estimate(g, s).window
           => \/ g = h /\ s = t
              \/ ExpiresAt(g, s) <= Estimate(h, t).at
              \/ ExpiresAt(h, t) <= Estimate(g, s).at

\* The inductive invariant.
RecoveryInv ==
  RecoveryTyped /\ PreparationsOrdered /\ RecoveredOnce /\ OneAtATime /\ WindowsApart

\* The preparations are a sequence of rows.
LEMMA PreparationFacts ==
  ASSUME RecoveryInv
  PROVE  /\ Latest \in Nat /\ DOMAIN preparations = 1..Latest
         /\ \A g \in 1..Latest : /\ preparations[g] \in PreparationRows
                                 /\ preparations[g].at \in Nat /\ preparations[g].scope \in Nat
                                 /\ preparations[g].dispatch \in [Sources -> DispatchRows]
<1>1. Latest \in Nat /\ DOMAIN preparations = 1..Latest
  BY DEF RecoveryInv, RecoveryTyped, Latest
<1>2. \A g \in 1..Latest : preparations[g] \in PreparationRows
  BY <1>1 DEF RecoveryInv, RecoveryTyped, Latest
<1> QED
  BY <1>1, <1>2 DEF PreparationRows

\* Estimates that may be chosen together have windows of their own.
LEMMA WindowsDiffer ==
  ASSUME RecoveryInv, NEW g \in 1..Latest, NEW s \in Sources, NEW t \in Sources, s # t,
         Succeeded(g, s), Succeeded(g, t),
         ExpiresAt(g, s) > recoveryNow + SelectionMargin,
         ExpiresAt(g, t) > recoveryNow + SelectionMargin
  PROVE  Estimate(g, s).window # Estimate(g, t).window
<1>1. /\ Estimate(g, s) \in DispatchRows /\ Estimate(g, t) \in DispatchRows
      /\ recoveryNow \in Nat /\ SelectionMargin \in Nat /\ EstimateTTL \in Nat
  BY PreparationFacts, RecoveryAssumption DEF Estimate, RecoveryInv, RecoveryTyped
<1>2. Estimate(g, s).at <= recoveryNow /\ Estimate(g, t).at <= recoveryNow
  BY DEF RecoveryInv, WindowsApart
<1>3. ASSUME Estimate(g, s).window = Estimate(g, t).window
      PROVE  ExpiresAt(g, s) <= Estimate(g, t).at \/ ExpiresAt(g, t) <= Estimate(g, s).at
  BY <1>3 DEF RecoveryInv, WindowsApart
<1> QED
  BY <1>1, <1>2, <1>3 DEF DispatchRows, ExpiresAt

\* What the sources of a lot take together, and what the ones before a source have taken.
LEMMA DrawnFacts ==
  ASSUME RecoveryInv, NEW g \in 1..Latest, NEW l \in RecoveryLots
  PROVE  LET choice == [s \in Sources |-> g]
             ofLot == {t \in Sources : Estimate(g, t).lot = l}
         IN  /\ drawn(choice, l, Sources) <= freeMaterial[l]
                  <=> \A s \in ofLot :
                        SourceNeeds[s] <= freeMaterial[l] - drawn(choice, l, {t \in Sources : t < s})
             /\ \A s \in Sources : drawn(choice, l, {t \in Sources : t < s}) \in Nat
<1> DEFINE choice == [s \in Sources |-> g]
           ofLot == {t \in Sources : Estimate(g, t).lot = l}
           before(s) == {t \in ofLot : t < s}
<1>1. IsFiniteSet(Sources) /\ Sources \in SUBSET Nat /\ \A s \in Sources : SourceNeeds[s] \in Nat
  BY RecoveryAssumption, FS_Singleton DEF Sources
<1>2. \A t \in Sources : choice[t] = g
  OBVIOUS
<1>3. drawn(choice, l, Sources) = SumFunctionOnSet(SourceNeeds, ofLot)
  <2>1. {t \in Sources : Estimate(choice[t], t).lot = l} = ofLot
    BY <1>2
  <2> QED
    BY <2>1, Zenon DEF drawn
<1>4. ASSUME NEW s \in Sources
      PROVE  drawn(choice, l, {t \in Sources : t < s}) = SumFunctionOnSet(SourceNeeds, before(s))
  <2>1. {t \in {u \in Sources : u < s} : Estimate(choice[t], t).lot = l} = before(s)
    BY <1>2
  <2> QED
    BY <2>1, Zenon DEF drawn
<1>5. /\ IsFiniteSet(ofLot) /\ ofLot \in SUBSET Nat /\ \A s \in ofLot : SourceNeeds[s] \in Nat
      /\ freeMaterial[l] \in Nat /\ ofLot \subseteq Sources
  BY <1>1, FS_Subset DEF RecoveryInv, RecoveryTyped
<1>6. ASSUME NEW s \in Sources PROVE SumFunctionOnSet(SourceNeeds, before(s)) \in Nat
  <2>1. IsFiniteSet(before(s)) /\ \A t \in before(s) : SourceNeeds[t] \in Nat
    BY <1>5, FS_Subset
  <2> QED
    BY <2>1, SumRemove
<1> HIDE DEF choice, ofLot
<1>7. (\A s \in ofLot : SourceNeeds[s] <= freeMaterial[l] - SumFunctionOnSet(SourceNeeds, before(s)))
        <=> SumFunctionOnSet(SourceNeeds, ofLot) <= freeMaterial[l]
  BY <1>5, TakenInTurn
<1> HIDE DEF before
<1>8. \A s \in ofLot :
        drawn(choice, l, {t \in Sources : t < s}) = SumFunctionOnSet(SourceNeeds, before(s))
  BY <1>4, <1>5
<1>9. drawn(choice, l, Sources) <= freeMaterial[l]
        <=> \A s \in ofLot :
              SourceNeeds[s] <= freeMaterial[l] - drawn(choice, l, {t \in Sources : t < s})
  BY <1>3, <1>7, <1>8
<1>10. \A s \in Sources : drawn(choice, l, {t \in Sources : t < s}) \in Nat
  BY <1>4, <1>6
<1> QED
  BY <1>9, <1>10 DEF choice, ofLot

\* What preparationAvailability calls available is what the command takes, where the lots
\* have it for all.
LEMMA AvailableMeansAccepted == ASSUME RecoveryInv PROVE AvailableIsAccepted
<1>1. PICK s0 : s0 \in Sources
  BY RecoveryAssumption DEF Sources
<1>2. ASSUME NEW g \in 1..Latest
      PROVE  targetOpen /\ provenance([s \in Sources |-> g]) /\ acceptableChoice([s \in Sources |-> g])
               <=> /\ availability(g) = "CANDIDATES_AVAILABLE"
                   /\ \A l \in RecoveryLots : drawn([s \in Sources |-> g], l, Sources) <= freeMaterial[l]
  <2> DEFINE choice == [s \in Sources |-> g]
             earlier(s) == {t \in Sources : t < s}
             E(s) == Estimate(g, s)
             taken(s) == drawn(choice, E(s).lot, earlier(s))
  <2>1. availability(g) = "CANDIDATES_AVAILABLE"
          <=> g = Latest /\ scopeIs(preparations[g].scope) /\ coverageAvailable(g)
    BY DEF availability
  <2>2. DOMAIN choice = Sources /\ \A s \in Sources : choice[s] = g
    OBVIOUS
  <2>3. acceptableChoice(choice)
          <=> \A s \in Sources :
                /\ ExpiresAt(g, s) > recoveryNow + SelectionMargin
                /\ E(s).window > recoveryNow /\ E(s).stock = stock
                /\ SourceNeeds[s] <= freeMaterial[E(s).lot] - taken(s)
                /\ E(s).window \notin bookedWindows \cup {E(t).window : t \in earlier(s)}
    <3>1. \A s \in Sources : {Estimate(choice[t], t).window : t \in earlier(s)}
                               = {E(t).window : t \in earlier(s)}
      BY <2>2
    <3> HIDE DEF choice
    <3> QED
      BY <2>2, <3>1 DEF acceptableChoice
  <2>4. preparations # <<>>
    BY PreparationFacts DEF Latest
  <2>5. provenance(choice)
          <=> /\ scopeIs(preparations[Latest].scope) /\ g = Latest
              /\ \A s \in Sources : /\ Succeeded(g, s)
                                    /\ Estimate(g, s).at >= preparations[g].at
    BY <1>1, <2>2, <2>4 DEF provenance
  <2>6. g = Latest /\ scopeIs(preparations[g].scope)
          => (coverageAvailable(g)
                <=> \A s \in Sources : /\ Succeeded(g, s)
                                       /\ Estimate(g, s).at >= preparations[g].at
                                       /\ ExpiresAt(g, s) > recoveryNow + SelectionMargin
                                       /\ E(s).window > recoveryNow /\ E(s).stock = stock
                                       /\ SourceNeeds[s] <= freeMaterial[E(s).lot]
                                       /\ E(s).window \notin bookedWindows)
    BY DEF coverageAvailable, choiceSelectable, preparationBlocked, eligible
  <2>7. scopeIs(preparations[Latest].scope) => targetOpen
    BY DEF scopeIs
  <2>8. \A s \in Sources : SourceNeeds[s] \in Nat
    BY RecoveryAssumption DEF Sources
  <2>9. ASSUME \A s \in Sources : Succeeded(g, s) /\ ExpiresAt(g, s) > recoveryNow + SelectionMargin
        PROVE  (/\ \A s \in Sources : SourceNeeds[s] <= freeMaterial[E(s).lot] - taken(s)
                /\ \A s \in Sources : E(s).window \notin bookedWindows \cup {E(t).window : t \in earlier(s)})
               <=> /\ \A s \in Sources : SourceNeeds[s] <= freeMaterial[E(s).lot]
                   /\ \A s \in Sources : E(s).window \notin bookedWindows
                   /\ \A l \in RecoveryLots : drawn(choice, l, Sources) <= freeMaterial[l]
    <3>1. ASSUME NEW s \in Sources
          PROVE  /\ E(s).lot \in RecoveryLots /\ freeMaterial[E(s).lot] \in Nat
                 /\ taken(s) \in Nat
      <4>1. E(s).lot \in RecoveryLots
        BY <2>9 DEF RecoveryInv, WindowsApart
      <4>2. freeMaterial[E(s).lot] \in Nat
        BY <4>1 DEF RecoveryInv, RecoveryTyped
      <4>3. taken(s) \in Nat
        BY <4>1, DrawnFacts
      <4> QED
        BY <4>1, <4>2, <4>3
    <3>2. \A l \in RecoveryLots :
            drawn(choice, l, Sources) <= freeMaterial[l]
              <=> \A s \in Sources : E(s).lot = l => SourceNeeds[s] <= freeMaterial[l] - drawn(choice, l, earlier(s))
      BY DrawnFacts
    <3>3. ASSUME NEW s \in Sources, NEW t \in earlier(s) PROVE E(s).window # E(t).window
      <4>1. t \in Sources /\ t # s
        BY RecoveryAssumption DEF Sources
      <4> QED
        BY <2>9, <4>1, WindowsDiffer
    <3> HIDE DEF choice, earlier, E
    <3>4. (\A l \in RecoveryLots : drawn(choice, l, Sources) <= freeMaterial[l])
            <=> \A s \in Sources : SourceNeeds[s] <= freeMaterial[E(s).lot] - taken(s)
      BY <3>1, <3>2
    <3>5. \A s \in Sources : SourceNeeds[s] <= freeMaterial[E(s).lot] - taken(s)
                               => SourceNeeds[s] <= freeMaterial[E(s).lot]
      <4> HIDE DEF taken
      <4> QED
        BY <2>8, <3>1
    <3>6. \A s \in Sources : E(s).window \notin {E(t).window : t \in earlier(s)}
      BY <3>3
    <3> HIDE DEF taken
    <3> QED
      BY <3>4, <3>5, <3>6
  <2> HIDE DEF choice, earlier, E, taken
  <2>10. targetOpen /\ provenance(choice) /\ acceptableChoice(choice)
           <=> /\ availability(g) = "CANDIDATES_AVAILABLE"
               /\ \A l \in RecoveryLots : drawn(choice, l, Sources) <= freeMaterial[l]
    BY <2>1, <2>3, <2>5, <2>6, <2>7, <2>9
  <2> QED
    BY <2>10 DEF choice
<1> QED
  BY <1>2 DEF AvailableIsAccepted

\* The invariant implies that recoveries are sound.
LEMMA InvariantGivesRecovery == ASSUME RecoveryInv PROVE RecoverySound
<1>1. PreparationExclusive
  BY DEF RecoveryInv, OneAtATime, RecoveredOnce, PreparationExclusive
<1> QED
  BY <1>1, AvailableMeansAccepted DEF RecoverySound

\* It holds before anything failed.
LEMMA RecoveryStarts == ASSUME RecoveryInit PROVE RecoveryInv
<1>1. preparations = <<>> /\ Latest = 0
  BY EmptySeq DEF RecoveryInit, Latest
<1> QED
  BY <1>1, RecoveryAssumption DEF RecoveryInit, RecoveryInv, RecoveryTyped, PreparationsOrdered, RecoveredOnce,
       OneAtATime, WindowsApart

\* Time, evidence, resources and the end of the target leave the preparations alone.
LEMMA WorldMoves ==
  ASSUME RecoveryInv, recoveryNow' \in Nat, recoveryNow' >= recoveryNow,
         evidence' \in Nat, evidence' >= evidence, stock' \in Nat,
         freeMaterial' \in [RecoveryLots -> Nat],
         targetOpen' => targetOpen \/ evidence' > evidence,
         \/ recovered' = recovered
         \/ recovered' = recovered \cup {Latest} /\ Latest \in 1..Latest /\ ~targetOpen',
         recoveryKind' = recoveryKind, preparations' = preparations
  PROVE  RecoveryInv'
<1>1. Latest' = Latest /\ PreparationRows' = PreparationRows
  BY DEF Latest, PreparationRows, Sources
<1>2. RecoveryTyped'
  BY <1>1 DEF RecoveryInv, RecoveryTyped
<1>3. recoveryNow \in Nat /\ evidence \in Nat
  BY DEF RecoveryInv, RecoveryTyped
<1>4. PreparationsOrdered'
  BY <1>1, <1>3, PreparationFacts DEF RecoveryInv, PreparationsOrdered
<1>5. RecoveredOnce'
  <2>1. ASSUME NEW g \in recovered
        PROVE  /\ g \in 1..Latest /\ preparations[g].scope \in Nat /\ preparations[g].scope <= evidence
               /\ targetOpen => preparations[g].scope < evidence
               /\ \A h \in 1..Latest : g < h => preparations[g].scope # preparations[h].scope
    BY PreparationFacts DEF RecoveryInv, RecoveredOnce, PreparationsOrdered
  <2>2. ASSUME NEW g \in recovered, targetOpen' PROVE preparations[g].scope < evidence'
    BY <1>3, <2>1, <2>2
  <2>3. ASSUME Latest \in 1..Latest, NEW h \in 1..Latest PROVE ~(Latest < h)
    BY PreparationFacts
  <2> HIDE DEF Latest, targetOpen
  <2>4. CASE recovered' = recovered
    BY <1>1, <2>1, <2>2, <2>4 DEF RecoveredOnce
  <2>5. CASE recovered' = recovered \cup {Latest} /\ Latest \in 1..Latest /\ ~targetOpen'
    BY <1>1, <2>1, <2>3, <2>5 DEF RecoveredOnce
  <2> QED
    BY <2>4, <2>5
<1>6. OneAtATime'
  BY <1>1 DEF RecoveryInv, OneAtATime, IsPending
<1>7. WindowsApart'
  <2>1. /\ Sources' = Sources
        /\ \A g \in 1..Latest, s \in Sources : Estimate(g, s)' = Estimate(g, s)
    BY DEF Sources, Estimate
  <2>2. \A g \in 1..Latest, s \in Sources : Estimate(g, s).at \in Nat
    BY PreparationFacts DEF Estimate, DispatchRows
  <2>3. ASSUME NEW g \in 1..Latest, NEW s \in Sources, Succeeded(g, s)
        PROVE  Estimate(g, s).at <= recoveryNow'
    <3>1. Estimate(g, s).at <= recoveryNow
      BY <2>3 DEF RecoveryInv, WindowsApart
    <3> QED
      BY <1>3, <2>2, <3>1
  <2>4. \A g \in 1..Latest, s \in Sources : /\ Succeeded(g, s)' <=> Succeeded(g, s)
                                             /\ ExpiresAt(g, s)' = ExpiresAt(g, s)
    BY <2>1 DEF Succeeded, ExpiresAt
  <2> HIDE DEF Latest, Estimate, Succeeded, ExpiresAt, Sources
  <2> QED
    BY <1>1, <2>1, <2>3, <2>4 DEF RecoveryInv, WindowsApart
<1> QED
  BY <1>2, <1>4, <1>5, <1>6, <1>7 DEF RecoveryInv

\* A result makes a preparation no more pending than it was.
LEMMA EstimateComes ==
  ASSUME RecoveryInv, NEW g \in 1..Latest, NEW s \in Sources,
         NEW d \in DispatchRows, d.outcome # "PENDING", estimateEnds(g, s, d),
         d.outcome = "SUCCEEDED"
           => d.lot \in RecoveryLots /\ d.at = recoveryNow /\ windowUnclaimed(d.window)
  PROVE  RecoveryInv'
<1>1. d \in DispatchRows /\ d.outcome # "PENDING"
  OBVIOUS
<1>2. preparations' = [preparations EXCEPT ![g].dispatch[s] = d]
  BY DEF estimateEnds
<1> DEFINE row == [preparations[g] EXCEPT !.dispatch = [@ EXCEPT ![s] = d]]
<1>3. /\ row \in PreparationRows /\ row.at = preparations[g].at /\ row.scope = preparations[g].scope
      /\ row.dispatch = [preparations[g].dispatch EXCEPT ![s] = d]
  BY <1>1, PreparationFacts DEF PreparationRows
<1>4. preparations' = [preparations EXCEPT ![g] = row]
  BY <1>2, PreparationFacts
<1>5. IsPending(row) => IsPending(preparations[g])
  BY <1>1, <1>3, PreparationFacts DEF IsPending
<1> HIDE DEF row
<1>6. /\ preparations' \in Seq(PreparationRows) /\ Len(preparations') = Len(preparations)
      /\ preparations'[g] = row /\ \A h \in 1..Latest \ {g} : preparations'[h] = preparations[h]
  BY <1>3, <1>4, PreparationFacts, ExceptSeq DEF RecoveryInv, RecoveryTyped, Latest
<1>7. Latest' = Latest
  BY <1>6 DEF Latest
<1>8. \A h \in 1..Latest :
        /\ preparations'[h].at = preparations[h].at /\ preparations'[h].scope = preparations[h].scope
        /\ IsPending(preparations'[h]) => IsPending(preparations[h])
  BY <1>3, <1>5, <1>6
<1>9. UNCHANGED <<recoveryKind, recoveryNow, evidence, targetOpen, stock, freeMaterial, recovered>>
  BY DEF estimateEnds, resourcesUnchanged, targetOpen
<1>10. PreparationRows' = PreparationRows
  BY <1>9 DEF PreparationRows, Sources
<1>11. RecoveryTyped'
  BY <1>6, <1>9, <1>10 DEF RecoveryInv, RecoveryTyped
<1>12. PreparationsOrdered'
  BY <1>7, <1>8, <1>9 DEF RecoveryInv, PreparationsOrdered
<1>13. RecoveredOnce'
  BY <1>7, <1>8, <1>9 DEF RecoveryInv, RecoveredOnce
<1>14. OneAtATime'
  BY <1>7, <1>8 DEF RecoveryInv, OneAtATime
<1>15. WindowsApart'
  <2> DEFINE Same(h, t) == h = g /\ t = s
  <2>1. Sources' = Sources
    BY <1>9 DEF Sources
  <2>2. /\ Estimate(g, s)' = d
        /\ \A h \in 1..Latest, t \in Sources : ~Same(h, t) => Estimate(h, t)' = Estimate(h, t)
    BY <1>3, <1>6, PreparationFacts DEF Estimate
  <2>3. /\ Succeeded(g, s)' <=> d.outcome = "SUCCEEDED"
        /\ ExpiresAt(g, s)' = d.at + EstimateTTL
        /\ \A h \in 1..Latest, t \in Sources :
             ~Same(h, t) => /\ Succeeded(h, t)' <=> Succeeded(h, t)
                            /\ ExpiresAt(h, t)' = ExpiresAt(h, t)
    BY <2>2 DEF Succeeded, ExpiresAt
  <2>4. ASSUME d.outcome = "SUCCEEDED", NEW h \in 1..Latest, NEW t \in Sources, ~Same(h, t),
               Succeeded(h, t), Estimate(h, t).window = d.window
        PROVE  ExpiresAt(h, t) <= d.at
    <3>1. d.at = recoveryNow /\ ~(ExpiresAt(h, t) > recoveryNow)
      BY <2>4 DEF windowUnclaimed
    <3>2. Estimate(h, t).at \in Nat /\ recoveryNow \in Nat /\ EstimateTTL \in Nat
      BY PreparationFacts, RecoveryAssumption DEF Estimate, DispatchRows, RecoveryInv, RecoveryTyped
    <3> QED
      BY <3>1, <3>2 DEF ExpiresAt
  <2>5. recoveryNow \in Nat
    BY DEF RecoveryInv, RecoveryTyped
  <2> DEFINE Fine(h, t) ==
        Succeeded(h, t)' =>
          /\ Estimate(h, t)'.lot \in RecoveryLots /\ Estimate(h, t)'.at <= recoveryNow'
          /\ \A k \in 1..Latest, u \in Sources :
               Succeeded(k, u)' /\ Estimate(k, u)'.window = Estimate(h, t)'.window
                 => \/ h = k /\ t = u
                    \/ ExpiresAt(h, t)' <= Estimate(k, u)'.at
                    \/ ExpiresAt(k, u)' <= Estimate(h, t)'.at
  <2>6. Fine(g, s)
    <3> HIDE DEF Latest, Estimate, Succeeded, ExpiresAt, Sources
    <3> QED
      BY <1>9, <2>2, <2>3, <2>4, <2>5
  <2>7. ASSUME NEW h \in 1..Latest, NEW t \in Sources, ~Same(h, t) PROVE Fine(h, t)
    <3> HIDE DEF Latest, Estimate, Succeeded, ExpiresAt, Sources
    <3>1. SUFFICES ASSUME Succeeded(h, t) PROVE Fine(h, t)
      BY <2>3, <2>7
    <3>2. Estimate(h, t)' = Estimate(h, t) /\ ExpiresAt(h, t)' = ExpiresAt(h, t)
      BY <2>2, <2>3, <2>7
    <3>3. Estimate(h, t).lot \in RecoveryLots /\ Estimate(h, t).at <= recoveryNow'
      BY <1>9, <3>1 DEF RecoveryInv, WindowsApart
    <3>4. ASSUME NEW k \in 1..Latest, NEW u \in Sources, Succeeded(k, u)',
                 Estimate(k, u)'.window = Estimate(h, t).window
          PROVE  \/ h = k /\ t = u
                 \/ ExpiresAt(h, t) <= Estimate(k, u)'.at
                 \/ ExpiresAt(k, u)' <= Estimate(h, t).at
      <4>1. CASE Same(k, u)
        BY <2>2, <2>3, <2>4, <2>7, <3>1, <3>4, <4>1
      <4>2. CASE ~Same(k, u)
        BY <2>2, <2>3, <3>1, <3>4, <4>2 DEF RecoveryInv, WindowsApart
      <4> QED
        BY <4>1, <4>2
    <3> QED
      BY <3>2, <3>3, <3>4
  <2>8. \A h \in 1..Latest, t \in Sources : Fine(h, t)
    BY <2>6, <2>7
  <2> QED
    BY <1>7, <2>1, <2>8 DEF WindowsApart
<1> QED
  BY <1>11, <1>12, <1>13, <1>14, <1>15 DEF RecoveryInv

\* Both results of the slicer.
LEMMA EstimateEnds ==
  ASSUME RecoveryInv, NEW g \in 1..Latest, NEW s \in Sources,
         \/ estimateFails(g, s)
         \/ \E l \in RecoveryLots, w \in RecoveryWindows : estimateSucceeds(g, s, l, w)
  PROVE  RecoveryInv'
<1>1. CASE estimateFails(g, s)
  <2> DEFINE d == [Pending EXCEPT !.outcome = "FAILED"]
  <2>1. d \in DispatchRows /\ d.outcome = "FAILED"
    BY DEF DispatchRows, Pending
  <2>2. estimateEnds(g, s, d)
    BY <1>1 DEF estimateFails
  <2> HIDE DEF d
  <2> QED
    BY <2>1, <2>2, EstimateComes
<1>2. ASSUME NEW l \in RecoveryLots, NEW w \in RecoveryWindows, estimateSucceeds(g, s, l, w)
      PROVE  RecoveryInv'
  <2> DEFINE d == [outcome |-> "SUCCEEDED", at |-> recoveryNow, stock |-> stock,
                   lot |-> l, window |-> w]
  <2>1. d \in DispatchRows /\ d.outcome = "SUCCEEDED" /\ d.at = recoveryNow /\ d.lot = l /\ d.window = w
    BY RecoveryAssumption DEF DispatchRows, RecoveryInv, RecoveryTyped
  <2>2. estimateEnds(g, s, d) /\ windowUnclaimed(w)
    BY <1>2 DEF estimateSucceeds
  <2> HIDE DEF d
  <2> QED
    BY <2>1, <2>2, EstimateComes
<1> QED
  BY <1>1, <1>2

\* A preparation is committed for the newest evidence, and no running one has it.
LEMMA PreparationCommitted ==
  ASSUME RecoveryInv, NEW o \in Operators, preparationCommits(o)
  PROVE  RecoveryInv'
<1> DEFINE row == [scope |-> callers[o].scope, at |-> recoveryNow,
                   dispatch |-> [s \in Sources |-> Pending]]
<1>1. callers[o].scope = evidence /\ targetOpen
  BY DEF preparationCommits, scopeUnchanged, scopeIs
<1>2. row \in PreparationRows /\ row.scope = evidence /\ row.at = recoveryNow
  BY <1>1 DEF PreparationRows, DispatchRows, Pending, RecoveryInv, RecoveryTyped
<1>3. preparations' = Append(preparations, row)
  BY DEF preparationCommits
<1> HIDE DEF row
<1>4. UNCHANGED <<recoveryKind, recoveryNow, evidence, targetOpen, stock, freeMaterial, recovered>>
  BY DEF preparationCommits, resourcesUnchanged, targetOpen
<1>5. PreparationRows' = PreparationRows
  BY <1>4 DEF PreparationRows, Sources
<1>6. /\ preparations' \in Seq(PreparationRows) /\ Len(preparations') = Latest + 1
      /\ preparations'[Latest + 1] = row /\ \A g \in 1..Latest : preparations'[g] = preparations[g]
  BY <1>2, <1>3 DEF RecoveryInv, RecoveryTyped, Latest
<1>7. Latest' = Latest + 1
  BY <1>6 DEF Latest
<1>8. \A g \in 1..Latest' : g \in 1..Latest \/ g = Latest + 1
  BY <1>7, PreparationFacts
<1>9. RecoveryTyped'
  BY <1>4, <1>5, <1>6 DEF RecoveryInv, RecoveryTyped
<1>10. recoveryNow \in Nat /\ evidence \in Nat
  BY DEF RecoveryInv, RecoveryTyped
<1>11. PreparationsOrdered'
  <2>1. \A g \in 1..Latest : preparations[g].at <= recoveryNow /\ preparations[g].scope <= evidence
    BY DEF RecoveryInv, PreparationsOrdered
  <2>2. \A g \in 1..Latest' : preparations'[g].at <= recoveryNow /\ preparations'[g].scope <= evidence
    BY <1>2, <1>6, <1>8, <1>10, <2>1
  <2>3. ASSUME NEW g \in 1..Latest', NEW h \in 1..Latest', g < h
        PROVE  preparations'[g].scope <= preparations'[h].scope
    <3>1. g \in 1..Latest
      BY <1>7, <2>3, PreparationFacts
    <3>2. CASE h \in 1..Latest
      BY <1>6, <2>3, <3>1, <3>2 DEF RecoveryInv, PreparationsOrdered
    <3>3. CASE h = Latest + 1
      BY <1>2, <1>6, <2>1, <3>1, <3>3
    <3> QED
      BY <1>8, <3>2, <3>3
  <2> QED
    BY <1>4, <2>2, <2>3 DEF PreparationsOrdered
<1>12. RecoveredOnce'
  <2>1. ASSUME NEW g \in recovered
        PROVE  /\ g \in 1..Latest /\ preparations[g].scope < evidence
               /\ \A h \in 1..Latest : g < h => preparations[g].scope # preparations[h].scope
    BY <1>1 DEF RecoveryInv, RecoveredOnce
  <2>2. ASSUME NEW g \in recovered
        PROVE  /\ g \in 1..Latest' /\ preparations'[g].scope < evidence
               /\ \A h \in 1..Latest' : g < h => preparations'[g].scope # preparations'[h].scope
    <3>1. /\ g \in 1..Latest' /\ preparations'[g] = preparations[g]
          /\ preparations[g].scope \in Nat
      BY <1>6, <1>7, <2>1, PreparationFacts
    <3>2. preparations'[Latest + 1].scope = evidence
      BY <1>2, <1>6
    <3>3. ASSUME NEW h \in 1..Latest', g < h PROVE preparations[g].scope # preparations'[h].scope
      <4>1. CASE h \in 1..Latest
        BY <1>6, <2>1, <3>3, <4>1
      <4>2. CASE h = Latest + 1
        BY <1>10, <2>1, <3>1, <3>2, <4>2
      <4> QED
        BY <1>8, <4>1, <4>2
    <3> QED
      BY <2>1, <3>1, <3>3
  <2> QED
    BY <1>4, <2>2 DEF RecoveredOnce
<1>13. OneAtATime'
  <2>1. ASSUME NEW g \in 1..Latest', NEW h \in 1..Latest', g < h,
               preparations'[g].scope = preparations'[h].scope, IsPending(preparations'[g])
        PROVE  preparations'[h].at >= preparations'[g].at + PreparationTTL
    <3>1. g \in 1..Latest /\ preparations'[g] = preparations[g]
      BY <1>6, <1>7, <2>1, PreparationFacts
    <3>2. CASE h \in 1..Latest
      BY <1>6, <2>1, <3>1, <3>2 DEF RecoveryInv, OneAtATime
    <3>3. CASE h = Latest + 1
      <4>1. preparations[g].scope = evidence /\ IsPending(preparations[g])
        BY <1>2, <1>6, <2>1, <3>1, <3>3
      <4>2. PICK k \in 1..Latest : k = Latest
        BY <3>1, PreparationFacts
      <4>3. /\ preparations[g].at \in Nat /\ preparations[k].at \in Nat /\ preparations[k].scope \in Nat
            /\ PreparationTTL \in Nat /\ recoveryNow \in Nat
        BY <1>10, <3>1, PreparationFacts, RecoveryAssumption
      <4>4. preparations[k].at <= recoveryNow /\ preparations[k].scope <= evidence
        BY DEF RecoveryInv, PreparationsOrdered
      <4>5. recoveryNow >= preparations[g].at + PreparationTTL
        <5>1. CASE g = k
          <6>1. preparations # <<>>
            BY <4>2 DEF Latest
          <6>2. ~(recoveryNow < preparations[g].at + PreparationTTL)
            BY <4>1, <4>2, <5>1, <6>1 DEF preparationCommits, preparationInProgress
          <6> QED
            BY <4>3, <6>2
        <5>2. CASE g # k
          <6>1. g < k
            BY <3>1, <4>2, <5>2, PreparationFacts
          <6>2. preparations[g].scope <= preparations[k].scope
            BY <3>1, <6>1 DEF RecoveryInv, PreparationsOrdered
          <6>3. preparations[k].scope = evidence
            BY <1>10, <4>1, <4>3, <4>4, <6>2
          <6>4. preparations[k].at >= preparations[g].at + PreparationTTL
            BY <3>1, <4>1, <6>1, <6>3 DEF RecoveryInv, OneAtATime
          <6> QED
            BY <4>3, <4>4, <6>4
        <5> QED
          BY <5>1, <5>2
      <4> QED
        BY <1>2, <1>6, <3>1, <3>3, <4>5
    <3> QED
      BY <1>8, <3>2, <3>3
  <2> QED
    BY <2>1 DEF OneAtATime
<1>14. WindowsApart'
  <2>1. Sources' = Sources
    BY <1>4 DEF Sources
  <2>2. /\ \A s \in Sources : Estimate(Latest, s)' = Pending
        /\ \A g \in 1..Latest, s \in Sources : Estimate(g, s)' = Estimate(g, s)
    BY <1>6, <1>7 DEF Estimate, row
  <2>3. /\ \A s \in Sources : ~Succeeded(Latest, s)'
        /\ \A g \in 1..Latest, s \in Sources : /\ Succeeded(g, s)' <=> Succeeded(g, s)
                                                 /\ ExpiresAt(g, s)' = ExpiresAt(g, s)
    BY <2>2 DEF Succeeded, ExpiresAt, Pending
  <2>4. \A g \in 1..Latest', s \in Sources : Succeeded(g, s)' => g \in 1..Latest
    BY <1>7, <1>8, <2>3
  <2> HIDE DEF Latest, Estimate, Succeeded, ExpiresAt, Sources
  <2> QED
    BY <1>4, <2>1, <2>2, <2>3, <2>4 DEF RecoveryInv, WindowsApart
<1> QED
  BY <1>9, <1>11, <1>12, <1>13, <1>14 DEF RecoveryInv

\* Every step of a worker, an operator or the world keeps it.
LEMMA RecoveryStep == ASSUME RecoveryInv, [RecoveryNext]_recoveryVars PROVE RecoveryInv'
<1>0. /\ recoveryNow \in Nat /\ evidence \in Nat /\ stock \in Nat
      /\ freeMaterial \in [RecoveryLots -> Nat]
  BY DEF RecoveryInv, RecoveryTyped
<1>1. CASE UNCHANGED recoveryVars
  BY <1>0, <1>1, WorldMoves DEF recoveryVars, targetOpen
<1>2. ASSUME NEW o \in Operators, (\E k \in Keys : prepareScope(o, k)) \/ preparationRefused(o)
      PROVE  RecoveryInv'
  <2>1. UNCHANGED <<recoveryKind, recoveryNow, evidence, targetOpen, stock, freeMaterial,
                    preparations, recovered>>
    BY <1>2 DEF prepareScope, preparationRefused, resourcesUnchanged, targetOpen
  <2> QED
    BY <1>0, <2>1, WorldMoves
<1>3. ASSUME NEW choice \in [Sources -> 1..Latest], recover(choice) PROVE RecoveryInv'
  <2>1. /\ recovered' = recovered \cup {Latest} /\ ~targetOpen'
        /\ freeMaterial' = [l \in RecoveryLots |-> freeMaterial[l] - drawn(choice, l, Sources)]
        /\ UNCHANGED <<recoveryKind, recoveryNow, evidence, stock, preparations>>
        /\ targetOpen /\ provenance(choice) /\ acceptableChoice(choice)
    BY <1>3 DEF recover, targetOpen
  <2>2. PICK s0 : s0 \in Sources
    BY RecoveryAssumption DEF Sources
  <2>3. PICK g \in 1..Latest : g = Latest
    BY <2>2, PreparationFacts
  <2>4. choice = [s \in Sources |-> g]
    BY <2>1, <2>3 DEF provenance
  <2>5. ASSUME NEW l \in RecoveryLots
        PROVE  drawn(choice, l, Sources) <= freeMaterial[l] /\ drawn(choice, l, Sources) \in Nat
    <3>1. drawn(choice, l, Sources) <= freeMaterial[l]
      BY <2>1, <2>4, AvailableMeansAccepted DEF AvailableIsAccepted
    <3>2. /\ IsFiniteSet({t \in Sources : Estimate(choice[t], t).lot = l})
          /\ \A t \in Sources : SourceNeeds[t] \in Nat
      BY RecoveryAssumption, FS_Singleton, FS_Subset DEF Sources
    <3>3. drawn(choice, l, Sources) \in Nat
      BY <3>2, SumRemove DEF drawn
    <3> QED
      BY <3>1, <3>3
  <2>6. \A l \in RecoveryLots : freeMaterial[l] - drawn(choice, l, Sources) \in Nat
    <3> SUFFICES ASSUME NEW l \in RecoveryLots PROVE freeMaterial[l] - drawn(choice, l, Sources) \in Nat
      OBVIOUS
    <3>1. freeMaterial[l] \in Nat
      BY <1>0
    <3> QED
      BY <2>5, <3>1
  <2>7. freeMaterial' \in [RecoveryLots -> Nat]
    BY <2>1, <2>6
  <2> QED
    BY <1>0, <2>1, <2>3, <2>7, WorldMoves
<1>4. CASE parcelFound \/ parcelLostAgain \/ targetCloses \/ catalogChanges \/ timeGoesOn
  <2>1. /\ recoveryNow' \in Nat /\ recoveryNow' >= recoveryNow /\ evidence' \in Nat
        /\ evidence' >= evidence /\ stock' \in Nat /\ (targetOpen' => targetOpen \/ evidence' > evidence)
        /\ UNCHANGED <<recoveryKind, freeMaterial, preparations, recovered>>
    BY <1>0, <1>4 DEF parcelFound, parcelLostAgain, targetCloses, catalogChanges, timeGoesOn,
         resourcesUnchanged, targetOpen
  <2> QED
    BY <1>0, <2>1, WorldMoves
<1>5. ASSUME NEW l \in RecoveryLots, NEW n \in 1..LotSize, NEW w \in RecoveryWindows,
             reservedElsewhere(l, n, w) \/ releasedElsewhere(l, n, w)
      PROVE  RecoveryInv'
  <2>1. UNCHANGED <<recoveryKind, recoveryNow, evidence, targetOpen, stock, preparations, recovered>>
    BY <1>5 DEF reservedElsewhere, releasedElsewhere, targetOpen
  <2>2. n \in Nat /\ freeMaterial[l] \in Nat
    BY <1>0, RecoveryAssumption
  <2>3. CASE reservedElsewhere(l, n, w)
    <3>1. freeMaterial' = [freeMaterial EXCEPT ![l] = @ - n] /\ freeMaterial[l] - n \in Nat
      BY <2>2, <2>3 DEF reservedElsewhere
    <3> QED
      BY <1>0, <2>1, <3>1, WorldMoves
  <2>4. CASE releasedElsewhere(l, n, w)
    <3>1. freeMaterial' = [freeMaterial EXCEPT ![l] = @ + n] /\ freeMaterial[l] + n \in Nat
      BY <2>2, <2>4 DEF releasedElsewhere
    <3> QED
      BY <1>0, <2>1, <3>1, WorldMoves
  <2> QED
    BY <1>5, <2>3, <2>4
<1> QED
  BY <1>1, <1>2, <1>3, <1>4, <1>5, EstimateEnds, PreparationCommitted DEF RecoveryNext

\* While dispatches of a preparation are unanswered no second one of the same evidence is
\* made within its 30 minutes, evidence that was recovered is never prepared again, and what is
\* shown as available the command of orders.service.ts, which reserves source by source,
\* takes in full exactly when every lot has enough for the sum of the sources that name it:
\* machine time never refuses one that was shown, since ingest gives estimates that live
\* together windows of their own; for any operators and keys racing from the unlocked reads
\* of prepare to its committing transaction, any sources, needs, lots and windows.
THEOREM RecoveriesAreSound == RecoverySpec => []RecoverySound
<1>1. RecoveryInit => RecoveryInv
  BY RecoveryStarts
<1>2. RecoveryInv /\ [RecoveryNext]_recoveryVars => RecoveryInv'
  BY RecoveryStep
<1>3. RecoveryInv => RecoverySound
  BY InvariantGivesRecovery
<1> QED
  BY <1>1, <1>2, <1>3, PTL DEF RecoverySpec

-----------------------------------------------------------------------------
(* Assisted requests.  An offer, its expiry and the model it is for belong    *)
(* together until the request becomes an order, or ends.                      *)

\* The rows of requests, offers, orders and files.
OfferRows == [terms : Nat, expiresAt : Nat]
OrderRows == [offer : Nat, terms : Nat, at : Nat]
FileRows == [attached : BOOLEAN, deleteAfter : Nat, hold : {"NONE", "ACTIVE_ORDER"},
             deleted : BOOLEAN]
RequestRows == [status : Statuses, current : Nat, session : {"NONE", "OPEN", "CONVERTED"},
                responded : BOOLEAN]

\* Types.
RequestsTyped ==
  /\ now \in Nat /\ terms \in Nat
  /\ request \in [Requests -> RequestRows]
  /\ offers \in [Requests -> Seq(OfferRows)]
  /\ orders \in [Requests -> SUBSET OrderRows]
  /\ file \in [Requests -> FileRows]

\* The order of a request: made once, from the last offer, in time, on its terms.
OrderOf(o, s) ==
  o.offer = Len(s) /\ o.at < s[o.offer].expiresAt /\ o.terms = s[o.offer].terms

\* What holds of one request.  A file that was deleted was due then, and the file
\* of the current offer is due only after the offer.
RowSound(r) ==
  /\ request[r].current = Len(offers[r])
  /\ request[r].status = "QUOTED"
       => /\ Len(offers[r]) > 0 /\ file[r].attached
          /\ file[r].deleteAfter > offers[r][Len(offers[r])].expiresAt
  /\ request[r].status = "ACCEPTED" <=> orders[r] # {}
  /\ orders[r] # {} => /\ Len(offers[r]) > 0
                       /\ \E o \in OrderRows : orders[r] = {o} /\ OrderOf(o, offers[r])
                       /\ file[r].hold # "NONE" /\ ~file[r].deleted
  /\ file[r].deleted => file[r].attached /\ file[r].deleteAfter <= now

\* The inductive invariant.
RequestsInv == RequestsTyped /\ \A r \in Requests : RowSound(r)

\* The invariant implies that requests are sound.
LEMMA InvariantGivesRequests == ASSUME RequestsInv PROVE RequestSound
<1>1. ASSUME NEW r \in Requests
      PROVE  /\ (request[r].status = "ACCEPTED") = (orders[r] # {})
             /\ Cardinality(orders[r]) <= 1
             /\ \A o \in orders[r] : /\ o.offer = Current(r)
                                     /\ o.at < offers[r][o.offer].expiresAt
                                     /\ o.terms = offers[r][o.offer].terms
  <2>1. RowSound(r)
    BY DEF RequestsInv
  <2>2. CASE orders[r] = {}
    <3>1. Cardinality({}) = 0
      BY FS_EmptySet
    <3> QED
      BY <2>1, <2>2, <3>1 DEF RowSound
  <2>3. CASE orders[r] # {}
    <3>1. PICK o \in OrderRows : orders[r] = {o} /\ OrderOf(o, offers[r])
      BY <2>1, <2>3 DEF RowSound
    <3>2. Cardinality({o}) = 1
      BY FS_Singleton
    <3>3. Cardinality(orders[r]) <= 1
      BY <3>1, <3>2
    <3> QED
      BY <2>1, <2>3, <3>1, <3>3 DEF RowSound, OrderOf, Current
  <2> QED
    BY <2>2, <2>3
<1>2. OneOrderPerRequest
  BY <1>1 DEF OneOrderPerRequest
<1>3. ASSUME NEW r \in Requests,
             (request[r].status = "QUOTED" /\ ~overdue(CurrentOffer(r))) \/ orders[r] # {}
      PROVE  ~file[r].deleted
  <2>1. RowSound(r)
    BY DEF RequestsInv
  <2>2. CASE orders[r] # {}
    BY <2>1, <2>2 DEF RowSound
  <2>3. CASE request[r].status = "QUOTED" /\ ~overdue(CurrentOffer(r))
    <3> DEFINE e == offers[r][Len(offers[r])].expiresAt
               d == file[r].deleteAfter
    <3>1. e \in Nat /\ d \in Nat /\ now \in Nat
      <4>1. offers[r] \in Seq(OfferRows) /\ Len(offers[r]) > 0
        BY <2>1, <2>3 DEF RequestsInv, RequestsTyped, RowSound
      <4>2. offers[r][Len(offers[r])] \in OfferRows
        BY <4>1
      <4> QED
        BY <4>2 DEF RequestsInv, RequestsTyped, OfferRows, FileRows
    <3>2. d > e /\ ~(e <= now) /\ (file[r].deleted => d <= now)
      BY <2>1, <2>3 DEF RowSound, overdue, CurrentOffer, Current
    <3> HIDE DEF e, d
    <3> QED
      BY <3>1, <3>2
  <2> QED
    BY <1>3, <2>2, <2>3
<1>4. OfferedModelKept
  BY <1>3 DEF OfferedModelKept
<1> QED
  BY <1>2, <1>4 DEF RequestSound

\* It holds of a request that does not exist yet.
LEMMA RequestsStart == ASSUME Init PROVE RequestsInv
<1> USE DEF Init
<1>1. RequestsTyped
  BY DEF RequestsTyped, RequestRows, OfferRows, OrderRows, FileRows, NoFile, Statuses
<1>2. ASSUME NEW r \in Requests PROVE RowSound(r)
  <2>1. Len(offers[r]) = 0 /\ orders[r] = {} /\ file[r] = NoFile
    BY EmptySeq
  <2> QED
    BY <2>1 DEF RowSound, NoFile
<1> QED
  BY <1>1, <1>2 DEF RequestsInv

\* The invariant of a step about one request: that request is sound after it and
\* the others are as before.
LEMMA OneRequestMoves ==
  ASSUME RequestsInv, NEW r \in Requests, RequestsTyped', RowSound(r)', now' = now,
         \A q \in Requests \ {r} : /\ request'[q] = request[q] /\ offers'[q] = offers[q]
                                   /\ orders'[q] = orders[q] /\ file'[q] = file[q]
  PROVE  RequestsInv'
<1>1. ASSUME NEW q \in Requests \ {r} PROVE RowSound(q)'
  <2>1. RowSound(q)
    BY DEF RequestsInv
  <2>2. /\ request'[q] = request[q] /\ offers'[q] = offers[q]
        /\ orders'[q] = orders[q] /\ file'[q] = file[q]
    OBVIOUS
  <2> QED
    BY <2>1, <2>2 DEF RowSound, OrderOf
<1> QED
  BY <1>1 DEF RequestsInv

\* A step about one request leaves the rows of the others.
LEMMA RequestFrame ==
  ASSUME RequestsInv, UNCHANGED <<now, terms, request, offers, orders, file>> PROVE RequestsInv'
<1>1. RequestsTyped'
  BY DEF RequestsInv, RequestsTyped
<1>2. ASSUME NEW q \in Requests PROVE RowSound(q)'
  BY DEF RequestsInv, RowSound, OrderOf
<1> QED
  BY <1>1, <1>2 DEF RequestsInv

\* A step that only moves the status of a request, and neither to nor from ACCEPTED
\* nor to QUOTED.
LEMMA StatusMoves ==
  ASSUME RequestsInv, NEW r \in Requests, NEW to \in Statuses \ {"QUOTED", "ACCEPTED"},
         request[r].status # "ACCEPTED",
         NEW s \in {"NONE", "OPEN", "CONVERTED"}, NEW b \in BOOLEAN,
         request' = [request EXCEPT ![r] = [request[r] EXCEPT !.status = to, !.session = s,
                                                              !.responded = b]],
         UNCHANGED <<now, terms, offers, orders, file>>
  PROVE  RequestsInv'
<1>1. request[r] \in RequestRows /\ RowSound(r)
  BY DEF RequestsInv, RequestsTyped
<1> DEFINE row == [request[r] EXCEPT !.status = to, !.session = s, !.responded = b]
<1>2. row \in RequestRows /\ row.current = request[r].current /\ row.status = to
  BY <1>1 DEF RequestRows
<1> HIDE DEF row
<1>3. request' = [request EXCEPT ![r] = row]
  BY DEF row
<1>4. /\ request' \in [Requests -> RequestRows] /\ request'[r] = row
      /\ \A q \in Requests \ {r} : request'[q] = request[q]
  BY <1>2, <1>3 DEF RequestsInv, RequestsTyped
<1>5. RequestsTyped'
  BY <1>4 DEF RequestsInv, RequestsTyped
<1>6. RowSound(r)'
  BY <1>1, <1>2, <1>4 DEF RowSound, OrderOf
<1> QED
  BY <1>4, <1>5, <1>6, OneRequestMoves

\* The same for a step written with EXCEPT on the status alone.
LEMMA TransitionKeeps ==
  ASSUME RequestsInv, NEW r \in Requests, NEW to \in Statuses \ {"QUOTED", "ACCEPTED"},
         request[r].status # "ACCEPTED", applyTransition(r, to),
         UNCHANGED <<now, terms, offers, orders, file>>
  PROVE  RequestsInv'
<1>1. request[r] \in RequestRows /\ request \in [Requests -> RequestRows]
  BY DEF RequestsInv, RequestsTyped
<1>2. PICK s \in {"NONE", "OPEN", "CONVERTED"}, b \in BOOLEAN :
        s = request[r].session /\ b = request[r].responded
  BY <1>1 DEF RequestRows
<1>3. request' = [request EXCEPT ![r] = [request[r] EXCEPT !.status = to, !.session = s,
                                                           !.responded = b]]
  BY <1>1, <1>2 DEF applyTransition, RequestRows
<1> QED
  BY <1>3, StatusMoves

\* createRequest keeps the invariant.
LEMMA createRequestKeeps ==
  ASSUME RequestsInv, NEW r \in Requests, NEW h \in BOOLEAN, createRequest(r, h)
  PROVE  RequestsInv'
<1>1. request[r] \in RequestRows /\ request \in [Requests -> RequestRows]
  BY DEF RequestsInv, RequestsTyped
<1>2. PICK b \in BOOLEAN : b = request[r].responded
  BY <1>1 DEF RequestRows
<1>3. request' = [request EXCEPT ![r] = [request[r] EXCEPT !.status = "NEW", !.session = "OPEN",
                                                           !.responded = b]]
  BY <1>1, <1>2 DEF createRequest, RequestRows
<1>4. UNCHANGED <<now, terms, offers, orders, file>> /\ request[r].status # "ACCEPTED"
  BY DEF createRequest, worldVars
<1> QED
  BY <1>3, <1>4, StatusMoves DEF Statuses

\* So does declineRequest.
LEMMA declineRequestKeeps ==
  ASSUME RequestsInv, NEW r \in Requests, declineRequest(r) PROVE RequestsInv'
<1>1. request[r] \in RequestRows /\ request \in [Requests -> RequestRows]
  BY DEF RequestsInv, RequestsTyped
<1>2. PICK s \in {"NONE", "OPEN", "CONVERTED"} : s = request[r].session
  BY <1>1 DEF RequestRows
<1>3. request' = [request EXCEPT ![r] = [request[r] EXCEPT !.status = "REJECTED", !.session = s,
                                                           !.responded = TRUE]]
  BY <1>1, <1>2 DEF declineRequest, RequestRows
<1>4. UNCHANGED <<now, terms, offers, orders, file>> /\ request[r].status # "ACCEPTED"
  BY DEF declineRequest, worldVars
<1> QED
  BY <1>3, <1>4, StatusMoves DEF Statuses

\* The file of a request is attached: nothing was deleted, nothing was offered.
LEMMA attachModelKeeps ==
  ASSUME RequestsInv, NEW r \in Requests, attachModel(r) PROVE RequestsInv'
<1> DEFINE f == file[r]
           d == now + RetentionDays
           g == [f EXCEPT !.attached = TRUE, !.deleteAfter = d]
<1>1. f \in FileRows /\ RowSound(r) /\ d \in Nat
  BY BoundsAssumption DEF RequestsInv, RequestsTyped
<1>2. UNCHANGED <<now, terms, request, offers, orders>> /\ file' = [file EXCEPT ![r] = g] /\ ~f.attached
  BY DEF attachModel, worldVars
<1> HIDE DEF d
<1>3. /\ g \in FileRows /\ g.deleteAfter = d /\ g.hold = f.hold /\ g.deleted = f.deleted
  BY <1>1 DEF FileRows
<1> HIDE DEF g
<1>4. /\ file' \in [Requests -> FileRows] /\ file'[r] = g
      /\ \A q \in Requests \ {r} : file'[q] = file[q]
  BY <1>2, <1>3 DEF RequestsInv, RequestsTyped
<1>5. RequestsTyped'
  BY <1>2, <1>4 DEF RequestsInv, RequestsTyped
<1>6. ~f.deleted
  BY <1>1, <1>2 DEF RowSound
<1>7. request[r].status # "QUOTED" /\ orders[r] = {}
  BY <1>1, <1>2 DEF RowSound, attachModel, lockActiveRequest
<1>8. RowSound(r)'
  BY <1>1, <1>2, <1>3, <1>4, <1>6, <1>7 DEF RowSound
<1> QED
  BY <1>2, <1>4, <1>5, <1>8, OneRequestMoves

\* An offer is stored: the request is QUOTED with it, and its file outlives it.
LEMMA OfferStored ==
  ASSUME RequestsInv, NEW r \in Requests, NEW t \in Nat, t > now,
         request[r].status # "ACCEPTED", availableSource(file[r]),
         applyIssuanceTransition(r), storeOffer(r, t), UNCHANGED <<now, terms, orders>>
  PROVE  RequestsInv'
<1> DEFINE s == offers[r]
           o == [terms |-> terms, expiresAt |-> t]
           n == Len(s) + 1
           q == [request[r] EXCEPT !.status = "QUOTED", !.current = n, !.responded = TRUE]
           d == IF file[r].deleteAfter < t + RetentionDays THEN t + RetentionDays
                ELSE file[r].deleteAfter
           f == [file[r] EXCEPT !.deleteAfter = d]
<1>1. /\ s \in Seq(OfferRows) /\ Len(s) \in Nat /\ request[r] \in RequestRows
      /\ file[r] \in FileRows /\ RowSound(r) /\ o \in OfferRows
  BY DEF RequestsInv, RequestsTyped, OfferRows
<1>2. d \in Nat /\ d > t
  BY <1>1, BoundsAssumption DEF FileRows
<1>3. /\ request' = [request EXCEPT ![r] = q]
      /\ offers' = [offers EXCEPT ![r] = Append(s, o)]
      /\ file' = [file EXCEPT ![r] = f]
  <2>1. request' = [request EXCEPT ![r] = q]
    BY DEF applyIssuanceTransition, RequestsInv, RequestsTyped
  <2>2. offers' = [offers EXCEPT ![r] = Append(s, o)]
    BY DEF storeOffer
  <2>3. file' = [file EXCEPT ![r] = f]
    <3>1. t + RetentionDays > now
      BY BoundsAssumption DEF RequestsInv, RequestsTyped
    <3>2. extendQuoteSourceRetention(file[r], t) = f
      BY <1>1, <3>1 DEF extendQuoteSourceRetention, FileRows
    <3> QED
      BY <3>2 DEF storeOffer
  <2> QED
    BY <2>1, <2>2, <2>3
<1> HIDE DEF d
<1>4. f \in FileRows /\ f.attached /\ ~f.deleted /\ f.deleteAfter = d
  BY <1>1, <1>2 DEF FileRows, availableSource
<1>5. n \in Nat /\ n > 0
  BY <1>1
<1>6. Append(s, o) \in Seq(OfferRows) /\ Len(Append(s, o)) = n /\ Append(s, o)[n] = o
  BY <1>1
<1> HIDE DEF n, f
<1>7. q \in RequestRows /\ q.status = "QUOTED" /\ q.current = n
  BY <1>1, <1>5 DEF RequestRows, Statuses
<1> DEFINE a == Append(s, o)
<1>8. a \in Seq(OfferRows) /\ Len(a) = n /\ a[n].expiresAt = t
  BY <1>6
<1> HIDE DEF q, a
<1>9. /\ request' \in [Requests -> RequestRows] /\ request'[r] = q
      /\ \A p \in Requests \ {r} : request'[p] = request[p]
  BY <1>3, <1>7 DEF RequestsInv, RequestsTyped
<1>10. /\ offers' \in [Requests -> Seq(OfferRows)] /\ offers'[r] = a
       /\ \A p \in Requests \ {r} : offers'[p] = offers[p]
  BY <1>3, <1>8 DEF RequestsInv, RequestsTyped, a
<1>11. /\ file' \in [Requests -> FileRows] /\ file'[r] = f
       /\ \A p \in Requests \ {r} : file'[p] = file[p]
  BY <1>3, <1>4 DEF RequestsInv, RequestsTyped
<1>12. RequestsTyped'
  BY <1>9, <1>10, <1>11 DEF RequestsInv, RequestsTyped
<1>13. orders'[r] = {}
  BY <1>1 DEF RowSound
<1>14. RowSound(r)'
  BY <1>2, <1>4, <1>5, <1>7, <1>8, <1>9, <1>10, <1>11, <1>13 DEF RowSound
<1> QED
  BY <1>9, <1>10, <1>11, <1>12, <1>14, OneRequestMoves

\* An order is made of the current offer, in time and on its terms, and holds its file.
LEMMA acceptOfferKeeps ==
  ASSUME RequestsInv, NEW r \in Requests, NEW v \in DOMAIN offers[r], acceptOffer(r, v)
  PROVE  RequestsInv'
<1> DEFINE o == [offer |-> v, terms |-> terms, at |-> now]
           q == [request[r] EXCEPT !.status = "ACCEPTED", !.session = "CONVERTED"]
           f == [file[r] EXCEPT !.hold = "ACTIVE_ORDER"]
<1>1. /\ offers[r] \in Seq(OfferRows) /\ Len(offers[r]) \in Nat /\ request[r] \in RequestRows
      /\ file[r] \in FileRows /\ RowSound(r) /\ now \in Nat /\ terms \in Nat
  BY DEF RequestsInv, RequestsTyped
<1>2. /\ UNCHANGED <<now, terms, offers>>
      /\ v = Len(offers[r]) /\ request[r].status = "QUOTED"
      /\ ~(offers[r][v].expiresAt <= now) /\ offers[r][v].terms = terms
      /\ ~file[r].deleted
  BY <1>1 DEF acceptOffer, worldVars, acceptable, assertCurrentOffer, Current, RowSound, overdue,
              assertEffectiveTerms, availableSource
<1>3. /\ request' = [request EXCEPT ![r] = q]
      /\ orders' = [orders EXCEPT ![r] = orders[r] \cup {o}]
      /\ file' = [file EXCEPT ![r] = f]
  <2>1. request' = [request EXCEPT ![r] = q]
    BY DEF acceptOffer, RequestsInv, RequestsTyped
  <2>2. orders' = [orders EXCEPT ![r] = orders[r] \cup {o}]
    BY DEF acceptOffer
  <2>3. file' = [file EXCEPT ![r] = f]
    BY DEF acceptOffer, holdSources, RequestsInv, RequestsTyped
  <2> QED
    BY <2>1, <2>2, <2>3
<1>4. orders[r] = {} /\ orders[r] \cup {o} = {o}
  BY <1>1, <1>2 DEF RowSound
<1>5. v \in Nat /\ v > 0 /\ v \in 1..Len(offers[r])
  BY <1>1, <1>2 DEF RowSound
<1>6. offers[r][v].expiresAt \in Nat
  <2>1. offers[r][v] \in OfferRows
    BY <1>1, <1>5
  <2> QED
    BY <2>1 DEF OfferRows
<1>7. o \in OrderRows /\ OrderOf(o, offers[r])
  BY <1>1, <1>2, <1>5, <1>6 DEF OrderRows, OrderOf
<1>8. f \in FileRows /\ f.hold # "NONE" /\ ~f.deleted
  BY <1>1, <1>2 DEF FileRows
<1>9. q \in RequestRows /\ q.status = "ACCEPTED" /\ q.current = request[r].current
  BY <1>1 DEF RequestRows, Statuses
<1> HIDE DEF q, f, o
<1>10. /\ request' \in [Requests -> RequestRows] /\ request'[r] = q
       /\ \A p \in Requests \ {r} : request'[p] = request[p]
  BY <1>3, <1>9 DEF RequestsInv, RequestsTyped
<1>11. /\ orders' \in [Requests -> SUBSET OrderRows] /\ orders'[r] = {o}
       /\ \A p \in Requests \ {r} : orders'[p] = orders[p]
  BY <1>3, <1>4, <1>7 DEF RequestsInv, RequestsTyped
<1>12. /\ file' \in [Requests -> FileRows] /\ file'[r] = f
       /\ \A p \in Requests \ {r} : file'[p] = file[p]
  BY <1>3, <1>8 DEF RequestsInv, RequestsTyped
<1>13. RequestsTyped'
  BY <1>2, <1>10, <1>11, <1>12 DEF RequestsInv, RequestsTyped
<1>14. RowSound(r)'
  <2>1. offers'[r] = offers[r] /\ now' = now
    BY <1>2
  <2>2. orders'[r] # {} /\ \E x \in OrderRows : orders'[r] = {x} /\ OrderOf(x, offers'[r])
    BY <1>7, <1>11, <2>1
  <2> QED
    BY <1>1, <1>2, <1>5, <1>8, <1>9, <1>10, <1>12, <2>1, <2>2 DEF RowSound
<1> QED
  BY <1>2, <1>10, <1>11, <1>12, <1>13, <1>14, OneRequestMoves

\* So does the deletion of a model that is due.
LEMMA deleteSourceKeeps ==
  ASSUME RequestsInv, NEW r \in Requests, deleteSource(r) PROVE RequestsInv'
<1> DEFINE f == [file[r] EXCEPT !.deleted = TRUE]
<1>1. file[r] \in FileRows /\ RowSound(r)
  BY DEF RequestsInv, RequestsTyped
<1>2. /\ UNCHANGED <<now, terms, request, offers, orders>>
      /\ file[r].attached /\ file[r].hold = "NONE" /\ file[r].deleteAfter <= now
      /\ file' = [file EXCEPT ![r] = f]
  BY DEF deleteSource, worldVars, RequestsInv, RequestsTyped
<1>3. /\ f \in FileRows /\ f.attached /\ f.deleted /\ f.deleteAfter = file[r].deleteAfter
      /\ f.hold = "NONE"
  BY <1>1, <1>2 DEF FileRows
<1> HIDE DEF f
<1>4. /\ file' \in [Requests -> FileRows] /\ file'[r] = f
      /\ \A p \in Requests \ {r} : file'[p] = file[p]
  BY <1>2, <1>3 DEF RequestsInv, RequestsTyped
<1>5. RequestsTyped'
  BY <1>2, <1>4 DEF RequestsInv, RequestsTyped
<1>6. RowSound(r)'
  BY <1>1, <1>2, <1>3, <1>4 DEF RowSound
<1> QED
  BY <1>2, <1>4, <1>5, <1>6, OneRequestMoves

\* So does time.
LEMMA timePassesKeeps == ASSUME RequestsInv, timePasses PROVE RequestsInv'
<1>1. now' = now + 1 /\ now \in Nat /\ UNCHANGED <<terms, request, offers, orders, file>>
  BY DEF timePasses, RequestsInv, RequestsTyped
<1>2. RequestsTyped'
  BY <1>1 DEF RequestsInv, RequestsTyped
<1>3. ASSUME NEW r \in Requests PROVE RowSound(r)'
  <2>1. RowSound(r) /\ file[r].deleteAfter \in Nat
    BY DEF RequestsInv, RequestsTyped, FileRows
  <2> QED
    BY <1>1, <2>1 DEF RowSound, OrderOf
<1> QED
  BY <1>2, <1>3 DEF RequestsInv

\* However an assisted request is prepared, offered, reissued, accepted, rejected
\* and expired from several pages at once, while terms, policy and time move and the
\* retention worker deletes files: a request becomes at most one order, exactly when
\* it is ACCEPTED, from its last offer, before that expired and under the terms it
\* was issued with; and the model of an offer that can still be accepted, or was, is
\* not deleted.
THEOREM RequestsAreSound == Spec => []RequestSound
<1>1. Init => RequestsInv
  BY RequestsStart
<1>2. RequestsInv /\ [Next]_quoteVars => RequestsInv'
  <2> SUFFICES ASSUME RequestsInv, [Next]_quoteVars PROVE RequestsInv'
    OBVIOUS
  <2>1. ASSUME NEW r \in Requests, NEW h \in BOOLEAN, createRequest(r, h) PROVE RequestsInv'
    BY <2>1, createRequestKeeps
  <2>2. ASSUME NEW r \in Requests, beginReview(r) PROVE RequestsInv'
    BY <2>2, TransitionKeeps DEF beginReview, worldVars, Statuses
  <2>3. ASSUME NEW r \in Requests, declineRequest(r) PROVE RequestsInv'
    BY <2>3, declineRequestKeeps
  <2>4. ASSUME NEW r \in Requests, attachModel(r) PROVE RequestsInv'
    BY <2>4, attachModelKeeps
  <2>5. ASSUME NEW r \in Requests,
               importHandoffModel(r) \/ selectBodies(r) \/ prepareReference(r) \/ composerChoices(r)
        PROVE  RequestsInv'
    BY <2>5, RequestFrame DEF importHandoffModel, selectBodies, prepareReference,
                              composerChoices, worldVars
  <2>6. ASSUME NEW r \in Requests, reissueFindsOverdue(r) PROVE RequestsInv'
    BY <2>6, TransitionKeeps DEF reissueFindsOverdue, reissueEligible, applyExpirationTransition,
                                 worldVars, Statuses
  <2>7. ASSUME NEW r \in Requests, expireOffer(r) PROVE RequestsInv'
    BY <2>7, TransitionKeeps DEF expireOffer, applyExpirationTransition, worldVars, Statuses
  <2>8. ASSUME NEW r \in Requests, deleteSource(r) PROVE RequestsInv'
    BY <2>8, deleteSourceKeeps
  <2>9. ASSUME NEW r \in Requests, NEW k \in JobKinds, preprocessingResult(r, k)
        PROVE  RequestsInv'
    BY <2>9, RequestFrame DEF preprocessingResult, worldVars
  <2>10. ASSUME NEW r \in Requests, NEW t \in 1..MaxTime, issueOffer(r, t) \/ reissueOffer(r, t)
         PROVE  RequestsInv'
    <3>1. t \in Nat
      BY BoundsAssumption
    <3>2. /\ t > now /\ request[r].status # "ACCEPTED" /\ availableSource(file[r])
          /\ applyIssuanceTransition(r) /\ storeOffer(r, t) /\ UNCHANGED <<now, terms, orders>>
      BY <2>10 DEF issueOffer, reissueOffer, reissueEligible, validateOfferItemReferences, worldVars
    <3> QED
      BY <3>1, <3>2, OfferStored
  <2>11. ASSUME NEW r \in Requests, NEW v \in DOMAIN offers[r], previewOffer(r, v)
         PROVE  RequestsInv'
    BY <2>11, RequestFrame DEF previewOffer, worldVars
  <2>12. ASSUME NEW r \in Requests, NEW v \in DOMAIN offers[r], expireOverdueOffer(r, v)
         PROVE  RequestsInv'
    <3>1. UNCHANGED <<now, terms, offers, orders, file>>
      BY <2>12 DEF expireOverdueOffer, worldVars
    <3>2. CASE UNCHANGED request
      BY <3>1, <3>2, RequestFrame
    <3>3. CASE request[r].status = "QUOTED" /\ applyExpirationTransition(r, v)
      BY <3>1, <3>3, TransitionKeeps DEF applyExpirationTransition, Statuses
    <3> QED
      BY <2>12, <3>2, <3>3 DEF expireOverdueOffer
  <2>13. ASSUME NEW r \in Requests, NEW v \in DOMAIN offers[r], acceptOffer(r, v)
         PROVE  RequestsInv'
    BY <2>13, acceptOfferKeeps
  <2>14. ASSUME NEW r \in Requests, NEW v \in DOMAIN offers[r],
                acceptTooLate(r, v) \/ rejectOffer(r, v)
         PROVE  RequestsInv'
    BY <2>14, TransitionKeeps DEF acceptTooLate, rejectOffer, acceptable, applyExpirationTransition,
                                  worldVars, Statuses
  <2>15. CASE timePasses
    BY <2>15, timePassesKeeps
  <2>16. CASE termsChange
    <3>1. UNCHANGED <<now, request, offers, orders, file>> /\ terms' = terms + 1 /\ terms \in Nat
      BY <2>16 DEF termsChange, RequestsInv, RequestsTyped
    <3>2. RequestsTyped'
      BY <3>1 DEF RequestsInv, RequestsTyped
    <3>3. ASSUME NEW r \in Requests PROVE RowSound(r)'
      BY <3>1 DEF RequestsInv, RowSound, OrderOf
    <3> QED
      BY <3>2, <3>3 DEF RequestsInv
  <2>17. CASE policyChanges
    BY <2>17, RequestFrame DEF policyChanges
  <2>18. CASE UNCHANGED quoteVars
    BY <2>18, RequestFrame DEF quoteVars
  <2> QED
    BY <2>1, <2>2, <2>3, <2>4, <2>5, <2>6, <2>7, <2>8, <2>9, <2>10, <2>11, <2>12, <2>13, <2>14,
       <2>15, <2>16, <2>17, <2>18 DEF Next
<1>3. RequestsInv => RequestSound
  BY InvariantGivesRequests
<1> QED
  BY <1>1, <1>2, <1>3, PTL DEF Spec

-----------------------------------------------------------------------------
(* Individual orders.  The resources and the first payment: the payment that  *)
(* is captured holds the resources it was priced for, whichever of lapse,     *)
(* renewal, replacement and late answer comes first.                          *)

\* The rows of plans and payments.
SetStates == {"NONE", "RESERVED", "LAPSED", "HELD", "RELEASED", "EXPIRED"}
PlanRows == [node : Nodes, life : {"LONG", "SHORT"}, set : SetStates, age : Nat]
PaymentStates == {"NONE", "CREATED", "PENDING", "CAPTURED", "FAILED", "VOIDED", "REFUND_PENDING"}
PaymentRows == [status : PaymentStates, plan : Nat, contact : SUBSET Contacts]
Taken(i) == plans[i].set \in Reserved \cup {"HELD"}

\* Types.
IndividualTyped ==
  /\ orderStatus \in {"DRAFT", "QUOTED", "CONFIRMED", "CANCELLED", "EXPIRED"}
  /\ contact \subseteq Contacts
  /\ plans \in Seq(PlanRows) /\ payments \in [Payments -> PaymentRows]

\* A plan has an age once it was reserved, and ages number the reservations.
PlansAged ==
  \A i \in 1..Len(plans) :
    /\ plans[i].set = "NONE" <=> plans[i].age = 0
    /\ plans[i].age <= Len(plans) + 1
\* All the plans of an order are for one node.
OneNode == \A i, j \in 1..Len(plans) : plans[i].node = plans[j].node

\* A payment that was asked for names a plan that was reserved for it alone.
PaymentsExclusive ==
  \A p \in Payments :
    /\ payments[p].status = "NONE" <=> payments[p].plan = 0
    /\ payments[p].plan # 0 => /\ payments[p].plan \in 1..Len(plans)
                               /\ plans[payments[p].plan].age # 0
                               /\ payments[p].contact = contact
    /\ \A q \in Payments :
         /\ payments[p].status \in LiveStatuses /\ payments[q].status \in LiveStatuses => p = q
         /\ payments[p].plan # 0 /\ payments[p].plan = payments[q].plan => p = q
\* What the order says of its plans and payments.
StatusHolds ==
  /\ orderStatus = "CONFIRMED" <=> \E p \in Payments : payments[p].status = "CAPTURED"
  /\ orderStatus = "CONFIRMED" => \E i \in 1..Len(plans) :
       plans[i].set = "HELD" /\ \A j \in 1..Len(plans) : Taken(j) => j = i
  /\ orderStatus \in {"CANCELLED", "EXPIRED"}
       => (\A i \in 1..Len(plans) : ~Taken(i)) /\ ~liveInitialPayment

\* The inductive invariant.
IndividualInv ==
  IndividualTyped /\ PlansAged /\ OneNode /\ PaymentsExclusive /\ StatusHolds

\* The plans are a sequence of rows.
LEMMA PlanFacts ==
  ASSUME IndividualInv
  PROVE  /\ Len(plans) \in Nat /\ DOMAIN plans = 1..Len(plans)
         /\ \A i \in 1..Len(plans) : plans[i] \in PlanRows
BY DEF IndividualInv, IndividualTyped

\* The invariant implies that individual orders are sound.
LEMMA InvariantGivesIndividual == ASSUME IndividualInv PROVE IndividualSound
<1>1. OneNodePerOrder
  BY PlanFacts DEF IndividualInv, OneNode, OneNodePerOrder
<1>2. InitialPaymentExclusive
  <2>1. \A p \in Payments : payments[p].status # "NONE" => payments[p].contact = contact
    BY DEF IndividualInv, PaymentsExclusive
  <2>2. \A p, q \in Payments :
          /\ payments[p].status \in LiveStatuses /\ payments[q].status \in LiveStatuses => p = q
          /\ payments[p].plan # 0 /\ payments[p].plan = payments[q].plan => p = q
    BY DEF IndividualInv, PaymentsExclusive
  <2> QED
    BY <2>1, <2>2 DEF InitialPaymentExclusive
<1>3. ConfirmedHolds
  <2> DEFINE taken == {i \in DOMAIN plans : plans[i].set \in Reserved \cup {"HELD"}}
  <2>1. ASSUME orderStatus = "CONFIRMED"
        PROVE  Cardinality(taken) = 1 /\ \A i \in taken : plans[i].set = "HELD"
    <3>1. PICK i \in 1..Len(plans) :
            plans[i].set = "HELD" /\ \A j \in 1..Len(plans) : Taken(j) => j = i
      BY <2>1 DEF IndividualInv, StatusHolds
    <3>2. taken = {i}
      BY <3>1, PlanFacts DEF Taken
    <3>3. Cardinality({i}) = 1
      BY FS_Singleton
    <3> QED
      BY <3>1, <3>2, <3>3
  <2>2. orderStatus \in {"CANCELLED", "EXPIRED"} => taken = {} /\ ~liveInitialPayment
    BY PlanFacts DEF IndividualInv, StatusHolds, Taken
  <2> QED
    BY <2>1, <2>2 DEF ConfirmedHolds, IndividualInv, StatusHolds
<1> QED
  BY <1>1, <1>2, <1>3 DEF IndividualSound

\* It holds of a draft.
LEMMA IndividualStarts == ASSUME IndividualInit PROVE IndividualInv
<1> USE DEF IndividualInit
<1>1. Len(plans) = 0
  BY EmptySeq
<1>2. IndividualTyped
  BY DEF IndividualTyped, PaymentRows, PaymentStates, NoPayment
<1>3. PlansAged /\ OneNode
  BY <1>1 DEF PlansAged, OneNode
<1>4. PaymentsExclusive
  BY DEF PaymentsExclusive, NoPayment, LiveStatuses
<1>5. StatusHolds
  BY DEF StatusHolds, NoPayment
<1> QED
  BY <1>2, <1>3, <1>4, <1>5 DEF IndividualInv

\* Among the reservations made there is a newest one.
LEMMA NewestExists ==
  ASSUME IndividualInv, NEW I \in SUBSET (1..Len(plans)), I # {}
  PROVE  newestOf(I) \in I
<1> DEFINE gap(i) == Len(plans) + 1 - plans[i].age
           G == {gap(i) : i \in I}
<1>1. \A i \in I : gap(i) \in Nat /\ plans[i].age \in Nat
  <2>1. ASSUME NEW i \in I PROVE plans[i].age \in Nat /\ plans[i].age <= Len(plans) + 1
    BY PlanFacts DEF IndividualInv, PlansAged, PlanRows
  <2> QED
    BY <2>1, PlanFacts
<1>2. G \in SUBSET Nat /\ G # {}
  BY <1>1
<1>3. PICK n \in G : \A m \in G : n <= m
  BY <1>2, LeastNatural
<1>4. PICK i \in I : n = gap(i)
  BY <1>3
<1>5. \A j \in I : gap(i) <= gap(j)
  BY <1>3, <1>4
<1>6. ASSUME NEW j \in I PROVE plans[j].age <= plans[i].age
  <2>1. Len(plans) \in Nat /\ plans[i].age \in Nat /\ plans[j].age \in Nat
    BY <1>1, PlanFacts
  <2>2. Len(plans) + 1 - plans[i].age <= Len(plans) + 1 - plans[j].age
    BY <1>5
  <2> QED
    BY <2>1, <2>2
<1>7. \E x \in I : \A j \in I : plans[j].age <= plans[x].age
  BY <1>6
<1> QED
  BY <1>7, Zenon DEF newestOf

\* While a payment is open the order has had a reservation, and is neither confirmed
\* nor closed.
LEMMA OpenPayment ==
  ASSUME IndividualInv, NEW p \in Payments, Open(p)
  PROVE  /\ payments[p].status \in LiveStatuses
         /\ orderStatus \in {"DRAFT", "QUOTED"}
         /\ \A q \in Payments \ {p} : payments[q].status \notin LiveStatuses
         /\ previousSet \in 1..Len(plans) /\ plans[previousSet].age # 0
<1>1. payments[p].status \in LiveStatuses
  BY DEF Open, LiveStatuses
<1>2. \A q \in Payments \ {p} : payments[q].status \notin LiveStatuses
  BY <1>1 DEF IndividualInv, PaymentsExclusive
<1>3. \A q \in Payments : payments[q].status # "CAPTURED"
  BY <1>2 DEF Open, LiveStatuses
<1>4. orderStatus \in {"DRAFT", "QUOTED"}
  BY <1>1, <1>3 DEF IndividualInv, StatusHolds, IndividualTyped, liveInitialPayment
<1>5. payments[p].plan \in 1..Len(plans) /\ plans[payments[p].plan].age # 0
  BY DEF IndividualInv, PaymentsExclusive, Open
<1> DEFINE I == {i \in DOMAIN plans : plans[i].age # 0}
<1>6. I \in SUBSET (1..Len(plans)) /\ I # {}
  BY <1>5, PlanFacts
<1>7. newestOf(I) \in I
  BY <1>6, NewestExists
<1>8. previousSet \in I
  BY <1>7 DEF previousSet
<1> QED
  BY <1>1, <1>2, <1>4, <1>6, <1>8

(***************************************************************************)
(* Steps.                                                                  *)
(***************************************************************************)
\* A plan that is added has no reservation, and changes none.
LEMMA PlanAdded ==
  ASSUME IndividualInv, NEW n \in Nodes, \A i \in 1..Len(plans) : plans[i].node = n,
         plans' = Append(plans, newPlan(n)), UNCHANGED <<orderStatus, contact, payments>>
  PROVE  IndividualInv'
<1> DEFINE row == newPlan(n)
<1>1. row \in PlanRows /\ row.node = n /\ row.set = "NONE" /\ row.age = 0
  BY DEF newPlan, PlanRows, SetStates
<1> HIDE DEF row
<1>2. plans' = Append(plans, row)
  BY DEF row
<1>3. /\ plans' \in Seq(PlanRows) /\ Len(plans') = Len(plans) + 1
      /\ plans'[Len(plans) + 1] = row
      /\ \A i \in 1..Len(plans) : plans'[i] = plans[i]
  BY <1>1, <1>2, PlanFacts DEF IndividualInv, IndividualTyped
<1>4. \A i \in 1..Len(plans') : i \in 1..Len(plans) \/ i = Len(plans) + 1
  BY <1>3, PlanFacts
<1>5. \A i \in 1..Len(plans) : i \in 1..Len(plans')
  BY <1>3, PlanFacts
<1>6. IndividualTyped'
  BY <1>3 DEF IndividualInv, IndividualTyped
<1>7. PlansAged'
  <2>1. \A i \in 1..Len(plans) : plans[i].age \in Nat
    BY PlanFacts DEF PlanRows
  <2>2. ASSUME NEW i \in 1..Len(plans')
        PROVE  (plans'[i].set = "NONE" <=> plans'[i].age = 0) /\ plans'[i].age <= Len(plans') + 1
    <3>1. CASE i \in 1..Len(plans)
      BY <1>3, <2>1, <3>1, PlanFacts DEF IndividualInv, PlansAged
    <3>2. CASE i = Len(plans) + 1
      BY <1>1, <1>3, <3>2, PlanFacts
    <3> QED
      BY <1>4, <3>1, <3>2
  <2> QED
    BY <2>2 DEF PlansAged
<1>8. OneNode'
  <2>1. \A i \in 1..Len(plans') : plans'[i].node = n
    BY <1>1, <1>3, <1>4
  <2> QED
    BY <2>1 DEF OneNode
<1>9. PaymentsExclusive'
  BY <1>3, <1>5 DEF IndividualInv, PaymentsExclusive
<1>10. StatusHolds'
  <2>1. \A i \in 1..Len(plans') : Taken(i)' => i \in 1..Len(plans) /\ Taken(i)
    BY <1>1, <1>3, <1>4 DEF Taken, Reserved
  <2>2. liveInitialPayment' = liveInitialPayment
    BY DEF liveInitialPayment
  <2>3. ASSUME orderStatus = "CONFIRMED"
        PROVE  \E i \in 1..Len(plans') :
                 plans'[i].set = "HELD" /\ \A j \in 1..Len(plans') : Taken(j)' => j = i
    <3>1. PICK i \in 1..Len(plans) :
            plans[i].set = "HELD" /\ \A j \in 1..Len(plans) : Taken(j) => j = i
      BY <2>3 DEF IndividualInv, StatusHolds
    <3> QED
      BY <1>3, <1>5, <2>1, <3>1
  <2> QED
    BY <2>1, <2>2, <2>3 DEF IndividualInv, StatusHolds
<1> QED
  BY <1>6, <1>7, <1>8, <1>9, <1>10 DEF IndividualInv

\* One plan is replaced by a row of the same node with a proper age.
LEMMA PlanReplaced ==
  ASSUME IndividualInv, NEW i \in 1..Len(plans), NEW row \in PlanRows,
         plans' = [plans EXCEPT ![i] = row], row.node = plans[i].node,
         row.set = "NONE" <=> row.age = 0, row.age <= Len(plans) + 1
  PROVE  /\ plans' \in Seq(PlanRows) /\ Len(plans') = Len(plans) /\ plans'[i] = row
         /\ \A j \in 1..Len(plans) \ {i} : plans'[j] = plans[j]
         /\ PlansAged' /\ OneNode'
<1>1. /\ plans' \in Seq(PlanRows) /\ Len(plans') = Len(plans) /\ plans'[i] = row
      /\ \A j \in 1..Len(plans) \ {i} : plans'[j] = plans[j]
  BY PlanFacts, ExceptSeq DEF IndividualInv, IndividualTyped
<1>2. PlansAged'
  BY <1>1 DEF IndividualInv, PlansAged
<1>3. \A j \in 1..Len(plans) : plans'[j].node = plans[j].node
  BY <1>1
<1>4. OneNode'
  BY <1>1, <1>3 DEF IndividualInv, OneNode
<1> QED
  BY <1>1, <1>2, <1>4

\* A plan that neither holds nor comes to hold resources of a confirmed order.
LEMMA PlanMoves ==
  ASSUME IndividualInv, NEW i \in 1..Len(plans), NEW row \in PlanRows,
         plans' = [plans EXCEPT ![i] = row], row.node = plans[i].node,
         row.set = "NONE" <=> row.age = 0, row.age <= Len(plans) + 1,
         plans[i].age # 0 => row.age # 0,
         plans[i].set # "HELD",
         row.set \in Reserved \cup {"HELD"} => Taken(i) \/ orderStatus \in {"DRAFT", "QUOTED"},
         UNCHANGED <<orderStatus, contact, payments>>
  PROVE  IndividualInv'
<1>1. /\ plans' \in Seq(PlanRows) /\ Len(plans') = Len(plans) /\ plans'[i] = row
      /\ \A j \in 1..Len(plans) \ {i} : plans'[j] = plans[j]
      /\ PlansAged' /\ OneNode'
  BY PlanReplaced
<1>2. IndividualTyped'
  BY <1>1 DEF IndividualInv, IndividualTyped
<1>3. \A j \in 1..Len(plans) : plans[j].age # 0 => plans'[j].age # 0
  BY <1>1
<1>4. PaymentsExclusive'
  BY <1>1, <1>3 DEF IndividualInv, PaymentsExclusive
<1>5. StatusHolds'
  <2>1. liveInitialPayment' = liveInitialPayment
    BY DEF liveInitialPayment
  <2>2. CASE orderStatus \in {"DRAFT", "QUOTED"}
    BY <2>2 DEF IndividualInv, StatusHolds
  <2>3. CASE orderStatus \notin {"DRAFT", "QUOTED"}
    <3>1. \A j \in 1..Len(plans) : Taken(j)' => Taken(j)
      BY <1>1, <2>3 DEF Taken
    <3>2. ASSUME orderStatus = "CONFIRMED"
          PROVE  \E k \in 1..Len(plans') :
                   plans'[k].set = "HELD" /\ \A j \in 1..Len(plans') : Taken(j)' => j = k
      <4>1. PICK k \in 1..Len(plans) :
              plans[k].set = "HELD" /\ \A j \in 1..Len(plans) : Taken(j) => j = k
        BY <3>2 DEF IndividualInv, StatusHolds
      <4>2. k # i
        BY <4>1
      <4> QED
        BY <1>1, <3>1, <4>1, <4>2
    <3> QED
      BY <1>1, <2>1, <3>1, <3>2 DEF IndividualInv, StatusHolds
  <2> QED
    BY <2>2, <2>3
<1> QED
  BY <1>1, <1>2, <1>4, <1>5 DEF IndividualInv

\* A set that holds nothing changes its state; a plan never reserved ages.
LEMMA SetMoves ==
  ASSUME IndividualInv, NEW i \in 1..Len(plans), NEW s \in {"RELEASED", "LAPSED", "EXPIRED"},
         plans[i].set \in Reserved, plans' = [plans EXCEPT ![i].set = s],
         UNCHANGED <<orderStatus, contact, payments>>
  PROVE  IndividualInv'
<1> DEFINE row == [plans[i] EXCEPT !.set = s]
<1>1. plans[i] \in PlanRows
  BY PlanFacts
<1>2. row \in PlanRows /\ row.node = plans[i].node /\ row.set = s /\ row.age = plans[i].age
  BY <1>1 DEF PlanRows, SetStates
<1>3. plans' = [plans EXCEPT ![i] = row]
  BY PlanFacts
<1> HIDE DEF row
<1>4. plans[i].age # 0 /\ plans[i].age <= Len(plans) + 1 /\ s # "NONE" /\ s # "HELD"
  BY DEF IndividualInv, PlansAged, Reserved
<1>5. plans[i].set # "HELD" /\ Taken(i)
  BY DEF Taken, Reserved
<1> QED
  BY <1>2, <1>3, <1>4, <1>5, PlanMoves

\* A reservation that lapses keeps the invariant.
LEMMA PlanAges == ASSUME IndividualInv, NEW i \in 1..Len(plans), planAges(i) PROVE IndividualInv'
<1> DEFINE row == [plans[i] EXCEPT !.life = "SHORT"]
<1>1. plans[i] \in PlanRows
  BY PlanFacts
<1>2. row \in PlanRows /\ row.node = plans[i].node /\ row.set = plans[i].set /\ row.age = plans[i].age
  BY <1>1 DEF PlanRows
<1>3. plans' = [plans EXCEPT ![i] = row]
  BY PlanFacts DEF planAges
<1> HIDE DEF row
<1>4. plans[i].set = "NONE" /\ UNCHANGED <<orderStatus, contact, payments>>
  BY DEF planAges
<1>5. plans[i].set = "NONE" <=> plans[i].age = 0
  BY DEF IndividualInv, PlansAged
<1>6. plans[i].age <= Len(plans) + 1
  BY DEF IndividualInv, PlansAged
<1> QED
  BY <1>2, <1>3, <1>4, <1>5, <1>6, PlanMoves DEF Reserved

\* A reservation gets the next age.
LEMMA ReserveRow ==
  ASSUME IndividualInv, NEW i \in 1..Len(plans), reserve(i)
  PROVE  \E row \in PlanRows :
           /\ plans' = [plans EXCEPT ![i] = row] /\ row.node = plans[i].node
           /\ row.set = "RESERVED" /\ row.age # 0 /\ row.age <= Len(plans) + 1
<1> DEFINE aged == {j \in DOMAIN plans : plans[j].age # 0}
           a == 1 + Cardinality(aged)
<1>1. a \in Nat /\ a # 0 /\ a <= Len(plans) + 1
  <2>1. aged \in SUBSET (1..Len(plans)) /\ Len(plans) \in Nat
    BY PlanFacts
  <2>2. IsFiniteSet(1..Len(plans)) /\ Cardinality(1..Len(plans)) = Len(plans)
    <3>1. PICK n \in Nat : n = Len(plans)
      BY <2>1
    <3>2. IsFiniteSet(1..n) /\ Cardinality(1..n) = (IF 1 > n THEN 0 ELSE n - 1 + 1)
      BY FS_Interval
    <3> QED
      BY <3>1, <3>2
  <2>3. Cardinality(aged) <= Cardinality(1..Len(plans)) /\ IsFiniteSet(aged)
    BY <2>1, <2>2, FS_Subset
  <2>4. Cardinality(aged) \in Nat
    BY <2>3, FS_CardinalityType
  <2> HIDE DEF aged
  <2> QED
    BY <2>1, <2>2, <2>3, <2>4
<1>2. plans' = [plans EXCEPT ![i].set = "RESERVED", ![i].age = a]
  BY DEF reserve
<1> HIDE DEF a
<1>3. plans[i] \in PlanRows
  BY PlanFacts
<1> DEFINE row == [plans[i] EXCEPT !.set = "RESERVED", !.age = a]
<1>4. row \in PlanRows /\ row.node = plans[i].node /\ row.set = "RESERVED" /\ row.age = a
  BY <1>1, <1>3 DEF PlanRows, SetStates
<1>5. plans' = [plans EXCEPT ![i] = row]
  BY <1>2, <1>3, PlanFacts
<1> HIDE DEF row
<1> QED
  BY <1>1, <1>4, <1>5

\* A plan whose reservation lapsed gets another, and is then the newest.
LEMMA Reacquired ==
  ASSUME IndividualInv, NEW p \in Payments, NEW i \in 1..Len(plans), reacquireForCapture(p, i)
  PROVE  IndividualInv'
<1>1. PICK row \in PlanRows :
        /\ plans' = [plans EXCEPT ![i] = row] /\ row.node = plans[i].node
        /\ row.set = "RESERVED" /\ row.age # 0 /\ row.age <= Len(plans) + 1
  BY ReserveRow DEF reacquireForCapture
<1>2. orderStatus \in {"DRAFT", "QUOTED"}
  BY OpenPayment DEF reacquireForCapture, mayReacquire
<1>3. plans[i].set # "HELD" /\ UNCHANGED <<orderStatus, contact, payments>>
  BY DEF reacquireForCapture, planUnused
<1> QED
  BY <1>1, <1>2, <1>3, PlanMoves

\* A payment that is not live moves on, or an open one fails or becomes pending.
LEMMA PaymentMoves ==
  ASSUME IndividualInv, NEW p \in Payments, NEW s \in PaymentStates \ {"NONE", "CAPTURED"},
         payments[p].status \notin {"NONE", "CAPTURED"},
         s \in LiveStatuses => payments[p].status \in LiveStatuses,
         payments' = [payments EXCEPT ![p].status = s],
         UNCHANGED <<orderStatus, contact, plans>>
  PROVE  IndividualInv'
<1>1. payments \in [Payments -> PaymentRows]
  BY DEF IndividualInv, IndividualTyped
<1>2. payments[p] \in PaymentRows
  BY <1>1
<1>3. /\ payments' \in [Payments -> PaymentRows]
      /\ payments'[p].status = s /\ payments'[p].plan = payments[p].plan
      /\ payments'[p].contact = payments[p].contact
      /\ \A q \in Payments \ {p} : payments'[q] = payments[q]
  BY <1>1, <1>2 DEF PaymentRows
<1>4. IndividualTyped'
  BY <1>3 DEF IndividualInv, IndividualTyped
<1>5. PlansAged' /\ OneNode'
  BY DEF IndividualInv, PlansAged, OneNode
<1>6. \A q \in Payments :
        /\ payments'[q].plan = payments[q].plan /\ payments'[q].contact = payments[q].contact
        /\ payments'[q].status = "NONE" <=> payments[q].status = "NONE"
        /\ payments'[q].status = "CAPTURED" <=> payments[q].status = "CAPTURED"
        /\ payments'[q].status \in LiveStatuses => payments[q].status \in LiveStatuses
  BY <1>3
<1>7. PaymentsExclusive'
  BY <1>6 DEF IndividualInv, PaymentsExclusive
<1>8. StatusHolds'
  <2>1. liveInitialPayment' => liveInitialPayment
    BY <1>6 DEF liveInitialPayment
  <2>2. \A i \in 1..Len(plans) : Taken(i)' = Taken(i)
    BY DEF Taken
  <2>3. (\E q \in Payments : payments'[q].status = "CAPTURED")
          <=> (\E q \in Payments : payments[q].status = "CAPTURED")
    BY <1>6
  <2> QED
    BY <2>1, <2>2, <2>3 DEF IndividualInv, StatusHolds
<1> QED
  BY <1>4, <1>5, <1>7, <1>8 DEF IndividualInv

\* taven_close_initial_checkout_payment leaves nothing taken and no live payment.
LEMMA PaymentCloses ==
  ASSUME IndividualInv, NEW p \in Payments, NEW s \in {"VOIDED", "REFUND_PENDING"},
         NEW o \in {"CANCELLED", "EXPIRED"}, Open(p), closePayment(p, s, o)
  PROVE  IndividualInv'
<1>1. payments \in [Payments -> PaymentRows] /\ payments[p] \in PaymentRows
  BY DEF IndividualInv, IndividualTyped
<1>2. /\ payments' \in [Payments -> PaymentRows]
      /\ payments'[p].status = s /\ payments'[p].plan = payments[p].plan
      /\ payments'[p].contact = payments[p].contact
      /\ \A q \in Payments \ {p} : payments'[q] = payments[q]
  BY <1>1 DEF PaymentRows, PaymentStates, closePayment
<1> DEFINE row(i) == [plans[i] EXCEPT !.set = IF @ \in Reserved \cup {"HELD"} THEN "RELEASED" ELSE @]
<1>3. \A i \in 1..Len(plans) :
        /\ row(i) \in PlanRows /\ row(i).node = plans[i].node /\ row(i).age = plans[i].age
        /\ row(i).set = IF Taken(i) THEN "RELEASED" ELSE plans[i].set
  <2>1. ASSUME NEW i \in 1..Len(plans)
        PROVE  /\ row(i) \in PlanRows /\ row(i).node = plans[i].node /\ row(i).age = plans[i].age
               /\ row(i).set = IF Taken(i) THEN "RELEASED" ELSE plans[i].set
    <3>1. plans[i] \in PlanRows
      BY PlanFacts
    <3> QED
      BY <3>1 DEF PlanRows, SetStates, Taken
  <2> QED
    BY <2>1
<1>4. plans' = [i \in 1..Len(plans) |-> row(i)]
  BY PlanFacts DEF closePayment
<1> HIDE DEF row
<1>5. plans' \in Seq(PlanRows) /\ Len(plans') = Len(plans)
      /\ \A i \in 1..Len(plans) : plans'[i] = row(i)
  BY <1>3, <1>4, PlanFacts
<1>6. /\ orderStatus' \in {"DRAFT", "QUOTED", "CONFIRMED", "CANCELLED", "EXPIRED"}
      /\ orderStatus' # "CONFIRMED" /\ contact' = contact
  BY OpenPayment DEF closePayment
<1>7. IndividualTyped'
  BY <1>2, <1>5, <1>6 DEF IndividualInv, IndividualTyped
<1>8. PlansAged'
  BY <1>3, <1>5 DEF IndividualInv, PlansAged, Taken, Reserved
<1>9. OneNode'
  BY <1>3, <1>5 DEF IndividualInv, OneNode
<1>10. \A q \in Payments :
         /\ payments'[q].plan = payments[q].plan /\ payments'[q].contact = payments[q].contact
         /\ payments'[q].status = "NONE" <=> payments[q].status = "NONE"
         /\ payments'[q].status \notin LiveStatuses
  <2>1. s \notin LiveStatuses /\ s # "NONE" /\ payments[p].status # "NONE"
    BY DEF LiveStatuses, Open
  <2>2. \A q \in Payments \ {p} : payments[q].status \notin LiveStatuses
    BY OpenPayment
  <2> QED
    BY <1>2, <2>1, <2>2
<1>11. PaymentsExclusive'
  BY <1>3, <1>5, <1>6, <1>10 DEF IndividualInv, PaymentsExclusive
<1>12. StatusHolds'
  <2>1. \A i \in 1..Len(plans') : ~Taken(i)'
    BY <1>3, <1>5 DEF Taken, Reserved
  <2>2. ~liveInitialPayment' /\ ~\E q \in Payments : payments'[q].status = "CAPTURED"
    BY <1>10 DEF liveInitialPayment, LiveStatuses
  <2> QED
    BY <1>6, <2>1, <2>2 DEF StatusHolds
<1> QED
  BY <1>7, <1>8, <1>9, <1>11, <1>12 DEF IndividualInv

\* The payment of a staged checkout is the only live one, on a plan no payment had.
LEMMA PaymentStaged ==
  ASSUME IndividualInv, NEW p \in Payments, stageInitialPayment(p)
  PROVE  IndividualInv'
<1>1. PICK i \in 1..Len(plans) :
        /\ newestPlan(i) /\ reserve(i)
        /\ payments' = [payments EXCEPT ![p] = [status |-> "CREATED", plan |-> i,
                                                contact |-> contact]]
  BY PlanFacts DEF stageInitialPayment
<1>2. PICK row \in PlanRows :
        /\ plans' = [plans EXCEPT ![i] = row] /\ row.node = plans[i].node
        /\ row.set = "RESERVED" /\ row.age # 0 /\ row.age <= Len(plans) + 1
  BY <1>1, ReserveRow
<1>3. /\ plans' \in Seq(PlanRows) /\ Len(plans') = Len(plans) /\ plans'[i] = row
      /\ \A j \in 1..Len(plans) \ {i} : plans'[j] = plans[j]
      /\ PlansAged' /\ OneNode'
  BY <1>2, PlanReplaced
<1>4. /\ payments[p].status = "NONE" /\ orderStatus = "QUOTED" /\ ~liveInitialPayment
      /\ orderStatus' = "QUOTED" /\ contact' = contact
  BY DEF stageInitialPayment, noActivePayment
<1>5. plans[i].age = 0
  BY <1>1 DEF newestPlan, planUnused, IndividualInv, PlansAged
<1>6. /\ payments' \in [Payments -> PaymentRows]
      /\ payments'[p].status = "CREATED" /\ payments'[p].plan = i /\ payments'[p].contact = contact
      /\ \A q \in Payments \ {p} : payments'[q] = payments[q]
  <2>1. [status |-> "CREATED", plan |-> i, contact |-> contact] \in PaymentRows
    BY DEF PaymentRows, PaymentStates, IndividualInv, IndividualTyped
  <2> QED
    BY <1>1, <2>1 DEF IndividualInv, IndividualTyped
<1>7. IndividualTyped'
  BY <1>3, <1>4, <1>6 DEF IndividualInv, IndividualTyped
<1>8. \A q \in Payments \ {p} : payments'[q].plan # i /\ payments'[q].status \notin LiveStatuses
  BY <1>4, <1>5, <1>6 DEF IndividualInv, PaymentsExclusive, liveInitialPayment
<1>9. \A j \in 1..Len(plans) : plans[j].age # 0 => plans'[j].age # 0
  BY <1>3, <1>5
<1>10. PaymentsExclusive'
  <2>1. ASSUME NEW q \in Payments
        PROVE  /\ payments'[q].status = "NONE" <=> payments'[q].plan = 0
               /\ payments'[q].plan # 0 => /\ payments'[q].plan \in 1..Len(plans')
                                           /\ plans'[payments'[q].plan].age # 0
                                           /\ payments'[q].contact = contact'
    <3>1. CASE q = p
      BY <1>2, <1>3, <1>4, <1>6, <3>1
    <3>2. CASE q # p
      BY <1>3, <1>4, <1>6, <1>9, <3>2 DEF IndividualInv, PaymentsExclusive
    <3> QED
      BY <3>1, <3>2
  <2>2. ASSUME NEW q \in Payments, NEW r \in Payments
        PROVE  /\ payments'[q].status \in LiveStatuses /\ payments'[r].status \in LiveStatuses => q = r
               /\ payments'[q].plan # 0 /\ payments'[q].plan = payments'[r].plan => q = r
    <3>1. CASE q = p \/ r = p
      BY <1>6, <1>8, <3>1
    <3>2. CASE q # p /\ r # p
      BY <1>6, <3>2 DEF IndividualInv, PaymentsExclusive
    <3> QED
      BY <3>1, <3>2
  <2> QED
    BY <2>1, <2>2 DEF PaymentsExclusive
<1>11. StatusHolds'
  <2>1. \A q \in Payments : payments'[q].status # "CAPTURED"
    BY <1>6, <1>8 DEF LiveStatuses
  <2> QED
    BY <1>4, <2>1 DEF StatusHolds
<1> QED
  BY <1>3, <1>7, <1>10, <1>11 DEF IndividualInv

\* A capture holds the one set that is reserved.
LEMMA PaymentCaptured ==
  ASSUME IndividualInv, NEW p \in Payments, initialPaymentCaptured(p)
  PROVE  IndividualInv'
<1>1. ReservedSets # {} /\ activeSet = newestOf(ReservedSets) /\ plans[activeSet].set = "RESERVED"
  BY DEF initialPaymentCaptured, activeSetLive, activeSet
<1>2. ReservedSets \in SUBSET (1..Len(plans))
  BY PlanFacts DEF ReservedSets
<1>3. PICK i \in 1..Len(plans) : i = activeSet
  BY <1>1, <1>2, NewestExists
<1> DEFINE row == [plans[i] EXCEPT !.set = "HELD"]
<1>4. plans[i] \in PlanRows
  BY PlanFacts
<1>5. row \in PlanRows /\ row.node = plans[i].node /\ row.set = "HELD" /\ row.age = plans[i].age
  BY <1>4 DEF PlanRows, SetStates
<1>6. plans' = [plans EXCEPT ![i] = row]
  BY <1>3, PlanFacts DEF initialPaymentCaptured
<1> HIDE DEF row
<1>7. plans[i].age # 0 /\ plans[i].age <= Len(plans) + 1
  BY <1>1, <1>3 DEF IndividualInv, PlansAged
<1>8. /\ plans' \in Seq(PlanRows) /\ Len(plans') = Len(plans) /\ plans'[i] = row
      /\ \A j \in 1..Len(plans) \ {i} : plans'[j] = plans[j]
      /\ PlansAged' /\ OneNode'
  BY <1>5, <1>6, <1>7, PlanReplaced
<1>9. Open(p) /\ orderStatus' = "CONFIRMED" /\ contact' = contact
  BY DEF initialPaymentCaptured
<1>10. payments \in [Payments -> PaymentRows] /\ payments[p] \in PaymentRows
  BY DEF IndividualInv, IndividualTyped
<1>11. /\ payments' \in [Payments -> PaymentRows]
       /\ payments'[p].status = "CAPTURED" /\ payments'[p].plan = payments[p].plan
       /\ payments'[p].contact = payments[p].contact
       /\ \A q \in Payments \ {p} : payments'[q] = payments[q]
  BY <1>10 DEF PaymentRows, PaymentStates, initialPaymentCaptured
<1>12. IndividualTyped'
  BY <1>8, <1>9, <1>11 DEF IndividualInv, IndividualTyped
<1>13. \A q \in Payments :
         /\ payments'[q].plan = payments[q].plan /\ payments'[q].contact = payments[q].contact
         /\ payments'[q].status = "NONE" <=> payments[q].status = "NONE"
         /\ payments'[q].status \in LiveStatuses => payments[q].status \in LiveStatuses
  BY <1>9, <1>11 DEF Open, LiveStatuses
<1>14. \A j \in 1..Len(plans) : plans'[j].age = plans[j].age
  BY <1>5, <1>8
<1>15. PaymentsExclusive'
  BY <1>8, <1>9, <1>13, <1>14 DEF IndividualInv, PaymentsExclusive
<1>16. StatusHolds'
  <2>1. \A j \in 1..Len(plans) : Taken(j)' => j = i
    <3>1. \A j \in 1..Len(plans) : Taken(j) => j = i
      BY <1>3, PlanFacts DEF initialPaymentCaptured, holdAlone, Taken
    <3> QED
      BY <1>8, <3>1 DEF Taken
  <2> QED
    BY <1>5, <1>8, <1>9, <1>11, <2>1 DEF StatusHolds
<1> QED
  BY <1>8, <1>12, <1>15, <1>16 DEF IndividualInv

\* Nothing the invariant is about changes, or only what an order waiting for its
\* payment may change.
LEMMA OrderAwaits ==
  ASSUME IndividualInv, Awaiting, orderStatus' \in {"DRAFT", "QUOTED"},
         contact' \subseteq Contacts,
         contact' = contact \/ \A p \in Payments : payments[p].status = "NONE",
         UNCHANGED <<plans, payments>>
  PROVE  IndividualInv'
<1>1. IndividualTyped' /\ PlansAged' /\ OneNode'
  BY DEF IndividualInv, IndividualTyped, PlansAged, OneNode
<1>2. PaymentsExclusive'
  BY DEF IndividualInv, PaymentsExclusive
<1>3. StatusHolds'
  BY DEF IndividualInv, StatusHolds, Awaiting
<1> QED
  BY <1>1, <1>2, <1>3 DEF IndividualInv
\* What a step that does not write the order keeps.
LEMMA OrderUntouched ==
  ASSUME IndividualInv, UNCHANGED <<orderStatus, contact, plans, payments>>
  PROVE  IndividualInv'
BY DEF IndividualInv, IndividualTyped, PlansAged, OneNode, PaymentsExclusive, StatusHolds, Taken,
       liveInitialPayment

\* Every step of a customer, an operator, a provider or time keeps it.
LEMMA IndividualStep == ASSUME IndividualInv, [IndividualNext]_individualVars PROVE IndividualInv'
<1>1. CASE UNCHANGED individualVars
  BY <1>1, OrderUntouched DEF individualVars
<1>2. ASSUME NEW n \in Nodes, prepareReads(n) \/ prepareWithoutPlan(n) PROVE IndividualInv'
  BY <1>2, OrderUntouched DEF prepareReads, prepareWithoutPlan
<1>3. ASSUME NEW n \in Nodes, prepareWithPlan(n) PROVE IndividualInv'
  <2>1. \A i \in 1..Len(plans) : plans[i].node = n
    BY <1>3, PlanFacts DEF prepareWithPlan, exclusiveOrderNode, scopedElsewhere
  <2>2. plans' = Append(plans, newPlan(n)) /\ UNCHANGED <<orderStatus, contact, payments>>
    BY <1>3 DEF prepareWithPlan
  <2> QED
    BY <2>1, <2>2, PlanAdded
<1>4. ASSUME NEW n \in Nodes, prepareDecides(n) PROVE IndividualInv'
  <2>1. UNCHANGED <<contact, plans, payments>>
    BY <1>4 DEF prepareDecides
  <2>2. orderStatus' = orderStatus \/ (Awaiting /\ orderStatus' = "QUOTED")
    BY <1>4 DEF prepareDecides
  <2>3. contact \subseteq Contacts
    BY DEF IndividualInv, IndividualTyped
  <2> QED
    BY <2>1, <2>2, <2>3, OrderUntouched, OrderAwaits
<1>5. ASSUME NEW c \in Contacts, recordOfferCheckoutContact(c) PROVE IndividualInv'
  <2>1. /\ \A p \in Payments : payments[p].status = "NONE"
        /\ Awaiting /\ contact' = {c} /\ UNCHANGED <<orderStatus, plans, payments>>
    BY <1>5 DEF recordOfferCheckoutContact
  <2> QED
    BY <2>1, OrderAwaits DEF Awaiting
<1>6. ASSUME NEW p \in Payments,
             \/ finalizeInitialPayment(p) \/ initialIntentFails(p)
             \/ initialPaymentFails(p) \/ lateCaptureCompensated(p)
      PROVE  IndividualInv'
  <2>1. PICK s \in PaymentStates \ {"NONE", "CAPTURED"} :
          /\ payments[p].status \notin {"NONE", "CAPTURED"}
          /\ s \in LiveStatuses => payments[p].status \in LiveStatuses
          /\ payments' = [payments EXCEPT ![p].status = s]
          /\ UNCHANGED <<orderStatus, contact, plans>>
    <3>1. CASE finalizeInitialPayment(p)
      BY <3>1 DEF finalizeInitialPayment, PaymentStates, LiveStatuses
    <3>2. CASE initialIntentFails(p)
      BY <3>2 DEF initialIntentFails, PaymentStates, LiveStatuses
    <3>3. CASE initialPaymentFails(p)
      BY <3>3 DEF initialPaymentFails, PaymentStates, LiveStatuses
    <3>4. CASE lateCaptureCompensated(p)
      BY <3>4 DEF lateCaptureCompensated, PaymentStates, LiveStatuses
    <3> QED
      BY <1>6, <3>1, <3>2, <3>3, <3>4
  <2> QED
    BY <2>1, PaymentMoves
<1>7. ASSUME NEW p \in Payments, initialPaymentVoided(p) \/ initialPaymentCompensated(p)
      PROVE  IndividualInv'
  <2>1. Open(p) /\ \E s \in {"VOIDED", "REFUND_PENDING"}, o \in {"CANCELLED", "EXPIRED"} :
          closePayment(p, s, o)
    BY <1>7 DEF initialPaymentVoided, initialPaymentCompensated
  <2> QED
    BY <2>1, PaymentCloses
<1>8. ASSUME NEW p \in Payments, releaseBeforeCapture(p) PROVE IndividualInv'
  <2>1. PICK i \in 1..Len(plans) : i = previousSet
    BY <1>8, OpenPayment DEF releaseBeforeCapture, mayReacquire
  <2>2. /\ plans[i].set = "LAPSED" /\ plans' = [plans EXCEPT ![i].set = "RELEASED"]
        /\ UNCHANGED <<orderStatus, contact, payments>>
    BY <1>8, <2>1 DEF releaseBeforeCapture
  <2> QED
    BY <2>2, SetMoves DEF Reserved
<1>9. ASSUME NEW p \in Payments, reacquirePlan(p) PROVE IndividualInv'
  <2>1. PICK i \in 1..Len(plans) : i = previousSet
    BY <1>9, OpenPayment DEF reacquirePlan, mayReacquire
  <2>2. plans[i] \in PlanRows
    BY PlanFacts
  <2>3. PICK n \in Nodes : n = plans[i].node
    BY <2>2 DEF PlanRows
  <2>4. \A j \in 1..Len(plans) : plans[j].node = n
    BY <2>3 DEF IndividualInv, OneNode
  <2>5. plans' = Append(plans, newPlan(n)) /\ UNCHANGED <<orderStatus, contact, payments>>
    BY <1>9, <2>1, <2>3 DEF reacquirePlan
  <2> QED
    BY <2>4, <2>5, PlanAdded
<1>10. ASSUME NEW i \in DOMAIN plans, planAges(i) \/ reservationLapses(i) \/ reservationExpires(i)
       PROVE  IndividualInv'
  <2>1. i \in 1..Len(plans)
    BY PlanFacts
  <2>2. CASE reservationLapses(i)
    <3>1. /\ plans[i].set \in Reserved /\ plans' = [plans EXCEPT ![i].set = "LAPSED"]
          /\ UNCHANGED <<orderStatus, contact, payments>>
      BY <2>2 DEF reservationLapses, Reserved
    <3> QED
      BY <2>1, <3>1, SetMoves
  <2>3. CASE reservationExpires(i)
    <3>1. /\ plans[i].set \in Reserved /\ plans' = [plans EXCEPT ![i].set = "EXPIRED"]
          /\ UNCHANGED <<orderStatus, contact, payments>>
      BY <2>3 DEF reservationExpires, Reserved
    <3> QED
      BY <2>1, <3>1, SetMoves
  <2> QED
    BY <1>10, <2>1, <2>2, <2>3, PlanAges
<1>11. ASSUME NEW p \in Payments, NEW i \in DOMAIN plans, reacquireForCapture(p, i)
       PROVE  IndividualInv'
  BY <1>11, Reacquired, PlanFacts
<1> QED
  BY <1>1, <1>2, <1>3, <1>4, <1>5, <1>6, <1>7, <1>8, <1>9, <1>10, <1>11, PaymentStaged,
     PaymentCaptured DEF IndividualNext

\* An individual order is prepared by one node only, has at most one open or captured
\* first payment, on a plan no other payment was given and with the contact the order
\* has, and is confirmed exactly when that payment is captured, then holding one
\* reservation set and taking no other; however the prepare calls of the nodes, the
\* payment webhooks, the reacquisition before a capture and the expiry worker interleave.
THEOREM IndividualOrdersAreSound == IndividualSpec => []IndividualSound
<1>1. IndividualInit => IndividualInv
  BY IndividualStarts
<1>2. IndividualInv /\ [IndividualNext]_individualVars => IndividualInv'
  BY IndividualStep
<1>3. IndividualInv => IndividualSound
  BY InvariantGivesIndividual
<1> QED
  BY <1>1, <1>2, <1>3, PTL DEF IndividualSpec

=============================================================================
