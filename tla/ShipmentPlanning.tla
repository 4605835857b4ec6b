--------------------------- MODULE ShipmentPlanning ---------------------------
(***************************************************************************)
(* How packing units are put into parcels: planShipment of                 *)
(* packages/core/src/pricing/shipment-plan.ts.  Units are taken longest    *)
(* first; each goes into the first parcel that still admits it, stacked    *)
(* along one axis, or opens a parcel of the first category that fits.  A   *)
(* box is <<x, y, z>>; lengths, weights and volumes are small numbers.     *)
(***************************************************************************)
EXTENDS Integers, SequencesExt

CONSTANTS
  FillNumerator, FillDenominator,   \* fill coefficient of a parcel
  PackagingWeight                   \* weight of an empty parcel

ASSUME FillAssumption ==
  /\ FillNumerator \in Nat \ {0} /\ FillDenominator \in Nat
  /\ FillNumerator <= FillDenominator
  /\ PackagingWeight \in Nat

Axes == 1..3

ceilDivide(n, d) == (n + d - 1) \div d
SumOver(S, f(_)) == FoldSet(LAMBDA x, sum : sum + f(x), 0, S)
volume(b) == b[1] * b[2] * b[3]
longest(b) == Max({b[i] : i \in Axes})
lexLess(a, b) == \E i \in DOMAIN a : a[i] < b[i] /\ \A j \in 1..(i - 1) : a[j] = b[j]

rotations(b) ==
  {<<b[i], b[j], b[6 - i - j]>> : <<i, j>> \in {p \in Axes \X Axes : p[1] # p[2]}}

\* The parcel grows along the axis and covers the larger box across it.
placedBox(current, candidate, axis) ==
  [i \in Axes |-> IF i = axis THEN current[i] + candidate[i]
                  ELSE Max({current[i], candidate[i]})]

fits(category, box, weight, proxy) ==
  /\ \A i \in Axes : box[i] <= category.max[i]
  /\ box[1] + box[2] + box[3] <= category.maxSum
  /\ weight <= category.maxWeight
  /\ proxy <= category.maxVolume

volumeProxy(raw) == ceilDivide(raw * FillDenominator, FillNumerator)

\* The ways a unit can be added to a parcel, or start one (no placements yet).
candidatesFor(category, parcel, unit) ==
  LET empty == parcel.placements = <<>>
      raw == SumOver(DOMAIN parcel.placements, LAMBDA i : volume(parcel.placements[i].oriented))
      candidate(o, axis) ==
        [box |-> IF empty THEN o ELSE placedBox(parcel.box, o, axis),
         oriented |-> o, axis |-> axis,
         origin |-> [i \in Axes |-> IF ~empty /\ i = axis THEN parcel.box[i] ELSE 0],
         proxy |-> volumeProxy(raw + volume(o)),
         weight |-> parcel.weight + unit.weight]
  IN  {c \in {candidate(o, axis) : o \in rotations(unit.box),
                                   axis \in IF empty THEN {1} ELSE Axes} :
         fits(category, c.box, c.weight, c.proxy)}

candidateKey(c) ==
  <<volume(c.box), longest(c.box)>> \o c.box \o c.oriented \o <<c.axis>>
firstCandidate(C) == CHOOSE c \in C : \A d \in C \ {c} : lexLess(candidateKey(c), candidateKey(d))

addTo(parcel, unit, c) ==
  [parcel EXCEPT !.box = c.box, !.proxy = c.proxy, !.weight = c.weight,
     !.placements = Append(@, [unit |-> unit.id, oriented |-> c.oriented, origin |-> c.origin])]
emptyParcel(category) ==
  [category |-> category, box |-> <<0, 0, 0>>, proxy |-> 0, weight |-> PackagingWeight,
   placements |-> <<>>]

\* sort: the longest first, then the largest, then by key
sortedUnits(units) ==
  SetToSortSeq(units, LAMBDA a, b :
    lexLess(<<-longest(a.box), -volume(a.box), a.id>>, <<-longest(b.box), -volume(b.box), b.id>>))

\* `categories` is a sequence of those the destination supports.
planUnit(categories, state, unit) ==
  LET open == {i \in DOMAIN state.parcels :
                 candidatesFor(categories[state.parcels[i].category], state.parcels[i], unit) # {}}
      new == {k \in DOMAIN categories : candidatesFor(categories[k], emptyParcel(k), unit) # {}}
      into(parcel) ==
        addTo(parcel, unit, firstCandidate(candidatesFor(categories[parcel.category], parcel, unit)))
  IN  CASE state.noFit # {} -> state
        [] state.noFit = {} /\ open # {} ->
             [state EXCEPT !.parcels[Min(open)] = into(@)]
        [] state.noFit = {} /\ open = {} /\ new # {} ->
             [state EXCEPT !.parcels = Append(@, into(emptyParcel(Min(new))))]
        [] OTHER -> [state EXCEPT !.noFit = {unit.id}]

planShipment(categories, units) ==
  FoldLeft(LAMBDA state, unit : planUnit(categories, state, unit),
           [parcels |-> <<>>, noFit |-> {}], sortedUnits(units))

expandShipmentBox(box, reserve) == [i \in Axes |-> box[i] + 2 * reserve]

(***************************************************************************)
(* What a plan has to be.                                                  *)
(***************************************************************************)
placementsApart(p, q) ==
  \E i \in Axes : \/ p.origin[i] + p.oriented[i] <= q.origin[i]
                  \/ q.origin[i] + q.oriented[i] <= p.origin[i]

SoundParcel(categories, units, parcel) ==
  LET unitOf(n) == CHOOSE u \in units : u.id = parcel.placements[n].unit
      inside == DOMAIN parcel.placements
  IN  /\ fits(categories[parcel.category], parcel.box, parcel.weight, parcel.proxy)
      /\ parcel.weight = PackagingWeight + SumOver(inside, LAMBDA n : unitOf(n).weight)
      /\ parcel.proxy * FillNumerator
           >= FillDenominator * SumOver(inside, LAMBDA n : volume(unitOf(n).box))
      /\ \A n \in inside :
           /\ parcel.placements[n].oriented \in rotations(unitOf(n).box)
           /\ \A i \in Axes :
                parcel.placements[n].origin[i] + parcel.placements[n].oriented[i] <= parcel.box[i]
           /\ \A m \in inside \ {n} : placementsApart(parcel.placements[n], parcel.placements[m])

\* Every unit lies in exactly one parcel, or one is named that no category takes.
SoundPlan(categories, units, plan) ==
  IF plan.noFit = {}
    THEN /\ \A u \in units :
              Cardinality({<<i, n>> \in (DOMAIN plan.parcels) \X (1..Cardinality(units)) :
                             /\ n \in DOMAIN plan.parcels[i].placements
                             /\ plan.parcels[i].placements[n].unit = u.id}) = 1
         /\ \A i \in DOMAIN plan.parcels : SoundParcel(categories, units, plan.parcels[i])
    ELSE \E u \in units :
           /\ plan.noFit = {u.id}
           /\ \A k \in DOMAIN categories, o \in rotations(u.box) :
                ~fits(categories[k], o, PackagingWeight + u.weight, volumeProxy(volume(o)))
===============================================================================
