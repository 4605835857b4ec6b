------------------------------- MODULE Pricing -------------------------------
(***************************************************************************)
(* How an order is priced: packages/core/src/pricing, and the preparation  *)
(* of an automatic quote that calls it (automatic-quote-pricing.ts).  All  *)
(* amounts are whole minor units; a rate is a fraction [n, d]; Basis is    *)
(* the 10 000 basis points of the code.  An id that the code compares as   *)
(* text is a number here.                                                  *)
(***************************************************************************)
EXTENDS ShipmentPlanning

CONSTANTS
  Basis,             \* SHARE_BASIS_POINTS and BASIS_POINTS
  MaxCandidates,     \* MAX_EXACT_GROSS_UP_CANDIDATES
  Subtotals, Schedules, VatRates,   \* questions about the gross-up
  PriceLists, Orders, Destinations  \* questions about a whole quote

ASSUME BasisAssumption == Basis \in Nat \ {0} /\ MaxCandidates \in Nat

VARIABLES
  priceStep,         \* how far the question is
  priceQuestion,     \* what was asked
  priceWork,         \* what the calculation has found so far
  priceAnswer

pricingVars == <<priceStep, priceQuestion, priceWork, priceAnswer>>

Refused == [kind |-> "REFUSED"]
NoDestination == [kind |-> "NONE"]
NoPlan == [parcels |-> <<>>, noFit |-> {}]

(***************************************************************************)
(* Arithmetic, tax and exact allocation.                                   *)
(***************************************************************************)
timesCeil(q, r) == ceilDivide(q * r.n, r.d)
halfUp(n, d) == (n \div d) + IF 2 * (n % d) >= d THEN 1 ELSE 0
vatFromNet(net, rate) == halfUp(net * rate, Basis)
vatFromGross(gross, rate) == halfUp(gross * rate, Basis + rate)
addMargin(cost, margin) == ceilDivide(cost * (margin.d + margin.n), margin.d)
maximum(a, b) == IF a >= b THEN a ELSE b
differenceOrZero(a, b) == IF a > b THEN a - b ELSE 0

\* The largest remainder method; an all-zero basis is an equal split.
allocateMoney(amount, basis) ==
  LET T == DOMAIN basis
      total == SumOver(T, LAMBDA t : basis[t])
      denominator == IF total = 0 THEN Cardinality(T) ELSE total
      numerator(t) == IF total = 0 THEN amount ELSE amount * basis[t]
      share(t) == numerator(t) \div denominator
      left(t) == numerator(t) % denominator
      before(t) == {u \in T : left(u) > left(t) \/ (left(u) = left(t) /\ u < t)}
      unallocated == amount - SumOver(T, share)
  IN  [t \in T |-> share(t) + IF Cardinality(before(t)) < unallocated THEN 1 ELSE 0]

(***************************************************************************)
(* grossUpPaymentSchedule.  A schedule is <<full>> or <<deposit, balance>>.*)
(***************************************************************************)
validateSchedule(s) ==
  /\ Len(s) \in 1..2
  /\ \A i \in DOMAIN s : s[i].share > 0 /\ s[i].rate < Basis
  /\ SumOver(DOMAIN s, LAMBDA i : s[i].share) = Basis

allocateGrossMinor(total, s) == allocateMoney(total, [i \in DOMAIN s |-> s[i].share])
feeOf(capture, gross) == ceilDivide(gross * capture.rate, Basis) + capture.fixed
evaluateTotal(total, s) ==
  LET gross == allocateGrossMinor(total, s)
  IN  [i \in DOMAIN s |-> [gross |-> gross[i], fee |-> feeOf(s[i], gross[i])]]
feesOf(captures) == SumOver(DOMAIN captures, LAMBDA i : captures[i].fee)

satisfies(subtotal, total, s, vat) ==
  LET captures == evaluateTotal(total, s)
      net == total - vatFromGross(total, vat)
  IN  /\ \A i \in DOMAIN s : captures[i].gross > 0
      /\ net - feesOf(captures) >= subtotal

slopeNumerator(s, vat) ==
  Basis * Basis * Basis
    - (Basis + vat) * SumOver(DOMAIN s, LAMBDA i : s[i].share * s[i].rate)

\* Mutant: the fee of each capture is taken to be rounded at most half a unit.
rangeHalfUnit(subtotal, s, vat) ==
  LET slopeDenominator == (Basis + vat) * Basis * Basis
      rates == SumOver(DOMAIN s, LAMBDA i : s[i].rate)
      target == 2 * Basis * (subtotal + SumOver(DOMAIN s, LAMBDA i : s[i].fixed))
      reach(t) == ceilDivide(slopeDenominator * t, slopeNumerator(s, vat) * 2 * Basis)
      first == target + Basis
  IN  [first |-> IF first <= 0 THEN 0 ELSE reach(first),
       guaranteed |-> Max({reach(target + Basis + 2 * Len(s) * Basis + 2 * rates)}
                          \cup {ceilDivide(Basis, s[i].share) : i \in DOMAIN s})]
\* The rational envelope of the rounding errors.
candidateRange(subtotal, s, vat) ==
  LET slopeDenominator == (Basis + vat) * Basis * Basis
      rates == SumOver(DOMAIN s, LAMBDA i : s[i].rate)
      target == 2 * Basis * (subtotal + SumOver(DOMAIN s, LAMBDA i : s[i].fixed))
      reach(t) == ceilDivide(slopeDenominator * t, slopeNumerator(s, vat) * 2 * Basis)
      first == target - (Basis + 2 * rates)
  IN  [first |-> IF first <= 0 THEN 0 ELSE reach(first),
       guaranteed |-> Max({reach(target + Basis + 2 * Len(s) * Basis + 2 * rates)}
                          \cup {ceilDivide(Basis, s[i].share) : i \in DOMAIN s})]

searchSize(range) == range.guaranteed - range.first + 1

\* The totals of a range that satisfy every constraint, if the search may be made.
coveringTotals(range, subtotal, s, vat) ==
  {t \in range.first..range.guaranteed :
     searchSize(range) <= MaxCandidates /\ satisfies(subtotal, t, s, vat)}
\* The least of them, with its captures and its VAT.
grossUpPaymentSchedule(subtotal, s, vat) ==
  LET found == IF validateSchedule(s) /\ slopeNumerator(s, vat) > 0
                 THEN coveringTotals(candidateRange(subtotal, s, vat), subtotal, s, vat) ELSE {}
      charged(total) == [total |-> total, captures |-> evaluateTotal(total, s),
                         vat |-> vatFromGross(total, vat)]
  IN  IF found = {} THEN Refused ELSE charged(Min(found))

(***************************************************************************)
(* calculateOrderPrice.  An item is [metrics: base and quantityEffect,     *)
(* postprocessing, rate of its material, units -> basis]; a parcel is      *)
(* [units, carrier, rate, packaging].  Component ids are numbers in the    *)
(* order of the texts the code compares.                                   *)
(***************************************************************************)
Postprocessing(i) == 10 * i
Production(i) == 10 * i + 1
Quantity(i) == 10 * i + 2
Shipment(p) == 1000 + p
MinPrint == 2000
SmallSurcharge == 2001
Express == 2002
PaymentFee == 2003
Vat == 2004

metricCost(item, m, list) ==
  timesCeil(m.weight, item.rate) + timesCeil(m.seconds, list.machine)
    + timesCeil(m.plates * list.plateSeconds + m.pieceSeconds, list.labor)
    + timesCeil(m.seconds, list.amortization)

\* The buckets of direct cost, by component id.
directCosts(items, list) ==
  [b \in {Postprocessing(i) : i \in DOMAIN items} \cup {Production(i) : i \in DOMAIN items}
         \cup {Quantity(i) : i \in DOMAIN items} |->
     LET item == items[b \div 10]
     IN  CASE b % 10 = 0 -> timesCeil(item.postprocessing, list.labor)
           [] b % 10 = 1 -> metricCost(item, item.base, list)
           [] b % 10 = 2 -> metricCost(item, item.quantityEffect, list)]

\* The order's units with the basis of their item.
collectPackingUnits(items) ==
  [u \in UNION {DOMAIN items[i].units : i \in DOMAIN items} |->
     items[CHOOSE i \in DOMAIN items : u \in DOMAIN items[i].units].units[u]]

validateShipment(parcels, units) ==
  /\ parcels # <<>>
  /\ \A p \in DOMAIN parcels : parcels[p].units # {}
  /\ \A p, q \in DOMAIN parcels : p # q => parcels[p].units \cap parcels[q].units = {}
  /\ UNION {parcels[p].units : p \in DOMAIN parcels} = units

perParcelHandling(list) ==
  timesCeil(list.packSeconds, list.labor)
    + timesCeil(list.tripSeconds, [n |-> list.labor.n, d |-> list.labor.d * list.tripDivisor])

\* The price before fees and VAT, with what each part of it comes from.
priceBreakdown(items, parcels, bound, expressRequested, list) ==
  LET direct == directCosts(items, list)
      directTotal == SumOver(DOMAIN direct, LAMBDA b : direct[b])
      shared == timesCeil(list.orderFixedSeconds, list.labor) + Len(parcels) * perParcelHandling(list)
      packaging == SumOver(DOMAIN parcels, LAMBDA p : parcels[p].packaging)
      carrier == SumOver(DOMAIN parcels, LAMBDA p : parcels[p].carrier)
      cost == directTotal + shared + packaging + timesCeil(directTotal, list.reprint)
      shipping == IF bound /\ maximum(list.minimumPrint, addMargin(cost, list.margin)) < list.freeShipping
                    THEN SumOver(DOMAIN parcels, LAMBDA p : parcels[p].rate) ELSE 0
      subsidy == differenceOrZero(carrier, shipping)
      print == addMargin(cost + subsidy, list.margin)
      base == maximum(list.minimumPrint, print)
      express == IF expressRequested
                   THEN ceilDivide(base * (list.express.n - list.express.d), list.express.d) ELSE 0
      weight == SumOver(DOMAIN items,
                        LAMBDA i : items[i].base.weight + items[i].quantityEffect.weight)
      small == IF weight < list.smallThreshold THEN list.smallSurcharge ELSE 0
  IN  [direct |-> direct, shipping |-> shipping, subsidy |-> subsidy, print |-> print,
       topUp |-> base - print, express |-> express, small |-> small,
       subtotal |-> base + express + shipping + small]

\* The print price is spread over the cost that caused it.
pricedBuckets(b, parcels, list) ==
  LET carriers == [p \in DOMAIN parcels |-> parcels[p].carrier]
      subsidies == IF parcels = <<>> THEN <<>> ELSE allocateMoney(b.subsidy, carriers)
      basisOf(id) == IF id < 1000 THEN b.direct[id]
                     ELSE parcels[id - 1000].packaging + perParcelHandling(list) + subsidies[id - 1000]
      positive == {id \in DOMAIN b.direct \cup {Shipment(p) : p \in DOMAIN parcels} : basisOf(id) > 0}
      fallback == {id \in DOMAIN b.direct : id % 10 = 1}
  IN  allocateMoney(b.print, IF positive # {} THEN [id \in positive |-> basisOf(id)]
                             ELSE [id \in fallback |-> 0])

\* What every component is worth and which units it is spread over.
priceComponents(items, parcels, b, units, priced) ==
  LET amountOf(id) == IF id \in DOMAIN priced THEN priced[id] ELSE 0
      over(amount, targets) == [amount |-> amount, targets |-> targets]
  IN  [id \in DOMAIN b.direct |-> over(amountOf(id), items[id \div 10].units)]
      @@ [id \in {Shipment(p) : p \in DOMAIN parcels} |->
            over(amountOf(id) + IF b.shipping = 0 THEN 0 ELSE parcels[id - 1000].rate,
                 [u \in parcels[id - 1000].units |-> units[u]])]
      @@ (MinPrint :> over(b.topUp, units)) @@ (SmallSurcharge :> over(b.small, units))
      @@ (Express :> over(b.express, units))
      @@ (PaymentFee :> over(b.fee, units)) @@ (Vat :> over(b.vat, units))

\* allocatedComponent, of each of them
allocatedComponents(components) ==
  [id \in DOMAIN components |-> allocateMoney(components[id].amount, components[id].targets)]

(***************************************************************************)
(* prepareOrderQuote and its gates.                                        *)
(***************************************************************************)
evaluateExpressEligibility(e) ==
  /\ e.plates <= e.maxPlates /\ e.materialAvailable
  /\ e.window >= e.buffer /\ e.seconds <= e.window - e.buffer

evaluateQuoteGates(f, destination, planned, expressRefused) ==
  IF \/ f.blocking \/ ~f.withinQuantity \/ ~f.withinAmount \/ ~f.withinBuild
     \/ (destination /\ ~planned) \/ expressRefused
    THEN "custom_request"
  ELSE IF ~f.riskAcknowledged \/ ~destination THEN "provisional"
  ELSE "binding_quote"

\* The parcels of a plan with the prices of their categories.
bindingShipmentForPlan(plan, categories) ==
  [p \in DOMAIN plan.parcels |->
     LET c == categories[plan.parcels[p].category]
         placed == plan.parcels[p].placements
     IN  [units |-> {placed[n].unit : n \in DOMAIN placed},
          carrier |-> c.carrier, rate |-> c.rate, packaging |-> c.packaging]]

(***************************************************************************)
(* prepareAutomaticQuote.  An order's item is [quantity, perPlate,         *)
(* primary, tail, rate, box, units]; a price list has the limits too.      *)
(***************************************************************************)
hasTail(i) == i.quantity % i.perPlate > 0 /\ i.quantity > i.perPlate
fullPlates(i) == maximum(1, i.quantity \div i.perPlate)
totalOf(i, what(_)) == what(i.primary) * fullPlates(i) + IF hasTail(i) THEN what(i.tail) ELSE 0

\* The first plate, and what the rest of the quantity adds to it.
productionMetrics(i, list) ==
  LET onFirst == Min({i.quantity, i.perPlate})
      weight(r) == r.weight
      seconds(r) == r.seconds
  IN  [base |-> [weight |-> i.primary.weight, seconds |-> i.primary.seconds, plates |-> 1,
                 pieceSeconds |-> onFirst * list.pieceSeconds],
       quantityEffect |->
         [weight |-> totalOf(i, weight) - i.primary.weight,
          seconds |-> totalOf(i, seconds) - i.primary.seconds,
          plates |-> fullPlates(i) + (IF hasTail(i) THEN 1 ELSE 0) - 1,
          pieceSeconds |-> (i.quantity - onFirst) * list.pieceSeconds]]
perUnitWeight(i) == ceilDivide(totalOf(i, LAMBDA r : r.weight), i.quantity)

pricingItem(i, list) ==
  LET m == productionMetrics(i, list)
  IN  [base |-> m.base, quantityEffect |-> m.quantityEffect, postprocessing |-> 0,
       rate |-> i.rate, units |-> [u \in i.units |-> perUnitWeight(i) + 1]]

plannerUnits(items, list) ==
  UNION {{[id |-> u, box |-> expandShipmentBox(items[i].box, list.padding),
           weight |-> perUnitWeight(items[i])] : u \in items[i].units} : i \in DOMAIN items}
\* The endpoint may only narrow a category of the price list.
plannerCategories(list, destination) ==
  LET narrow(c) == IF destination.maxWeight = 0 THEN c
                   ELSE [c EXCEPT !.maxWeight = Min({@, destination.maxWeight})]
      all == [k \in DOMAIN list.categories |-> narrow(list.categories[k])]
  IN  SelectSeq(all, LAMBDA c : c.id \in destination.supported)

fullSchedule(list) == <<[share |-> Basis, rate |-> list.feeRate, fixed |-> list.feeFixed]>>

\* The binding total has the shipment and the fees that the provisional one lacks.
overTheLimit(kind, total, list) == kind = "binding_quote" /\ total > list.maxAmount

facts(order, list, within) ==
  [blocking |-> order.blocking, riskAcknowledged |-> order.riskAcknowledged,
   withinQuantity |-> SumOver(DOMAIN order.items, LAMBDA i : order.items[i].quantity)
                        <= list.maxQuantity,
   withinAmount |-> within, withinBuild |-> order.withinBuild]
expressEligible(order, list) ==
  evaluateExpressEligibility(
    [plates |-> 0, seconds |-> 0, maxPlates |-> list.expressPlates,
     materialAvailable |-> order.materialAvailable,
     window |-> list.expressWindow, buffer |-> list.expressBuffer])

(***************************************************************************)
(* A run asks one question; the calculation goes through the order first   *)
(* without and, when every gate is open, with its parcels.                 *)
(***************************************************************************)
PricingInit ==
  /\ priceStep = "NOTHING"
  /\ priceQuestion = Refused /\ priceWork = Refused /\ priceAnswer = Refused

askGrossUp(subtotal, s, vat) ==
  /\ priceStep = "NOTHING" /\ priceStep' = "GROSSED_UP"
  /\ priceQuestion' = [subtotal |-> subtotal, schedule |-> s, vat |-> vat]
  /\ priceAnswer' = grossUpPaymentSchedule(subtotal, s, vat)
  /\ UNCHANGED priceWork

\* prepareAutomaticQuote gathers the items and plans the shipment.
askQuote(order, list, destination) ==
  /\ priceStep = "NOTHING" /\ priceStep' = "PLANNED"
  /\ priceQuestion' = [order |-> order, list |-> list, destination |-> destination]
  /\ LET categories == IF destination = NoDestination THEN <<>>
                       ELSE plannerCategories(list, destination)
         plan == planShipment(categories, plannerUnits(order.items, list))
     IN  priceWork' = [items |-> [i \in DOMAIN order.items |-> pricingItem(order.items[i], list)],
                       parcels |-> <<>>, bound |-> FALSE, categories |-> categories,
                       plan |-> IF destination = NoDestination THEN NoPlan ELSE plan]
  /\ UNCHANGED priceAnswer

\* calculateOrderPrice: the order's costs, then what fees and VAT add to them.
calculateOrderPrice ==
  LET w == priceWork
      q == priceQuestion
      eligible == expressEligible(q.order, q.list)
      b == priceBreakdown(w.items, w.parcels, w.bound, q.order.express /\ eligible, q.list)
  IN  /\ priceStep = "PLANNED" /\ priceStep' = "COSTED"
      /\ w.bound => validateShipment(w.parcels, UNION {DOMAIN w.items[i].units : i \in DOMAIN w.items})
      /\ priceWork' = [b |-> b] @@ w
      /\ UNCHANGED <<priceQuestion, priceAnswer>>
grossUpQuote ==
  LET list == priceQuestion.list
  IN  /\ priceStep = "COSTED" /\ priceWork.bound /\ priceStep' = "GROSSED"
      /\ priceWork' =
           [grossed |-> grossUpPaymentSchedule(priceWork.b.subtotal, fullSchedule(list), list.vat)]
             @@ priceWork
      /\ UNCHANGED <<priceQuestion, priceAnswer>>
\* The binding price has the fees of the schedule, the provisional one VAT alone.
addFeesAndTax ==
  LET w == priceWork
      vat == vatFromNet(w.b.subtotal, priceQuestion.list.vat)
  IN  /\ \/ /\ priceStep = "GROSSED" /\ w.grossed = Refused /\ priceStep' = "REFUSED"
            /\ UNCHANGED priceWork
         \/ /\ priceStep = "GROSSED" /\ w.grossed # Refused /\ priceStep' = "TOTALLED"
            /\ priceWork' = [total |-> w.grossed.total,
                             b |-> [fee |-> feesOf(w.grossed.captures), vat |-> w.grossed.vat] @@ w.b] @@ w
         \/ /\ priceStep = "COSTED" /\ ~w.bound /\ priceStep' = "TOTALLED"
            /\ priceWork' = [total |-> w.b.subtotal + vat, b |-> [fee |-> 0, vat |-> vat] @@ w.b] @@ w
      /\ UNCHANGED <<priceQuestion, priceAnswer>>
allocateComponents ==
  LET w == priceWork
      units == collectPackingUnits(w.items)
      priced == pricedBuckets(w.b, w.parcels, priceQuestion.list)
  IN  /\ priceStep = "TOTALLED" /\ priceStep' = "ALLOCATED"
      /\ priceWork' =
           [allocations |-> allocatedComponents(priceComponents(w.items, w.parcels, w.b, units, priced))]
             @@ w
      /\ UNCHANGED <<priceQuestion, priceAnswer>>

\* prepareOrderQuote on the provisional price: the gates, and a second calculation
\* with the parcels when they are all open.
decideQuote ==
  LET w == priceWork
      q == priceQuestion
      chosen == q.destination # NoDestination
      kind == evaluateQuoteGates(facts(q.order, q.list, w.total <= q.list.maxAmount),
                chosen, chosen /\ w.plan.noFit = {},
                q.order.express /\ ~expressEligible(q.order, q.list))
  IN  /\ priceStep = "ALLOCATED" /\ ~w.bound
      /\ priceAnswer' = [kind |-> kind, total |-> w.total, subtotal |-> w.b.subtotal,
                         allocations |-> w.allocations]
      /\ IF kind = "binding_quote"
           THEN /\ priceStep' = "PLANNED"
                /\ priceWork' = [w EXCEPT !.bound = TRUE,
                                   !.parcels = bindingShipmentForPlan(w.plan, w.categories)]
           ELSE priceStep' = "QUOTED" /\ UNCHANGED priceWork
      /\ UNCHANGED priceQuestion
\* The binding total is held against the limit again; over it, the provisional
\* price is what the customer sees.
bindQuote ==
  LET w == priceWork
  IN  /\ priceStep = "ALLOCATED" /\ w.bound /\ priceStep' = "QUOTED"
      /\ priceAnswer' =
           IF overTheLimit("binding_quote", w.total, priceQuestion.list)
             THEN [priceAnswer EXCEPT !.kind = "custom_request"]
             ELSE [kind |-> "binding_quote", total |-> w.total, subtotal |-> w.b.subtotal,
                   allocations |-> w.allocations]
      /\ UNCHANGED <<priceQuestion, priceWork>>

PricingNext ==
  \/ /\ priceStep = "NOTHING"
     /\ \E subtotal \in Subtotals, s \in Schedules, vat \in VatRates : askGrossUp(subtotal, s, vat)
  \/ /\ priceStep = "NOTHING"
     /\ \E order \in Orders, list \in PriceLists, destination \in Destinations :
          askQuote(order, list, destination)
  \/ calculateOrderPrice \/ grossUpQuote \/ addFeesAndTax \/ allocateComponents
  \/ decideQuote \/ bindQuote

(***************************************************************************)
(* Properties                                                              *)
(***************************************************************************)
\* The search over the error envelope loses nothing: the total it finds covers
\* the subtotal after VAT and the fees of every capture, no smaller total does,
\* the captures add up to it, and it leaves nothing over unless the total below
\* would leave a capture without money; a schedule whose rates can be sustained
\* is never refused but for the size of the search (grossUpPaymentSchedule).
LeastCoveringTotal ==
  priceStep = "GROSSED_UP" =>
    LET q == priceQuestion
        a == priceAnswer
        below == evaluateTotal(a.total - 1, q.schedule)
        covering == {t \in 0..a.total : satisfies(q.subtotal, t, q.schedule, q.vat)}
    IN  IF a = Refused
          THEN \/ slopeNumerator(q.schedule, q.vat) <= 0
               \/ searchSize(candidateRange(q.subtotal, q.schedule, q.vat)) > MaxCandidates
          ELSE /\ a.total \in covering /\ a.total = Min(covering)
               /\ SumOver(DOMAIN a.captures, LAMBDA i : a.captures[i].gross) = a.total
               /\ \/ a.total - a.vat - feesOf(a.captures) = q.subtotal
                  \/ \E i \in DOMAIN below : below[i].gross = 0

Settlement(allocations, u) ==
  SumOver({id \in DOMAIN allocations : u \in DOMAIN allocations[id]}, LAMBDA id : allocations[id][u])

\* A quote is whole: what its units settle for when they are dropped or refunded
\* adds up to the price the customer sees, to the last minor unit, for every
\* combination of minimum price, surcharge, express, subsidy, fee and VAT; and it
\* is binding only for a plan that holds, within the automatic limits, with
\* everything acknowledged, even when the shipment and the fees take a provisional
\* amount over the limit (calculateOrderPrice, prepareAutomaticQuote).
QuoteIsWhole ==
  LET q == priceQuestion
      a == priceAnswer
      units == UNION {q.order.items[i].units : i \in DOMAIN q.order.items}
  IN  /\ priceStep = "QUOTED" =>
           /\ a.subtotal > 0 =>
                SumOver(units, LAMBDA u : Settlement(a.allocations, u)) = a.total
           /\ a.kind = "binding_quote" =>
                /\ a.total <= q.list.maxAmount
                /\ q.order.riskAcknowledged /\ ~q.order.blocking /\ q.order.withinBuild
                /\ q.order.express => q.order.materialAvailable
                /\ priceWork.plan.noFit = {}
      /\ priceStep = "REFUSED" => slopeNumerator(fullSchedule(q.list), q.list.vat) <= 0

\* A shipment plan can be packed: every unit lies in exactly one parcel, the units
\* of a parcel do not overlap and lie inside its box, weight and volume are those
\* of its units, and a unit is turned away only when no category takes it alone
\* (planShipment).
ShipmentPacks ==
  priceStep = "PLANNED" /\ priceQuestion.destination # NoDestination =>
    SoundPlan(priceWork.categories, plannerUnits(priceQuestion.order.items, priceQuestion.list),
              priceWork.plan)
==============================================================================
