----------------------------- MODULE MCPlatform -----------------------------
(* Services that share no variables; a behaviour runs one of them: legal      *)
(* documents, operator authentication, the measurement of work, the carrier's *)
(* feed of delivery points, a question about an automatic price (gross-up,    *)
(* quote, shipment plan), or an individual offer and its acceptance.          *)
EXTENDS LegalDocuments, OperatorAuth, Measurement, DeliveryFeed, Offers

VARIABLE part

Target(id, units) ==
  [id |-> id, collated |-> id, units |-> units, item |-> TRUE, phase |-> FALSE, job |-> FALSE,
   shipment |-> FALSE, known |-> TRUE]
Handling(kind, op, session, key, component, targets, from, to) ==
  [kind |-> kind, op |-> op, session |-> session, key |-> key, component |-> component,
   targets |-> targets, from |-> from, to |-> to]
Evidence(key, row) == [kind |-> "evidence", op |-> 1, session |-> 0, key |-> key, row |-> row]

\* One operator times a plate, records it by hand, completes and voids it.
HandlingRequests ==
  {Handling("start", 1, 0, k, "HANDLING_PLATE", {}, 0, 0) : k \in 1..2}
    \cup {Handling("complete", 1, i, 1, "HANDLING_PLATE", {Target(1, 1), Target(2, 2)}, 0, 0) : i \in 1..2}
    \cup {Handling("manual", 1, 0, 1, "HANDLING_PLATE",
            {Target(1, 2), Target(2, 1), Target(3, 2)}, s, e) : s \in 0..2, e \in 1..3}
    \cup {Handling("void", 1, i, 1, "HANDLING_PLATE", {}, 0, 0) : i \in 1..2}
\* Every component against every combination of the rows a target names.
LineageRequests ==
  {Handling("manual", 2, 0, 1, c,
     {[id |-> n, collated |-> n, units |-> u, item |-> i, phase |-> p, job |-> j, shipment |-> s, known |-> k] : n \in 1..m}, 0, 1) :
       c \in {"HANDLING_ORDER_FIX", "HANDLING_PLATE", "HANDLING_PIECE", "HANDLING_PACK", "SHIPPING_TRIP",
              "POSTPROCESSING_ITEM"}, m, u \in 1..2, i, p, j, s, k \in BOOLEAN}
EvidenceRequests ==
  {Evidence(k, [ledger |-> "cost", scope |-> c, source |-> n, supersedes |-> m]) :
     k \in 1..2, c \in 1..2, n \in 1..3, m \in 0..2}
MCRequestSets == {HandlingRequests, LineageRequests, EvidenceRequests}

Rate(n, d) == [n |-> n, d |-> d]
Capture(share, rate, fixed) == [share |-> share, rate |-> rate, fixed |-> fixed]
MCSchedules ==
  {<<Capture(10, r, f)>> : r \in 0..9, f \in 0..2}
    \cup {<<Capture(x, r1, f1), Capture(10 - x, r2, f2)>> :
            x \in {1, 3, 8}, r1 \in {0, 2}, r2 \in {1, 4}, f1 \in 0..1, f2 \in {0, 2}}

Category(id, max, sum, weight, vol, carrier, rate, packaging) ==
  [id |-> id, max |-> max, maxSum |-> sum, maxWeight |-> weight, maxVolume |-> vol,
   carrier |-> carrier, rate |-> rate, packaging |-> packaging]
Plain ==
  [machine |-> Rate(1, 2), labor |-> Rate(2, 3), amortization |-> Rate(1, 5), reprint |-> Rate(1, 10),
   margin |-> Rate(3, 10), orderFixedSeconds |-> 1, plateSeconds |-> 1, pieceSeconds |-> 1,
   packSeconds |-> 1, tripSeconds |-> 3, tripDivisor |-> 2, minimumPrint |-> 9,
   smallThreshold |-> 4, smallSurcharge |-> 2, freeShipping |-> 20, express |-> Rate(3, 2), vat |-> 2,
   feeRate |-> 1, feeFixed |-> 1, maxQuantity |-> 3, maxAmount |-> 45, padding |-> 0,
   expressPlates |-> 1, expressWindow |-> 2, expressBuffer |-> 1,
   categories |-> <<Category(1, <<3, 3, 2>>, 8, 6, 24, 3, 2, 1),
                    Category(2, <<6, 4, 4>>, 12, 9, 60, 9, 5, 0)>>]
Free ==
  [Plain EXCEPT !.minimumPrint = 0, !.labor = Rate(0, 1), !.machine = Rate(0, 1),
     !.amortization = Rate(0, 1), !.margin = Rate(0, 1), !.smallThreshold = 2, !.feeFixed = 0,
     !.vat = 0, !.freeShipping = 6, !.padding = 1]
MCPriceLists == {Plain, [Plain EXCEPT !.maxAmount = 24, !.feeRate = 9], Free}

Item(units, perPlate, weight, tail, box, rate) ==
  [quantity |-> Cardinality(units), perPlate |-> perPlate,
   primary |-> [weight |-> weight, seconds |-> 2 * weight],
   tail |-> [weight |-> tail, seconds |-> tail], units |-> units, box |-> box, rate |-> rate]
Boxes == {<<2, 1, 3>>, <<2, 2, 1>>, <<4, 1, 4>>}
MCItems ==
  {<<Item(1..n, k, w, 1, b, Rate(1, 3))>> : n \in 1..3, k \in 1..2, w \in {3}, b \in Boxes}
    \cup {<<Item(1..4, 2, 3, 1, <<2, 2, 1>>, Rate(1, 3))>>}       \* over the automatic quantity
    \cup {<<Item({1}, 1, w, 0, b, Rate(1, 3)), Item({2, 3}, k, 1, 1, c, Rate(r, 1))>> :
            w \in {0, 2}, k \in {2}, b \in Boxes, c \in Boxes, r \in {1}}
MCOrders ==
  {[items |-> items, express |-> x, materialAvailable |-> TRUE, blocking |-> FALSE,
    riskAcknowledged |-> TRUE, withinBuild |-> TRUE] : items \in MCItems, x \in BOOLEAN}
    \cup {[items |-> <<Item({1}, 1, 1, 0, <<1, 1, 1>>, Rate(1, 3))>>, express |-> x,
           materialAvailable |-> m, blocking |-> b, riskAcknowledged |-> r, withinBuild |-> w] :
            x, m, b, r, w \in BOOLEAN}
MCDestinations ==
  {NoDestination} \cup {[kind |-> "POINT", supported |-> S, maxWeight |-> w] :
                          <<S, w>> \in {<<{1}, 0>>, <<{1, 2}, 0>>, <<{1, 2}, 5>>}}

MCOfferItems == {<<1>>, <<2>>, <<1, 2>>}
Plan(units, shipping, packaging, handling) ==
  [units |-> units, shipping |-> shipping, packaging |-> packaging, handling |-> handling]
MCOfferPlans ==
  {<<Plan(unitsOf(items), s, 1, 0)>> : items \in MCOfferItems, s \in 0..1}
    \cup {<<Plan({<<1, 1>>}, 1, 0, 0), Plan(U, 0, 1, 2)>> : U \in {{<<1, 2>>}, {<<2, 1>>, <<2, 2>>}}}
MCOfferComponents ==
  {1 :> a @@ 0 :> b : a \in 1..4, b \in 0..1}
    \cup {1 :> a @@ 2 :> c @@ 0 :> 1 : a \in 1..2, c \in 2..3}
MCOfferPolicies ==
  {[deposit |-> [rate |-> r, fixed |-> 0], balance |-> [rate |-> 1, fixed |-> f]] :
     r \in {0, 3}, f \in 0..1}

platformVars == <<part, legalVars, authVars, measurementVars, feedVars, pricingVars, offerVars>>

MCInit ==
  /\ part \in {"legal", "auth", "measurement", "delivery", "price", "offer"}
  /\ LegalInit /\ AuthInit /\ MeasurementInit /\ FeedInit /\ PricingInit /\ OffersInit
  /\ part # "auth" => environment = "production" /\ operator.role = "ADMIN" /\ operator.nodes = 0
  /\ part # "measurement" => asked = EvidenceRequests
MCNext ==
  \/ /\ part = "legal" /\ LegalNext
     /\ UNCHANGED <<part, authVars, measurementVars, feedVars, pricingVars, offerVars>>
  \/ /\ part = "auth" /\ AuthNext
     /\ UNCHANGED <<part, legalVars, measurementVars, feedVars, pricingVars, offerVars>>
  \/ /\ part = "measurement" /\ MeasurementNext
     /\ UNCHANGED <<part, legalVars, authVars, feedVars, pricingVars, offerVars>>
  \/ /\ part = "delivery" /\ FeedNext
     /\ UNCHANGED <<part, legalVars, authVars, measurementVars, pricingVars, offerVars>>
  \/ /\ part = "price" /\ PricingNext
     /\ UNCHANGED <<part, legalVars, authVars, measurementVars, feedVars, offerVars>>
  \/ /\ part = "offer" /\ OffersNext
     /\ UNCHANGED <<part, legalVars, authVars, measurementVars, feedVars, pricingVars>>
MCSpec == MCInit /\ [][MCNext]_platformVars
==============================================================================
