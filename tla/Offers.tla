-------------------------------- MODULE Offers --------------------------------
(***************************************************************************)
(* The price of an individual offer (quotes.service.ts): what the operator *)
(* enters is checked by validateOffer, and acceptOffer spreads it over the *)
(* fulfilment slots of the order it creates.  A unit is <<item, ordinal>>; *)
(* a slot gets a random id, so which slot takes the odd minor unit is any  *)
(* order of the slots.                                                     *)
(***************************************************************************)
EXTENDS Pricing

CONSTANTS OfferItems, OfferPlans, OfferComponents, OfferTotals, OfferVats, OfferPolicies

VARIABLES offer, offerAccepted

offerVars == <<offer, offerAccepted>>
NoOffer == [kind |-> "NONE"]

unitsOf(items) == UNION {{<<i, n>> : n \in 1..items[i]} : i \in DOMAIN items}

\* The VAT of the offer is the half-up extraction from its total.
validateOfferTax(o) ==
  /\ o.net + o.vat = o.total
  /\ o.vat = (2 * o.total * o.rate + Basis + o.rate) \div (2 * (Basis + o.rate))

\* Every unit of the items lies in exactly one plan.
validateOfferShipmentPlans(o) ==
  /\ o.plans # <<>>
  /\ \A p \in DOMAIN o.plans : o.plans[p].units # {}
  /\ \A p, q \in DOMAIN o.plans : p # q => o.plans[p].units \cap o.plans[q].units = {}
  /\ UNION {o.plans[p].units : p \in DOMAIN o.plans} = unitsOf(o.items)

paymentCaptureFeeMinor(gross, policy) ==
  (gross * policy.rate + Basis - 1) \div Basis + policy.fixed

offerFee(o) ==
  paymentCaptureFeeMinor(o.deposit, o.policy.deposit)
    + paymentCaptureFeeMinor(o.total - o.deposit, o.policy.balance)

shipmentCharge(plan) == plan.shipping + plan.packaging + plan.handling

\* `components` are the amounts the operator supplies, by scope: an item or the order.
validateOffer(o) ==
  /\ validateOfferTax(o)
  /\ o.total >= 2 /\ o.deposit >= 1 /\ o.deposit < o.total
  /\ o.items # <<>>
  /\ validateOfferShipmentPlans(o)
  /\ DOMAIN o.items \subseteq DOMAIN o.components
  /\ DOMAIN o.components \subseteq DOMAIN o.items \cup {0}
  /\ o.net = SumOver(DOMAIN o.components, LAMBDA k : o.components[k])
               + SumOver(DOMAIN o.plans, LAMBDA p : shipmentCharge(o.plans[p]))
               + offerFee(o)

\* The stored components with the units of their scope; 0 is the order.
offerComponents(o) ==
  {[id |-> k, amount |-> o.components[k],
    units |-> IF k = 0 THEN unitsOf(o.items) ELSE {u \in unitsOf(o.items) : u[1] = k}]
     : k \in DOMAIN o.components}
  \cup {[id |-> 100 + p, amount |-> shipmentCharge(o.plans[p]), units |-> o.plans[p].units]
          : p \in DOMAIN o.plans}
  \cup {[id |-> 200, amount |-> f, units |-> unitsOf(o.items)] : f \in {offerFee(o)} \ {0}}
  \cup {[id |-> 201, amount |-> v, units |-> unitsOf(o.items)] : v \in {o.vat} \ {0}}

\* Each component in equal parts over its slots, `slot` numbering them.
allocateEqually(c, slot) == allocateMoney(c.amount, [k \in {slot[u] : u \in c.units} |-> 0])

OffersInit == offer = NoOffer /\ offerAccepted = NoOffer

issueOffer(items, plans, components, total, deposit, vat, rate, policy) ==
  /\ offer = NoOffer
  /\ offer' = [kind |-> "OFFER", items |-> items, plans |-> plans, components |-> components,
               total |-> total, deposit |-> deposit, rate |-> rate, policy |-> policy,
               vat |-> vat, net |-> total - vat]
  /\ validateOffer(offer')
  /\ UNCHANGED offerAccepted

\* The allocations of the components; a slot settles for the sum of its own.
acceptOffer ==
  /\ offer # NoOffer /\ offerAccepted = NoOffer
  /\ LET units == unitsOf(offer.items)
         components == offerComponents(offer)
     IN  \E slot \in Bijection(units, 1..Cardinality(units)) :
           offerAccepted' = [kind |-> "ORDER",
                        schedule |-> <<offer.deposit, offer.total - offer.deposit>>,
                        allocations |-> [id \in {c.id : c \in components} |->
                          allocateEqually(CHOOSE c \in components : c.id = id, slot)]]
  /\ UNCHANGED offer

OffersNext ==
  \/ /\ offer = NoOffer
     /\ \E items \in OfferItems, plans \in OfferPlans, components \in OfferComponents,
           total \in OfferTotals, rate \in VatRates, policy \in OfferPolicies :
          \E deposit \in 1..(total - 1), vat \in OfferVats :
            issueOffer(items, plans, components, total, deposit, vat, rate, policy)
  \/ acceptOffer

\* An accepted offer is settled in full by its slots, whatever order their ids
\* have: the parts of deposit and balance, of every component, of the shipment,
\* the fees of both captures and the VAT add up to the contract total, so that
\* dropping or refunding every slot returns exactly what was agreed
\* (validateOffer, acceptOffer).
OfferSettlesWhole ==
  offerAccepted # NoOffer =>
    LET captured == offerAccepted.schedule
        slots == 1..Cardinality(unitsOf(offer.items))
        fees == feeOf(offer.policy.deposit, captured[1]) + feeOf(offer.policy.balance, captured[2])
        pieces == offer.vat + fees + SumOver(DOMAIN offer.plans, LAMBDA p : shipmentCharge(offer.plans[p]))
                    + SumOver(DOMAIN offer.components, LAMBDA k : offer.components[k])
    IN  /\ SumOver(slots, LAMBDA k : Settlement(offerAccepted.allocations, k)) = offer.total
        /\ captured[1] + captured[2] = offer.total
        /\ pieces = offer.total

\* Every price is whole, from the parcels it is made for to the last minor unit.
PricesExact == ShipmentPacks /\ LeastCoveringTotal /\ QuoteIsWhole /\ OfferSettlesWhole
===============================================================================
