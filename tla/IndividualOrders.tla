--------------------------- MODULE IndividualOrders ---------------------------
(***************************************************************************)
(* From an accepted individual offer to its first payment: production      *)
(* nodes prepare a resource plan for the order, the customer records a     *)
(* checkout contact, an operator asks for the deposit and the provider     *)
(* reports what became of it.  What a webhook does in detail is in module  *)
(* CheckoutPayments; here it is one step.                                  *)
(***************************************************************************)
EXTENDS Naturals, Sequences, FiniteSets

CONSTANTS
  Nodes,          \* production nodes, each preparing in a call of its own
  Contacts,       \* what a customer may enter as checkout contact
  Payments,       \* bound: initial payments asked for, each by its own command
  MaxPlans        \* bound: resource plans made

ASSUME IndividualAssumption ==
  IsFiniteSet(Nodes) /\ IsFiniteSet(Payments) /\ Contacts # {} /\ MaxPlans \in Nat

VARIABLES
  orderStatus,    \* DRAFT, QUOTED, CONFIRMED, CANCELLED, EXPIRED
  contact,        \* {} or {the recorded contact}
  preparing,      \* [Nodes -> where the node's prepare call is]
  plans,          \* resource plans: node, life left, reservation set and its age
  payments        \* [Payments -> status, plan, contact given to the provider]

individualVars == <<orderStatus, contact, preparing, plans, payments>>

LiveStatuses == {"CREATED", "PENDING", "CAPTURED"}
liveInitialPayment == \E p \in Payments : payments[p].status \in LiveStatuses
NoPayment == [status |-> "NONE", plan |-> 0, contact |-> {}]
Awaiting == orderStatus \in {"DRAFT", "QUOTED"}
newPlan(n) == [node |-> n, life |-> "LONG", set |-> "NONE", age |-> 0]

IndividualInit ==
  /\ orderStatus = "DRAFT" /\ contact = {}
  /\ preparing = [n \in Nodes |-> [at |-> "idle", plan |-> 0]]
  /\ plans = <<>>
  /\ payments = [p \in Payments |-> NoPayment]

(***************************************************************************)
(* IndividualResourcePreparationService.prepare: a read, a plan in one     *)
(* transaction, and the decision in another.                               *)
(***************************************************************************)
scopedElsewhere(n) == \E i \in DOMAIN plans : plans[i].node # n
prepareReads(n) ==
  /\ preparing[n].at = "idle"
  /\ ~scopedElsewhere(n) /\ Awaiting /\ ~liveInitialPayment
  /\ preparing' = [preparing EXCEPT ![n].at = "read"]
  /\ UNCHANGED <<orderStatus, contact, plans, payments>>

\* Mutant: the node that read no foreign plan goes ahead.
nodeAsRead(n) == TRUE
\* exclusiveOrderNode, under the lock of the phase
exclusiveOrderNode(n) == ~scopedElsewhere(n)

\* createCompletePlan: a plan, none to be had (the call goes on without one), or
\* a refusal because another node has the order.
prepareWithPlan(n) ==
  /\ preparing[n].at = "read"
  /\ exclusiveOrderNode(n) /\ Len(plans) < MaxPlans
  /\ plans' = Append(plans, newPlan(n))
  /\ preparing' = [preparing EXCEPT ![n] = [at |-> "planned", plan |-> Len(plans) + 1]]
  /\ UNCHANGED <<orderStatus, contact, payments>>
prepareWithoutPlan(n) ==
  /\ preparing[n].at = "read"
  /\ preparing' = [preparing EXCEPT ![n] = IF exclusiveOrderNode(n)
                                           THEN [at |-> "planned", plan |-> 0]
                                           ELSE [at |-> "idle", plan |-> 0]]
  /\ UNCHANGED <<orderStatus, contact, plans, payments>>

prepareDecides(n) ==
  LET i == preparing[n].plan
      validPlan == i # 0 /\ (i # 0 => plans[i].life = "LONG")
  IN  /\ preparing[n].at = "planned"
      /\ orderStatus' = IF Awaiting /\ ~liveInitialPayment /\ validPlan THEN "QUOTED"
                        ELSE orderStatus
      /\ preparing' = [preparing EXCEPT ![n] = [at |-> "idle", plan |-> 0]]
      /\ UNCHANGED <<contact, plans, payments>>

(***************************************************************************)
(* The customer's contact.                                                 *)
(***************************************************************************)
checkoutContactSnapshotMatches(c) == contact = {} \/ contact = {c}

recordOfferCheckoutContact(c) ==
  /\ \A p \in Payments : payments[p].status = "NONE"
  /\ Awaiting /\ checkoutContactSnapshotMatches(c)
  /\ contact' = {c} /\ contact' # contact
  /\ UNCHANGED <<orderStatus, preparing, plans, payments>>

(***************************************************************************)
(* createIndividualInitialPayment.                                         *)
(***************************************************************************)
planUnused(i) == plans[i].life = "LONG" /\ plans[i].set = "NONE"
newestPlan(i) == planUnused(i) /\ \A j \in DOMAIN plans : planUnused(j) => j <= i

noActivePayment(p) == ~liveInitialPayment

(***************************************************************************)
(* Reservation sets.  A set that is past its expiry keeps status RESERVED  *)
(* (LAPSED here) until something notices; its resources are still taken.   *)
(***************************************************************************)
Reserved == {"RESERVED", "LAPSED"}
ReservedSets == {i \in DOMAIN plans : plans[i].set \in Reserved}
liveSet == \E i \in DOMAIN plans : plans[i].set = "RESERVED"
newestOf(I) == CHOOSE i \in I : \A j \in I : plans[j].age <= plans[i].age
reserve(i) ==
  plans' = [plans EXCEPT ![i].set = "RESERVED",
                         ![i].age = 1 + Cardinality({j \in DOMAIN plans : plans[j].age # 0})]

\* The order's envelope lock covers the reservation and the new payment.
stageInitialPayment(p) ==
  /\ payments[p].status = "NONE" /\ orderStatus = "QUOTED" /\ contact # {}
  /\ noActivePayment(p)
  /\ \E i \in DOMAIN plans :
       /\ newestPlan(i) /\ reserve(i)
       /\ payments' = [payments EXCEPT ![p] = [status |-> "CREATED", plan |-> i,
                                               contact |-> contact]]
  /\ UNCHANGED <<orderStatus, contact, preparing>>

\* The intent is there, or its creation failed for good: the reservation runs
\* on.  After an ambiguous answer the payment stays CREATED.
finalizeInitialPayment(p) ==
  /\ payments[p].status = "CREATED"
  /\ payments' = [payments EXCEPT ![p].status = "PENDING"]
  /\ UNCHANGED <<orderStatus, contact, preparing, plans>>
initialIntentFails(p) ==
  /\ payments[p].status = "CREATED"
  /\ payments' = [payments EXCEPT ![p].status = "FAILED"]
  /\ UNCHANGED <<orderStatus, contact, preparing, plans>>
initialPaymentFails(p) ==
  /\ payments[p].status = "PENDING"
  /\ payments' = [payments EXCEPT ![p].status = "FAILED"]
  /\ UNCHANGED <<orderStatus, contact, preparing, plans>>

\* taven_close_initial_checkout_payment: everything the order has is given back.
closePayment(p, status, order) ==
  /\ payments' = [payments EXCEPT ![p].status = status]
  /\ plans' = [i \in DOMAIN plans |->
                 [plans[i] EXCEPT !.set = IF @ \in Reserved \cup {"HELD"} THEN "RELEASED" ELSE @]]
  /\ orderStatus' = (IF orderStatus = "QUOTED" THEN order ELSE orderStatus)
  /\ UNCHANGED <<contact, preparing>>

Open(p) == payments[p].status \in {"CREATED", "PENDING"}
\* An intent returned too late to be used, and the checkout deadline.
initialPaymentVoided(p) ==
  Open(p) /\ \E order \in {"CANCELLED", "EXPIRED"} : closePayment(p, "VOIDED", order)

(***************************************************************************)
(* A verified capture.  The service first tries to replace a reservation   *)
(* that has lapsed: it gives the old set back, makes a plan on the same    *)
(* node and reserves it, each in a transaction of its own.                 *)
(***************************************************************************)
previousSet == newestOf({i \in DOMAIN plans : plans[i].age # 0})
mayReacquire(p) == Open(p) /\ ~liveSet
releaseBeforeCapture(p) ==
  /\ mayReacquire(p) /\ plans[previousSet].set = "LAPSED"
  /\ plans' = [plans EXCEPT ![previousSet].set = "RELEASED"]
  /\ UNCHANGED <<orderStatus, contact, preparing, payments>>
reacquirePlan(p) ==
  /\ mayReacquire(p) /\ plans[previousSet].set # "LAPSED" /\ Len(plans) < MaxPlans
  /\ plans' = Append(plans, newPlan(plans[previousSet].node))
  /\ UNCHANGED <<orderStatus, contact, preparing, payments>>
reacquireForCapture(p, i) ==
  /\ mayReacquire(p) /\ planUnused(i) /\ reserve(i)
  /\ UNCHANGED <<orderStatus, contact, preparing, payments>>

\* taven_apply_checkout_payment_event looks at the newest reserved set.
activeSet == IF ReservedSets = {} THEN 0 ELSE newestOf(ReservedSets)
activeSetLive == activeSet # 0 /\ (activeSet # 0 => plans[activeSet].set = "RESERVED")

\* confirmed_order_reservation_hold_check, when the transaction commits
holdAlone(i) == \A j \in DOMAIN plans : plans[j].set \in Reserved \cup {"HELD"} => j = i

initialPaymentCaptured(p) ==
  /\ Open(p) /\ orderStatus = "QUOTED" /\ activeSetLive /\ holdAlone(activeSet)
  /\ payments' = [payments EXCEPT ![p].status = "CAPTURED"]
  /\ plans' = [plans EXCEPT ![activeSet].set = "HELD"]
  /\ orderStatus' = "CONFIRMED"
  /\ UNCHANGED <<contact, preparing>>
\* No set that is live and still eligible (the resources may have changed): the
\* captured money is to go back.  Another live set makes the transaction fail.
initialPaymentCompensated(p) ==
  /\ Open(p)
  /\ \A i \in DOMAIN plans : plans[i].set = "RESERVED" => i = activeSet
  /\ closePayment(p, "REFUND_PENDING", "CANCELLED")
lateCaptureCompensated(p) ==
  /\ payments[p].status \in {"FAILED", "VOIDED"}
  /\ payments' = [payments EXCEPT ![p].status = "REFUND_PENDING"]
  /\ UNCHANGED <<orderStatus, contact, preparing, plans>>

\* External: time.  Sets lapse in the order they were reserved.
planAges(i) ==
  /\ plans[i].life = "LONG" /\ plans[i].set = "NONE"    \* a used plan is not asked for its life
  /\ plans' = [plans EXCEPT ![i].life = "SHORT"]
  /\ UNCHANGED <<orderStatus, contact, preparing, payments>>
reservationLapses(i) ==
  /\ plans[i].set = "RESERVED"
  /\ \A j \in DOMAIN plans : plans[j].set = "RESERVED" => plans[i].age <= plans[j].age
  /\ plans' = [plans EXCEPT ![i].set = "LAPSED"]
  /\ UNCHANGED <<orderStatus, contact, preparing, payments>>
\* The expiry worker.
reservationExpires(i) ==
  /\ plans[i].set = "LAPSED" /\ plans' = [plans EXCEPT ![i].set = "EXPIRED"]
  /\ UNCHANGED <<orderStatus, contact, preparing, payments>>

IndividualNext ==
  \/ \E n \in Nodes : prepareReads(n) \/ prepareWithPlan(n) \/ prepareWithoutPlan(n)
                      \/ prepareDecides(n)
  \/ \E c \in Contacts : recordOfferCheckoutContact(c)
  \/ \E p \in Payments :
       \/ stageInitialPayment(p) \/ finalizeInitialPayment(p) \/ initialIntentFails(p)
       \/ initialPaymentFails(p) \/ initialPaymentVoided(p)
       \/ releaseBeforeCapture(p) \/ reacquirePlan(p)
       \/ \E i \in DOMAIN plans : reacquireForCapture(p, i)
       \/ initialPaymentCaptured(p) \/ initialPaymentCompensated(p) \/ lateCaptureCompensated(p)
  \/ \E i \in DOMAIN plans : planAges(i) \/ reservationLapses(i) \/ reservationExpires(i)

IndividualSpec == IndividualInit /\ [][IndividualNext]_individualVars

(***************************************************************************)
(* Properties.                                                             *)
(***************************************************************************)
IndividualTypeOK ==
  /\ orderStatus \in {"DRAFT", "QUOTED", "CONFIRMED", "CANCELLED", "EXPIRED"}
  /\ contact \subseteq Contacts /\ Cardinality(contact) <= 1
  /\ \A p \in Payments : payments[p].plan \in 0..Len(plans)

\* An individual order is prepared by one node only, whatever two nodes read
\* before either of them made a plan.
OneNodePerOrder == \A i, j \in DOMAIN plans : plans[i].node = plans[j].node

\* At most one initial payment is open or captured, no two payments were ever
\* given the same plan, and each was sent out with the contact the order has.
InitialPaymentExclusive ==
  /\ \A p, q \in Payments :
       /\ payments[p].status \in LiveStatuses /\ payments[q].status \in LiveStatuses => p = q
       /\ payments[p].plan # 0 /\ payments[p].plan = payments[q].plan => p = q
  /\ \A p \in Payments : payments[p].status # "NONE" => payments[p].contact = contact

\* An order is confirmed exactly when a payment of it is captured, and then it
\* holds one reservation set and no other takes resources for it; an order that
\* was cancelled or expired has neither a set nor a payment that could be taken.
ConfirmedHolds ==
  LET taken == {i \in DOMAIN plans : plans[i].set \in Reserved \cup {"HELD"}}
  IN  /\ orderStatus = "CONFIRMED" <=> \E p \in Payments : payments[p].status = "CAPTURED"
      /\ orderStatus = "CONFIRMED" =>
           Cardinality(taken) = 1 /\ \A i \in taken : plans[i].set = "HELD"
      /\ orderStatus \in {"CANCELLED", "EXPIRED"} => taken = {} /\ ~liveInitialPayment

\* An individual order is made on one node, has one active first payment and is
\* confirmed only with the machine time it paid for.
IndividualSound == OneNodePerOrder /\ InitialPaymentExclusive /\ ConfirmedHolds
===============================================================================
