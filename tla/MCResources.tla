----------------------------- MODULE MCResources -----------------------------
(* Five parts that share no variables; a behaviour runs one of them:         *)
(*  - the searches for a plan and for machine time, as pure functions;       *)
(*  - estimates, reservations and the catalog of one machine;                *)
(*  - the row locks of the transactions over machines and lots;              *)
(*  - assisted requests up to their orders;                                  *)
(*  - the resources and the first payment of such an order.                  *)
EXTENDS ResourcePlanning, Resources, LockOrder,
        QuoteRequests, IndividualOrders

VARIABLE part

Parts == {"planning", "machine", "locks", "request", "order"}

\* One part of an order: one early plate that needs much material, one or two later
\* ones that need less, the two slower, or one that expires soon; two or all parts at
\* once on some of these.  Two more could print everything, but have too little
\* time, or plates that overlap.
Batch(slots, quantity) == [slots |-> slots, quantity |-> quantity]
Printed(intervals, expires, material, seconds) ==
  [intervals |-> intervals, expires |-> expires, material |-> material, seconds |-> seconds]
Early == Printed({Window(1, 2)}, 4, 2, 1)
Later == Printed({Window(2, 3)}, 4, 1, 1)
Slower == Printed({Window(2, 3), Window(3, 4)}, 4, 1, 2)
Soon == Printed({Window(4, 5)}, 1, 1, 1)
MCShapes ==
  {b @@ p : b \in {Batch({2}, 1), Batch({3}, 1), Batch({1, 2}, 1)},
            p \in {Early, Later, Slower, Soon}}
    \cup {b @@ p : b \in {Batch({1, 2}, 2), Batch(SlotIds, 2)}, p \in {Early, Later}}
    \cup {Batch(SlotIds, 3) @@ p :
            p \in {Early, Slower, Printed({Window(1, 2)}, 4, 1, 2),
                   Printed({Window(1, 3), Window(2, 4)}, 4, 1, 1)}}
\* Enough of everything; less and little material; one plate only; later; a booked machine.
MCCircumstances ==
  {[now |-> 0, occupied |-> {}, stock |-> 4, limit |-> 0],
   [now |-> 0, occupied |-> {}, stock |-> 2, limit |-> 0],
   [now |-> 0, occupied |-> {}, stock |-> 3, limit |-> 1],
   [now |-> 1, occupied |-> {}, stock |-> 3, limit |-> 2],
   [now |-> 0, occupied |-> {Window(3, 4)}, stock |-> 3, limit |-> 0]}
MCDays ==
  {<<>>, <<Window(0, 4)>>, <<Window(1, 3), Window(3, 6)>>,
   <<Window(0, 3), Window(4, 6), Window(6, 9)>>}
MCBookings ==
  {<<>>} \cup {<<Window(a, a + x)>> : a \in 0..5, x \in 1..3}
    \cup {<<Window(a, a + x), Window(b, b + 1)>> : a \in 0..3, x \in 1..3, b \in 3..6}
MCPlates == {<<a>> : a \in 1..3} \cup {<<a, b>> : a, b \in 1..3}
MCPhaseMaps == {<<1, 1>>, <<1, 2>>}
MCGrams == <<2, 3>>
MCDeltas == {-1}
MCCalendars == {{Window(1, 6)}, {Window(2, 3), Window(4, 7)}, {}}

plantVars == <<planningVars, resourceVars, lockVars>>
assistedVars == <<quoteVars, individualVars>>

MCInit ==
  /\ part \in Parts
  /\ PlanningInit /\ ResourcesInit /\ LockInit
  /\ Init /\ IndividualInit
  /\ part # "machine" => phaseOf = <<1, 1>>
  /\ part # "locks" => todo = [t \in Transactions |-> lockCandidateResources(1)]
MCNext ==
  \/ /\ part = "planning" /\ PlanningNext
     /\ UNCHANGED <<part, resourceVars, lockVars, assistedVars>>
  \/ /\ part = "machine" /\ ResourcesNext
     /\ UNCHANGED <<part, planningVars, lockVars, assistedVars>>
  \/ /\ part = "locks" /\ LockNext
     /\ UNCHANGED <<part, planningVars, resourceVars, assistedVars>>
  \/ /\ part = "request" /\ Next
     /\ UNCHANGED <<part, plantVars, individualVars>>
  \/ /\ part = "order" /\ IndividualNext
     /\ UNCHANGED <<part, plantVars, quoteVars>>
MCSpec == MCInit /\ [][MCNext]_<<part, plantVars, assistedVars>>
==============================================================================
