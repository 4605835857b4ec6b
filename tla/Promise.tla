------------------------------ MODULE Promise ------------------------------
(***************************************************************************)
(* What a confirmed order promises its customer, slot by slot: the goods,  *)
(* or the money back.  Goods leave only while their money is kept, except  *)
(* that a carrier may turn out to have taken a parcel whose cancellation   *)
(* was already settled; money is claimed back only for goods that were     *)
(* dropped, went missing, or arrived and were found faulty.                *)
(***************************************************************************)
CONSTANT Slots

VARIABLES goods,  \* "OWED", "SENT", "MISSING", "DELIVERED" or "DROPPED"
          money   \* "KEPT", "CLAIMED" or "RETURNED"

vars == <<goods, money>>

Init == /\ goods = [s \in Slots |-> "OWED"]
        /\ money = [s \in Slots |-> "KEPT"]

Goods(S, from, to) ==
  /\ \A s \in S : goods[s] \in from
  /\ goods' = [s \in Slots |-> IF s \in S THEN to ELSE goods[s]]

Money(S, from, to) ==
  /\ \A s \in S : money[s] \in from
  /\ money' = [s \in Slots |-> IF s \in S THEN to ELSE money[s]]

Send(S) == Goods(S, {"OWED", "MISSING"}, "SENT") /\ Money(S, {"KEPT"}, "KEPT")
Arrive(S) == Goods(S, {"SENT"}, "DELIVERED") /\ UNCHANGED money
Lose(S) == Goods(S, {"SENT"}, "MISSING") /\ UNCHANGED money
Redo(S) == Goods(S, {"MISSING"}, "OWED") /\ Money(S, {"KEPT"}, "KEPT")
Drop(S) == Goods(S, {"OWED"}, "DROPPED") /\ Money(S, {"KEPT"}, "KEPT")
DropAndClaim(S) == Goods(S, {"OWED"}, "DROPPED") /\ Money(S, {"KEPT"}, "CLAIMED")
Claim(S) == Goods({}, {}, "OWED") /\ Money(S, {"KEPT"}, "CLAIMED")
            /\ \A s \in S : goods[s] \in {"DROPPED", "MISSING", "DELIVERED"}
Return(S) == Money(S, {"CLAIMED"}, "RETURNED") /\ UNCHANGED goods
\* The carrier had the parcel before its label was voided: the claim is
\* withdrawn, for whatever else of the order was dropped with the parcel too.
TakeBack(S) == \E T \in SUBSET Slots : /\ S \subseteq T
                                       /\ Goods(S, {"DROPPED"}, "SENT")
                                       /\ Money(T, {"CLAIMED"}, "KEPT")
Forfeit(S) == Goods(S, {"DROPPED"}, "SENT") /\ Money(S, {"RETURNED"}, "RETURNED")

Next == \E S \in (SUBSET Slots) \ {{}} :
          \/ Send(S) \/ Arrive(S) \/ Lose(S) \/ Redo(S) \/ Drop(S) \/ DropAndClaim(S)
          \/ Claim(S) \/ Return(S) \/ TakeBack(S) \/ Forfeit(S)

Spec == Init /\ [][Next]_vars
=============================================================================
