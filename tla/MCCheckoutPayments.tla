------------------------- MODULE MCCheckoutPayments -------------------------
(* Instances of CheckoutPayments for TLC.                                   *)
EXTENDS CheckoutPayments, TLC

Symmetry == Permutations(Payments) \cup Permutations(Handlers)

\* Bound: requests race about the reservation of one attempt, or serve an
\* attempt and its retry on the first reservation with one
\* request of each kind at a time.
OneRace ==
    \/ Cardinality({p \in Payments : status[p] # "NONE"}) <= 1
    \/ /\ Cardinality({h \in Handlers : handler[h] # Idle}) <= 1
       /\ Cardinality({p \in Payments : creator[p] \notin {"none", "done"}}) <= 1
       /\ \A g \in Sets \ {1} : sets[g] = "NONE"
=============================================================================
