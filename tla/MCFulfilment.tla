---------------------------- MODULE MCFulfilment ----------------------------
EXTENDS Fulfilment, TLC

CONSTANTS s1, s2, p1, p2, p3

\* Two parcels paid at once, and one parcel with two jobs and a balance due.
TwoParcels == [parcel |-> s1 :> p1 @@ s2 :> p2, split |-> FALSE]
OneParcelOnDeposit == [parcel |-> s1 :> p3 @@ s2 :> p3, split |-> TRUE]
OrderShapes == {TwoParcels, OneParcelOnDeposit}

\* Both shapes are unchanged when their slots change places with their parcels.
SlotSymmetry == {f \in Permutations({s1, s2, p1, p2}) :
                   {f[s1], f[s2]} = {s1, s2} /\ (f[s1] = s1 <=> f[p1] = p1)}
=============================================================================
