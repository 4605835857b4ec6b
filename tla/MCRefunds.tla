----------------------------- MODULE MCRefunds -----------------------------
(* Three parts that share no variables: the refund work of one Payment, the  *)
(* policies of an order with its phase, jobs and parcels, and the            *)
(* preparation of a recovery.  A behaviour runs one of them while the others *)
(* rest in their initial state.                                              *)
EXTENDS Refunds, LifecycleOrder, RecoveryPreparation, TLC

CONSTANTS a1, a2, s1, s2, p1, p2, w1, w2, o1, o2, k1, k2

VARIABLE part

\* Two obligations that share the capture.
RequiredShared == a1 :> 1 @@ a2 :> 2

\* Two jobs of a parcel, which draw on one lot.
MCSourceNeeds == <<1, 1>>

MCInit ==
  /\ part \in {"refunds", "order", "recovery"}
  /\ Init /\ OrderInit /\ RecoveryInit
  /\ part # "order" => parcelOf = [s \in Slots |-> p1] /\ deposit = FALSE
  /\ part # "recovery" => recoveryKind = "JOB_REPLACEMENT"
MCNext ==
  \/ part = "refunds" /\ Next /\ UNCHANGED <<part, orderVars, recoveryVars>>
  \/ part = "order" /\ OrderNext /\ UNCHANGED <<part, vars, recoveryVars>>
  \/ part = "recovery" /\ RecoveryNext /\ UNCHANGED <<part, vars, orderVars>>
MCSpec == MCInit /\ [][MCNext]_<<part, vars, orderVars, recoveryVars>>

\* The order starts with any assignment of its slots to parcels, so slots and
\* parcels may change places; they do so together.  Operators and keys of a recovery
\* never meet them or the workers in one behaviour: they change places with them.
Swap(x, y) == x :> y @@ y :> x
Symmetry ==
  {f @@ g @@ h :
     f \in Permutations(Refunds),
     g \in {[x \in {w1, w2, k1, k2} |-> x], Swap(w1, w2) @@ Swap(k1, k2)},
     h \in {[x \in {s1, s2, p1, p2, o1, o2} |-> x], Swap(s1, s2) @@ Swap(p1, p2) @@ Swap(o1, o2)}}
=============================================================================
