----------------------------- MODULE MCSettling -----------------------------
(* Two parts that share no variables and promise an end: the refund work of  *)
(* one Payment, and the slices an automatic quote waits for.  The fairness   *)
(* of the second is required where it runs.                                  *)
EXTENDS Refunds, ReferencePreparation, TLC

CONSTANT a1

VARIABLE part

\* One obligation that is the whole capture.
RequiredWhole == a1 :> 2

MCInit ==
  /\ part \in {"refunds", "references"}
  /\ Init /\ PreparationInit
  /\ part # "references" => plateFit = 1
MCNext ==
  \/ part = "refunds" /\ Next /\ UNCHANGED <<part, preparationVars>>
  \/ part = "references" /\ PreparationNext /\ UNCHANGED <<part, vars>>
MCSpec ==
  /\ MCInit /\ [][MCNext]_<<part, vars, preparationVars>>
  /\ Fairness
  /\ WF_preparationVars(part = "references" /\ prepareReferences)
  /\ WF_preparationVars(part = "references" /\ geometryResult)
  /\ \A n \in Plates : WF_preparationVars(part = "references" /\ sliceResult(n))
==============================================================================
