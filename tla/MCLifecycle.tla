--------------------------- MODULE MCLifecycle ---------------------------
(* The policies of payments, claims and quotes and the automatic quote share *)
(* no state: a behaviour runs one of them, named by part, while the others   *)
(* rest in their initial state.                                              *)
EXTENDS LifecyclePayment, LifecycleClaim, LifecycleQuote, AutomaticQuotes, TLC

\* A model that raises a warning the customer has to answer.
ItemConfigs == {[warns |-> TRUE, fitSensitive |-> FALSE]}

VARIABLE part
lifecycleVars == <<paymentVars, claimVars, requestVars>>

MCInit ==
  /\ part \in {"payment", "claim", "quote", "automatic"}
  /\ PaymentInit /\ ClaimInit /\ QuoteInit /\ Init
  /\ part # "claim" => origin = "post_delivery_quality" /\ grouped = TRUE

MCNext ==
  \/ /\ part = "payment" /\ PaymentNext
     /\ UNCHANGED <<part, claimVars, requestVars, vars>>
  \/ /\ part = "claim" /\ ClaimNext
     /\ UNCHANGED <<part, paymentVars, requestVars, vars>>
  \/ /\ part = "quote" /\ QuoteNext
     /\ UNCHANGED <<part, paymentVars, claimVars, vars>>
  \/ /\ part = "automatic" /\ Next
     /\ UNCHANGED <<part, lifecycleVars>>

MCSpec == MCInit /\ [][MCNext]_<<part, lifecycleVars, vars>>

\* The slots of a claim and the calls of a session never meet in one behaviour:
\* the cfg gives them the same names, and each part treats its own alike.
MCSymmetry == Permutations(ClaimSlots)
=============================================================================
