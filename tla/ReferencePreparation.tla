------------------------ MODULE ReferencePreparation ------------------------
(***************************************************************************)
(* What `prepare` needs from the slicer before an automatic quote has a    *)
(* price: the inspection of the model file, its canonical geometry, a      *)
(* search for the number of copies one plate holds, and the slices of the  *)
(* full, the last and the parcels' own plates.  One item, named by its     *)
(* quantity; slices are named by the copies on their plate and are shared  *)
(* by every quantity of the same model.                                    *)
(***************************************************************************)
EXTENDS Naturals, FiniteSetsExt

CONSTANTS
  Quantities,        \* copies a customer may ask for
  PlateFits,         \* copies a plate may really hold; 0: it cannot be sliced
  ParcelHolds,       \* copies one parcel carries
  MAX_SLICING_JOB_ATTEMPTS,
  MaxConfigurations  \* bound: changes of the item

ASSUME QuantitiesAssumption == Quantities \subseteq Nat \ {0} /\ Quantities # {}
ASSUME PlateAssumption == PlateFits \subseteq Nat /\ ParcelHolds \in Nat \ {0}
ASSUME AttemptsAssumption == MAX_SLICING_JOB_ATTEMPTS \in Nat /\ MaxConfigurations \in Nat

VARIABLES
  plateFit,          \* what this model's plate holds
  inspection,              \* inspection of the attached model file
  quantity,          \* of the item in the draft; 0: none
  bounds,            \* reference_probe_lower_bound, reference_probe_upper_bound
  partsPerPlate,     \* reference_parts_per_plate; 0: not known
  geometry, slices,  \* preprocessing jobs
  configurations     \* changes so far

preparationVars == <<plateFit, inspection, quantity, bounds, partsPerPlate, geometry, slices,
                     configurations>>

Plates == 1..Max(Quantities)
NoAttempt == [attempt |-> 0, state |-> "NONE"]
JobStates == {"NONE", "PENDING", "RETRYABLE", "DEAD", "INVALID", "DONE"}
Jobs == [attempt : 0..MAX_SLICING_JOB_ATTEMPTS, state : JobStates]

(***************************************************************************)
(* Dispatches.                                                             *)
(***************************************************************************)
\* Mutant: a job that was dead-lettered is tried again.
attemptDeadAgain(j) ==
  IF j = NoAttempt \/ (j.state \in {"RETRYABLE", "DEAD"} /\ j.attempt < MAX_SLICING_JOB_ATTEMPTS)
  THEN [attempt |-> j.attempt + 1, state |-> "PENDING"]
  ELSE j
nextPreprocessingAttempt(j) ==
  IF j = NoAttempt \/ (j.state = "RETRYABLE" /\ j.attempt < MAX_SLICING_JOB_ATTEMPTS)
  THEN [attempt |-> j.attempt + 1, state |-> "PENDING"]
  ELSE j

preprocessingDispatchRequiresHandoff(j) ==
  \/ j.state \in {"DEAD", "INVALID"}
  \/ j.state = "RETRYABLE" /\ j.attempt >= MAX_SLICING_JOB_ATTEMPTS
referenceProbeDoesNotFit(j) == j.state = "INVALID"

(***************************************************************************)
(* The search: try the whole quantity first, then halve the interval.      *)
(***************************************************************************)
nextReferenceOccupancyProbe(q, b) ==
  IF b[2] = q + 1 THEN q ELSE (b[1] + b[2]) \div 2
recordReferenceOccupancyProbe(b, n, fits) == IF fits THEN <<n, b[2]>> ELSE <<b[1], n>>

Resolution(kind, b, parts) == [kind |-> kind, bounds |-> b, parts |-> parts]

\* Follow the results there are to the next probe, or to the answer.
resolveReferenceOccupancy(q) ==
  LET probe[b \in (0..q) \X (1..q + 1)] ==
        LET n == nextReferenceOccupancyProbe(q, b)
            j == slices[n]
        IN  IF b[2] = b[1] + 1
            THEN Resolution(IF b[1] = 0 THEN "FAILED" ELSE "RESOLVED", b, b[1])
            ELSE IF j.state = "DONE" \/ referenceProbeDoesNotFit(j)
            THEN probe[recordReferenceOccupancyProbe(b, n, j.state = "DONE")]
            ELSE IF preprocessingDispatchRequiresHandoff(j)
            THEN Resolution("FAILED", b, 0)
            ELSE Resolution("PENDING", b, n)
  IN  IF partsPerPlate # 0 THEN Resolution("RESOLVED", bounds, partsPerPlate)
                           ELSE probe[bounds]

referenceOccupancies(q, parts) == {parts} \cup ({q % parts} \ {0})
Missing(S) == {n \in S : slices[n].state # "DONE"}

\* pricingItemsFromDraft: the primary and the tail plate of the whole quantity.
missingReferenceSlices(r) == Missing(referenceOccupancies(quantity, r.parts))
\* enqueueMissingCandidateReferenceSlices: those of the quantity in each parcel.
candidateParcelDemands(q) == ({ParcelHolds} \cap 1..q) \cup ({q % ParcelHolds} \ {0})
missingCandidateSlices(r) ==
  Missing(UNION {referenceOccupancies(d, Min({r.parts, d})) : d \in candidateParcelDemands(quantity)})

(***************************************************************************)
(* What the session shows of it.                                           *)
(***************************************************************************)
Resolved == resolveReferenceOccupancy(quantity)
ReadyToPrice ==
  /\ quantity # 0
  /\ geometry.state = "DONE"
  /\ Resolved.kind = "RESOLVED"
  /\ missingReferenceSlices(Resolved) = {}
  /\ missingCandidateSlices(Resolved) = {}
preprocessingRequiresHandoff ==
  /\ quantity # 0
  /\ IF geometry.state # "DONE" THEN preprocessingDispatchRequiresHandoff(geometry)
     ELSE \/ Resolved.kind = "FAILED"
          \/ /\ Resolved.kind = "RESOLVED"
             /\ \E n \in missingReferenceSlices(Resolved) :
                  preprocessingDispatchRequiresHandoff(slices[n])
          \/ /\ Resolved.kind = "RESOLVED"
             /\ missingReferenceSlices(Resolved) = {}
             /\ \E n \in missingCandidateSlices(Resolved) :
                  preprocessingDispatchRequiresHandoff(slices[n])

PreparationInit ==
  /\ plateFit \in PlateFits
  /\ inspection = "NONE"
  /\ quantity = 0 /\ bounds = <<0, 1>> /\ partsPerPlate = 0
  /\ geometry = NoAttempt /\ slices = [n \in Plates |-> NoAttempt]
  /\ configurations = 0

attachModelFile ==
  /\ inspection = "NONE"
  /\ inspection' = "INSPECTING"
  /\ UNCHANGED <<plateFit, quantity, bounds, partsPerPlate, geometry, slices, configurations>>

\* configureItem and replaceConfiguration start the search again; removeItem
\* leaves nothing to search for.
configureItem(q) ==
  /\ inspection = "READY" /\ q # quantity
  /\ configurations < MaxConfigurations
  /\ quantity' = q
  /\ bounds' = <<0, q + 1>>
  /\ partsPerPlate' = 0
  /\ configurations' = configurations + 1
  /\ UNCHANGED <<plateFit, inspection, geometry, slices>>

\* The part of prepare that runs until nothing is left to enqueue.
prepareReferences ==
  /\ quantity # 0
  /\ IF geometry.state # "DONE"
     THEN /\ geometry' = nextPreprocessingAttempt(geometry)
          /\ UNCHANGED <<bounds, partsPerPlate, slices>>
     ELSE LET r == Resolved
              wanted == CASE r.kind = "PENDING" -> {r.parts}
                          [] r.kind = "FAILED" -> {}
                          [] r.kind = "RESOLVED" /\ missingReferenceSlices(r) # {} ->
                               missingReferenceSlices(r)
                          [] OTHER -> missingCandidateSlices(r)
          IN /\ bounds' = r.bounds
             /\ partsPerPlate' = IF r.kind = "RESOLVED" THEN r.parts ELSE 0
             /\ slices' = [n \in Plates |-> IF n \in wanted
                             THEN nextPreprocessingAttempt(slices[n]) ELSE slices[n]]
             /\ UNCHANGED geometry
  /\ UNCHANGED <<plateFit, inspection, quantity, configurations>>

(***************************************************************************)
(* The slicer's answers.  DEAD: dead-lettered, or refused for a reason no  *)
(* retry changes; INVALID: the plate is too full.                          *)
(***************************************************************************)
Answers(fits) == {"RETRYABLE", "DEAD", IF fits THEN "DONE" ELSE "INVALID"}

inspectionResult ==
  /\ inspection = "INSPECTING"
  /\ inspection' \in {"READY", "REJECTED"}
  /\ UNCHANGED <<plateFit, quantity, bounds, partsPerPlate, geometry, slices, configurations>>
geometryResult ==
  /\ geometry.state = "PENDING"
  /\ \E a \in Answers(TRUE) : geometry' = [geometry EXCEPT !.state = a]
  /\ UNCHANGED <<plateFit, inspection, quantity, bounds, partsPerPlate, slices, configurations>>
sliceResult(n) ==
  /\ slices[n].state = "PENDING"
  /\ \E a \in Answers(n <= plateFit) : slices' = [slices EXCEPT ![n].state = a]
  /\ UNCHANGED <<plateFit, inspection, quantity, bounds, partsPerPlate, geometry, configurations>>

PreparationNext ==
  \/ attachModelFile \/ inspectionResult
  \/ \E q \in Quantities \cup {0} : configureItem(q)
  \/ prepareReferences
  \/ geometryResult
  \/ \E n \in Plates : sliceResult(n)

\* The page keeps preparing while it is open, and dispatch and dead-lettering
\* answer every job (SlicingDispatch!AcceptedIsDecided).
PreparationFairness ==
  /\ WF_preparationVars(prepareReferences)
  /\ WF_preparationVars(geometryResult)
  /\ \A n \in Plates : WF_preparationVars(sliceResult(n))

PreparationSpec == PreparationInit /\ [][PreparationNext]_preparationVars
FairPreparationSpec == PreparationSpec /\ PreparationFairness

-----------------------------------------------------------------------------
\* Every variable of the preparation has its type.
PreparationTypeOK ==
  /\ plateFit \in PlateFits
  /\ inspection \in {"NONE", "INSPECTING", "READY", "REJECTED"}
  /\ quantity \in Quantities \cup {0}
  /\ bounds \in Nat \X Nat
  /\ partsPerPlate \in Nat
  /\ geometry \in Jobs /\ slices \in [Plates -> Jobs]
  /\ configurations \in 0..MaxConfigurations

\* The occupancy a price is based on is what a plate really holds, whatever
\* order results, retries and changes of quantity came in
\* (resolveReferenceOccupancy, recordReferenceOccupancyProbe).
ProbeExact == partsPerPlate # 0 => partsPerPlate = Min({quantity, plateFit})

\* A configuration that became ready, or was sent to an assisted quote, stays so
\* while it is kept: later prepares never take an answer back
\* (prepare, nextPreprocessingAttempt, preprocessingRequiresHandoff).
AnswerKept ==
  [][quantity' = quantity => /\ ReadyToPrice => ReadyToPrice'
                             /\ preprocessingRequiresHandoff => preprocessingRequiresHandoff'
    ]_preparationVars

\* A configured item is eventually priceable or handed over, whatever fails on
\* the way (prepare, nextPreprocessingAttempt).
PreparationDecided == quantity # 0 ~> (ReadyToPrice \/ preprocessingRequiresHandoff \/ quantity = 0)

\* The slicing an automatic quote waits for is answered once, exactly, and in
\* the end: the probe finds what fits, a kept answer stays, and every draft
\* becomes priceable or is handed to a person.
PreparationSound == []ProbeExact /\ AnswerKept /\ PreparationDecided
=============================================================================
