---------------------------- MODULE Measurement ----------------------------
(* Handling time, its cost and its allocation to orders, and the append-only  *)
(* cost evidence (measurement.service.ts, core/metrics/handling.ts, and the   *)
(* constraints the database checks when a command commits).  A request is a   *)
(* record the client may send again with the same Idempotency-Key; a command  *)
(* is one transaction, split at its lock.                                     *)
EXTENDS Integers, FiniteSets, Functions, Sequences

CONSTANTS Workers,          \* concurrent requests
          RequestSets,      \* what the clients may ask, one set for a behaviour
          RateNumerator, RateDenominator,      \* labor cost of a unit of time
          MaxHandlingSessions, MaxClock

(* Targets are rows, amounts and times are not negative, and an id is not the *)
(* number that stands for none.  A target's key has a place in the order of   *)
(* code units, by which the service compares (id), and one in the order of    *)
(* the database's collation (collated).                                       *)
ASSUME RateAssumption == RateNumerator \in Nat /\ RateDenominator \in Nat \ {0}
ASSUME RequestsAssumption ==
  \A R \in RequestSets : \A r \in R :
    /\ r.kind \in {"complete", "manual"}
         => IsFiniteSet(r.targets) /\ \A t \in r.targets : t.id \in Nat /\ t.collated \in Nat /\ t.units \in Nat
    /\ r.kind = "manual" => r.from \in Nat /\ r.to \in Nat
    /\ r.kind = "evidence" => r.row.source # 0

VARIABLES handlingSessions, \* handling_sessions with their allocations, in order of creation
          evidence,         \* order_actual_costs and acquisition_spend
          completed,        \* idempotency records: the requests answered
          workers,          \* what each request has done
          asked,            \* the set of requests of this behaviour
          clock

measurementVars == <<handlingSessions, evidence, completed, workers, asked, clock>>

Resting == [pc |-> "RESTING", req |-> [kind |-> "none"], at |-> 0]

MeasurementInit ==
  /\ handlingSessions = <<>>
  /\ evidence = {}
  /\ completed = {}
  /\ workers = [w \in Workers |-> Resting]
  /\ asked \in RequestSets
  /\ clock = 1

----------------------------------------------------------------------------
(* core/metrics/handling.ts: the cost of a session, rounded up once, and the  *)
(* largest-remainder split of time and cost by served units.                  *)
calculateHandlingCostMinor(duration) ==
  (duration * RateNumerator + RateDenominator - 1) \div RateDenominator

validateTargets(targets) ==
  /\ targets # {}
  /\ \A t \in targets : t.units > 0
  /\ \A t, u \in targets : t.id = u.id => t = u

allocateByServedUnits(total, targets) ==
  LET units == SumFunctionOnSet([t \in targets |-> t.units], targets)
      floor == [t \in targets |-> (total * t.units) \div units]
      remainder == [t \in targets |-> (total * t.units) % units]
      remaining == total - SumFunctionOnSet(floor, targets)
      before == [t \in targets |->
                   {u \in targets : \/ remainder[u] > remainder[t]
                                    \/ remainder[u] = remainder[t] /\ u.id < t.id}] IN
  [t \in targets |-> floor[t] + (IF Cardinality(before[t]) < remaining THEN 1 ELSE 0)]

(* assertAllocationLineage: which targets a component may be allocated to. *)
lineageAllowed(component, targets) ==
  /\ component = "HANDLING_ORDER_FIX" => Cardinality(targets) = 1
  /\ \A t \in targets :
       /\ t.phase => component = "POSTPROCESSING_ITEM"
       /\ component = "HANDLING_ORDER_FIX" => ~t.item /\ ~t.job /\ ~t.shipment /\ t.units = 1
       /\ component \in {"HANDLING_PLATE", "HANDLING_PIECE"} => t.item /\ ~t.shipment
       /\ component \in {"HANDLING_PACK", "SHIPPING_TRIP"} => t.shipment /\ ~t.item /\ ~t.job /\ t.units = 1
       /\ component = "POSTPROCESSING_ITEM" => t.item /\ t.phase /\ ~t.job /\ ~t.shipment /\ t.units = 1
       /\ t.known                        \* rows of this order, and the order's jobs are all of this node

(* The trigger's own rule for an allocation row, and its phase. *)
lineageTriggers(component, t) ==
  /\ component = "HANDLING_ORDER_FIX" => ~(t.item \/ t.job \/ t.shipment \/ t.units # 1)
  /\ component \in {"HANDLING_PLATE", "HANDLING_PIECE"} => ~(~t.item \/ t.shipment)
  /\ component \in {"HANDLING_PACK", "SHIPPING_TRIP"} => ~(~t.shipment \/ t.item \/ t.job \/ t.units # 1)
  /\ IF component = "POSTPROCESSING_ITEM"
     THEN ~(~t.item \/ ~t.phase \/ t.job \/ t.shipment \/ t.units # 1)
     ELSE ~t.phase
  /\ t.known

----------------------------------------------------------------------------
(* command: the key is locked, then looked up.  The record is written with    *)
(* the answer or, with everything else, not at all.                           *)
namespace(r) == <<r.kind, r.op, r.session, r.key>>
keyFree(r) == \A w \in Workers : workers[w].pc # "RESTING" => namespace(workers[w].req) # namespace(r)
replayed(r) == \E q \in completed : namespace(q) = namespace(r)   \* the same answer, or a conflict

command(w, r) ==
  /\ workers[w].pc = "RESTING"
  /\ keyFree(r)
  /\ ~replayed(r)
  /\ workers' = [workers EXCEPT ![w] = [pc |-> "BEGUN", req |-> r, at |-> clock]]
  /\ UNCHANGED <<handlingSessions, evidence, completed, clock, asked>>

operatorFree(op) == \A w \in Workers : workers[w].pc = "LOCKED" => workers[w].req.op # op

(* The time a command writes is the database's, read once the lock is held.   *)
clockAsBegun(w) == workers[w].at
clockWhenLocked(w) == clock

lockHandlingOperator(w) ==
  /\ workers[w].pc = "BEGUN"
  /\ workers[w].req.kind \in {"start", "complete", "manual"}
  /\ operatorFree(workers[w].req.op)
  /\ workers' = [workers EXCEPT ![w].pc = "LOCKED", ![w].at = clockWhenLocked(w)]
  /\ UNCHANGED <<handlingSessions, evidence, completed, clock, asked>>

Rejected(w) ==
  /\ workers' = [workers EXCEPT ![w] = Resting]
  /\ UNCHANGED <<handlingSessions, evidence, completed, clock, asked>>

(* What the database checks at commit: one open timer, no overlap of an       *)
(* operator's sessions unless voided, the rows' shape, the allocations.       *)
Counted(S) == {i \in DOMAIN S : S[i].lifecycle # "VOIDED"}
Disjoint(s, t) == s.op # t.op \/ (s.to # 0 /\ s.to <= t.from) \/ (t.to # 0 /\ t.to <= s.from)
shares(s, field) == SumFunctionOnSet(s[field], s.targets)

(* The shares the trigger computes for itself and compares: one more for the  *)
(* first remaining ranks, by remainder and then by the collated key.          *)
databaseShares(total, targets) ==
  LET units == SumFunctionOnSet([t \in targets |-> t.units], targets)
      floor == [t \in targets |-> (total * t.units) \div units]
      remainder == [t \in targets |-> (total * t.units) % units]
      remaining == total - SumFunctionOnSet(floor, targets)
      rank == [t \in targets |->
                 1 + Cardinality({u \in targets :
                       \/ remainder[u] > remainder[t]
                       \/ remainder[u] = remainder[t] /\ u.collated < t.collated})] IN
  [t \in targets |-> floor[t] + (IF rank[t] <= remaining THEN 1 ELSE 0)]

reconciled(s) ==
  LET cost == calculateHandlingCostMinor(s.to - s.from) IN
  /\ s.lifecycle = "COMPLETED" =>
       /\ s.to > s.from
       /\ s.targets # {} /\ \A t \in s.targets : lineageTriggers(s.component, t)
       /\ s.component = "HANDLING_ORDER_FIX" => Cardinality(s.targets) = 1
       /\ shares(s, "durations") = s.to - s.from /\ shares(s, "costs") = cost
       /\ s.durations = databaseShares(s.to - s.from, s.targets)
       /\ s.costs = databaseShares(cost, s.targets)
  /\ s.lifecycle = "OPEN" => s.source # "MANUAL" /\ s.targets = {}

databaseAccepts(S) ==
  /\ \A i, j \in Counted(S) : i # j => Disjoint(S[i], S[j])
  /\ \A i \in DOMAIN S : reconciled(S[i])

Commit(w, S) ==
  IF databaseAccepts(S)
  THEN /\ handlingSessions' = S
       /\ completed' = completed \cup {workers[w].req}
       /\ workers' = [workers EXCEPT ![w] = Resting]
       /\ UNCHANGED <<evidence, clock, asked>>
  ELSE /\ workers' = [workers EXCEPT ![w].pc = "REFUSED"]          \* an internal error for the client
       /\ UNCHANGED <<handlingSessions, evidence, completed, clock, asked>>

Open(r, source, from) ==
  [op |-> r.op, component |-> r.component, source |-> source, lifecycle |-> "OPEN",
   from |-> from, to |-> 0, targets |-> {}, durations |-> <<>>, costs |-> <<>>]

(* completeSession and writeAllocations. *)
completeSession(s, endedAt, targets) ==
  LET cost == calculateHandlingCostMinor(endedAt - s.from) IN
  [s EXCEPT !.lifecycle = "COMPLETED", !.to = endedAt, !.targets = targets,
            !.durations = allocateByServedUnits(endedAt - s.from, targets),
            !.costs = allocateByServedUnits(cost, targets)]

start(w) ==
  LET r == workers[w].req IN
  /\ workers[w].pc = "LOCKED" /\ r.kind = "start"
  /\ IF \E i \in DOMAIN handlingSessions :
          /\ handlingSessions[i].op = r.op
          /\ handlingSessions[i].source = "TIMER" /\ handlingSessions[i].lifecycle = "OPEN"
     THEN Rejected(w)                                              \* the unique violation it catches
     ELSE /\ Len(handlingSessions) < MaxHandlingSessions
          /\ Commit(w, Append(handlingSessions, Open(r, "TIMER", workers[w].at)))

complete(w) ==
  LET r == workers[w].req IN
  /\ workers[w].pc = "LOCKED" /\ r.kind = "complete"
  /\ IF /\ r.session \in DOMAIN handlingSessions
        /\ handlingSessions[r.session].op = r.op
        /\ handlingSessions[r.session].lifecycle = "OPEN"
        /\ workers[w].at > handlingSessions[r.session].from
        /\ lineageAllowed(handlingSessions[r.session].component, r.targets)
        /\ validateTargets(r.targets)
     THEN Commit(w, [handlingSessions EXCEPT ![r.session] = completeSession(@, workers[w].at, r.targets)])
     ELSE Rejected(w)

(* A manual record must not overlap any session of the operator that counts. *)
overlapsCounted(r) ==
  \E i \in DOMAIN handlingSessions :
    LET s == handlingSessions[i] IN
    /\ s.op = r.op
    /\ s.lifecycle \in {"OPEN", "COMPLETED"}
    /\ s.from < r.to
    /\ s.lifecycle = "OPEN" \/ s.to > r.from

recordManual(w) ==
  LET r == workers[w].req IN
  /\ workers[w].pc = "LOCKED" /\ r.kind = "manual"
  /\ IF /\ r.from < r.to /\ r.to <= workers[w].at /\ ~overlapsCounted(r)
        /\ lineageAllowed(r.component, r.targets) /\ validateTargets(r.targets)
     THEN /\ Len(handlingSessions) < MaxHandlingSessions
          /\ Commit(w, Append(handlingSessions, completeSession(Open(r, "MANUAL", r.from), r.to, r.targets)))
     ELSE Rejected(w)

(* Voiding takes the session's row, not the operator's lock. *)
void(w) ==
  LET r == workers[w].req IN
  /\ workers[w].pc = "BEGUN" /\ r.kind = "void"
  /\ IF r.session \in DOMAIN handlingSessions /\ handlingSessions[r.session].lifecycle # "VOIDED"
     THEN Commit(w, [handlingSessions EXCEPT ![r.session].lifecycle = "VOIDED"])
     ELSE Rejected(w)

(* recordActualCost and recordAcquisitionSpend: a correction keeps the scope  *)
(* (order and category, or channel) of what it replaces; a source and a       *)
(* replaced row are used once, by the unique keys.                            *)
Superseded(row) == \E e \in evidence : e.ledger = row.ledger /\ e.supersedes = row.source
supersessionAllowed(row) ==
  row.supersedes = 0 \/ \E e \in evidence :
                          e.ledger = row.ledger /\ e.source = row.supersedes /\ e.scope = row.scope
uniqueEvidence(row) ==
  \A e \in evidence : e.ledger = row.ledger =>
    e.source # row.source /\ (row.supersedes # 0 => e.supersedes # row.supersedes)

recordEvidence(w) ==
  LET r == workers[w].req IN
  /\ workers[w].pc = "BEGUN" /\ r.kind = "evidence"
  /\ IF supersessionAllowed(r.row) /\ uniqueEvidence(r.row)
     THEN /\ evidence' = evidence \cup {r.row}
          /\ completed' = completed \cup {r}
          /\ workers' = [workers EXCEPT ![w] = Resting]
          /\ UNCHANGED <<handlingSessions, clock, asked>>
     ELSE Rejected(w)

MeasurementTick ==
  /\ clock < MaxClock
  /\ clock' = clock + 1
  /\ UNCHANGED <<handlingSessions, evidence, completed, workers, asked>>

MeasurementNext ==
  \/ \E w \in Workers, r \in asked : command(w, r)
  \/ \E w \in Workers : lockHandlingOperator(w) \/ start(w) \/ complete(w) \/ recordManual(w)
                          \/ void(w) \/ recordEvidence(w)
  \/ MeasurementTick

MeasurementSpec == MeasurementInit /\ [][MeasurementNext]_measurementVars

----------------------------------------------------------------------------
(* Whatever commands overlap, a handling command the service accepts is one   *)
(* the database accepts: the client gets an answer, never an internal error   *)
(* from the exclusion of overlapping sessions, the allocation triggers or the *)
(* reconciliation of shares (lockHandlingOperator, recordManual,              *)
(* assertAllocationLineage, allocateHandlingSession).  Of the two rankings of *)
(* shares it holds where the two orders of keys are alike.                    *)
KeysAlike ==
  \A R \in RequestSets : \A r \in R : r.kind \in {"complete", "manual"} =>
    \A t, u \in r.targets : t.id < u.id <=> t.collated < u.collated
ServiceAgreesWithDatabase == \A w \in Workers : workers[w].pc # "REFUSED"

(* Corrections of a cost never fork: every recorded chain has exactly one row *)
(* that is current, in the scope of the row it began with.                    *)
(* (assertActualCostSupersession, assertSpendSupersession.)                   *)
OneCurrentRow ==
  \A ledger \in {e.ledger : e \in evidence}, scope \in {e.scope : e \in evidence} :
    LET rows == {e \in evidence : e.ledger = ledger /\ e.scope = scope} IN
    Cardinality({e \in rows : ~Superseded(e)}) = Cardinality({e \in rows : e.supersedes = 0})

\* A measurement the service accepts is one the database accepts, and it is
\* counted once.
MeasurementSound == ServiceAgreesWithDatabase /\ OneCurrentRow
=============================================================================
