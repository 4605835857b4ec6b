--------------------------- MODULE ResourcePlanning ---------------------------
(***************************************************************************)
(* The two searches that production planning rests on, as operators:       *)
(* selectCompleteResourcePlan (packages/core/src/resource-plan.ts), which  *)
(* covers every fulfilment slot of an order by machine candidates, and     *)
(* earliestCapacityWindows (candidate-estimate.service.ts), which places   *)
(* the plates of a candidate in the free time of its machine.  Each is     *)
(* compared with a definition of what it should find.                      *)
(***************************************************************************)
EXTENDS Integers, SequencesExt

CONSTANTS
  SlotIds,        \* fulfilment slots of an order, numbers in the order of their ids
  CandidateIds,   \* candidate estimates, numbers in the order of their ids
  Shapes,         \* what a candidate may be: slots, quantity, intervals, expiry, demands
  Circumstances,  \* what a plan is asked for in: [now, occupied, stock, limit]
  Days,           \* availability windows a machine may have: sequences of intervals
  Bookings,       \* occupied intervals, sorted by their start
  PlateLists          \* durations of the plates to place, in order

ASSUME PlanningAssumption ==
  /\ SlotIds \subseteq Nat /\ CandidateIds \subseteq Nat
  /\ \A c \in Circumstances : c.now \in Nat /\ c.stock \in Nat /\ c.limit \in Nat

VARIABLES
  asked,          \* NOTHING, PLAN, WINDOWS
  question,       \* the request, once something was asked
  options,        \* candidate estimates there are to plan with
  answer          \* what the code answers

planningVars == <<asked, question, options, answer>>

overlaps(a, b) == a.from < b.to /\ b.from < a.to
Total(S, amount(_)) == FoldSet(LAMBDA c, sum : sum + amount(c), 0, S)

(***************************************************************************)
(* selectCompleteResourcePlan, for one machine and one lot.  A request is  *)
(* [options, now, occupied, stock, limit], the limit 0 when there is no    *)
(* maximumCapacityIntervalCount; an option is [id, slots, quantity,        *)
(* intervals, expires, material, seconds].                                 *)
(***************************************************************************)
validIntervals(I) ==
  /\ \A i \in I : i.from < i.to
  /\ \A i, j \in I : i # j => ~overlaps(i, j)
intervalDurationSeconds(I) == Total(I, LAMBDA i : i.to - i.from)
\* Some interval of one set meets one of the other.
meet(I, J) == \E i \in I, j \in J : overlaps(i, j)

usable(request) ==
  {c \in request.options :
     /\ request.now < c.expires
     /\ c.intervals # {} /\ validIntervals(c.intervals)
     /\ c.slots # {} /\ c.slots \subseteq SlotIds
     /\ c.quantity \in 1..Cardinality(c.slots)
     /\ \A i \in c.intervals : i.from > request.now
     /\ intervalDurationSeconds(c.intervals) >= c.seconds
     /\ ~meet(c.intervals, request.occupied)}

optionsOf(request, s) == {c \in usable(request) : s \in c.slots}

choiceRank(choice) ==
  <<Cardinality(choice), Total(choice, LAMBDA c : c.material),
    Total(choice, LAMBDA c : c.seconds)>>
    \o SetToSortSeq({c.id : c \in choice}, <)
rankLess(a, b) ==
  \E i \in DOMAIN a \cap DOMAIN b :
    a[i] < b[i] /\ \A j \in 1..(i - 1) : a[j] = b[j]
choiceIsBetter(choice, other) == rankLess(choiceRank(choice), choiceRank(other))

plateCount(choice) == Total(choice, LAMBDA c : Cardinality(c.intervals))
lowest(S, k) == {s \in S : Cardinality({t \in S : t < s}) < k}

\* Mutant: all free slots are taken to be interchangeable.
lowestSelections(request, s, free, quantity) ==
  {{s} \cup lowest(free \ {s}, quantity - 1)}
\* forEachCanonicalSlotSelection: slots that the same options can print are
\* interchangeable, so of each such group the first ones are taken.
canonicalSelections(request, s, free, quantity) ==
  LET alike(t) == {u \in free : optionsOf(request, u) = optionsOf(request, t)}
      others(t) == alike(t) \ {s}
  IN  {sel \in SUBSET free :
         /\ s \in sel /\ Cardinality(sel) = quantity
         /\ \A t \in free : LET part == sel \cap others(t)
                            IN  part = lowest(others(t), Cardinality(part))}

RECURSIVE completeChoices(_, _)
\* search: the complete choices that extend a partial one
completeChoices(request, chosen) ==
  LET covered == UNION {c.slots : c \in chosen}
      s == Min(SlotIds \ covered)
      admissible ==
        {c \in optionsOf(request, s) :
           /\ \A d \in chosen : d.id # c.id /\ ~meet(c.intervals, d.intervals)
           /\ request.limit # 0 => plateCount(chosen) + Cardinality(c.intervals) <= request.limit
           /\ Cardinality(c.slots \ covered) >= c.quantity
           /\ Total(chosen, LAMBDA d : d.material) + c.material <= request.stock}
  IN  IF covered = SlotIds THEN {chosen}
      ELSE UNION {completeChoices(request, chosen \cup {[c EXCEPT !.slots = sel]}) :
                    <<c, sel>> \in
                      UNION {{c} \X canonicalSelections(request, s, c.slots \ covered, c.quantity)
                               : c \in admissible}}

\* {} when no plan covers the order
selectCompleteResourcePlan(request) ==
  LET all == completeChoices(request, {})
  IN  IF \/ ~validIntervals(request.occupied)
         \/ \E s \in SlotIds : optionsOf(request, s) = {}
         \/ all = {} THEN {}
      ELSE CHOOSE choice \in all : \A other \in all : ~choiceIsBetter(other, choice)

(***************************************************************************)
(* earliestCapacityWindows.  A request is [start, day, booked, plates].    *)
(***************************************************************************)
\* The scan over the occupied rows: the first start that none of them meets.
skipBooked(cursor, duration, booked) ==
  FoldLeft(LAMBDA at, r : IF r.to <= at \/ r.from >= at + duration THEN at ELSE r.to,
           cursor, booked)

placeInWindow(duration, booked, state, window) ==
  LET from == IF state.cursor > window.from THEN state.cursor ELSE window.from
      free == IF from + duration > window.to THEN from ELSE skipBooked(from, duration, booked)
  IN  IF state.found THEN state
      ELSE [cursor |-> free, found |-> free + duration <= window.to]

\* The windows of the plates, in order, or <<>> when one of them has no place.
earliestCapacityWindows(request) ==
  LET place(state, duration) ==
        LET end == FoldLeft(LAMBDA st, w : placeInWindow(duration, request.booked, st, w),
                            [cursor |-> state.cursor, found |-> FALSE], request.day)
        IN  IF ~state.ok \/ ~end.found THEN [state EXCEPT !.ok = FALSE]
            ELSE [ok |-> TRUE, cursor |-> end.cursor + duration,
                  windows |-> Append(state.windows, [from |-> end.cursor,
                                                     to |-> end.cursor + duration])]
      result == FoldLeft(place, [ok |-> TRUE, cursor |-> request.start, windows |-> <<>>],
                         request.plates)
  IN  IF result.ok THEN result.windows ELSE <<>>

(***************************************************************************)
(* Candidates come in, and a run asks one question.                        *)
(***************************************************************************)
PlanningInit == asked = "NOTHING" /\ question = <<>> /\ options = {} /\ answer = {}

candidateArrives(shape) ==
  /\ asked = "NOTHING" /\ Cardinality(options) < Cardinality(CandidateIds)
  /\ LET id == Min(CandidateIds \ {c.id : c \in options})
     IN  options' = options \cup {[id |-> id, slots |-> shape.slots, quantity |-> shape.quantity,
                                   intervals |-> shape.intervals, expires |-> shape.expires,
                                   material |-> shape.material, seconds |-> shape.seconds]}
  /\ UNCHANGED <<asked, question, answer>>
askForPlan(c) ==
  /\ asked = "NOTHING" /\ asked' = "PLAN"
  /\ question' = [options |-> options, now |-> c.now, occupied |-> c.occupied,
                  stock |-> c.stock, limit |-> c.limit]
  /\ answer' = selectCompleteResourcePlan(question')
  /\ UNCHANGED options
askForWindows(day, plates) ==
  /\ asked = "NOTHING" /\ options = {} /\ asked' = "WINDOWS"
  /\ \E booked \in Bookings, start \in 0..1 :
       /\ question' = [start |-> start, day |-> day, booked |-> booked, plates |-> plates]
       /\ answer' = earliestCapacityWindows(question')
  /\ UNCHANGED options
PlanningNext ==
  \/ \E shape \in Shapes : candidateArrives(shape)
  \/ \E c \in Circumstances : askForPlan(c)
  \/ \E day \in Days, plates \in PlateLists : askForWindows(day, plates)

(***************************************************************************)
(* Properties.                                                             *)
(***************************************************************************)
\* What a plan is, by the instants of machine time it takes: candidates that live
\* on, whose plates come after now and meet neither each other nor what is occupied,
\* that fit the stock and the plate limit, and can share all slots out among them.
FeasiblePlans(request) ==
  LET instants(i) == i.from..(i.to - 1)
      taken(I) == UNION {instants(i) : i \in I}
  IN  {T \in (SUBSET request.options) \ {{}} :
         /\ \A c \in T :
              /\ c.expires > request.now /\ Cardinality(taken(c.intervals)) >= c.seconds
              /\ Cardinality(taken(c.intervals)) = Total(c.intervals, LAMBDA i : Cardinality(instants(i)))
              /\ taken(c.intervals) \cap (0..request.now \cup taken(request.occupied)) = {}
              /\ \A d \in T \ {c} : taken(c.intervals) \cap taken(d.intervals) = {}
         /\ request.limit # 0 => plateCount(T) <= request.limit
         /\ Total(T, LAMBDA c : c.material) <= request.stock
         /\ \E share \in [SlotIds -> T] :
              \A c \in T : LET mine == {s \in SlotIds : share[s] = c}
                           IN  mine \subseteq c.slots /\ Cardinality(mine) = c.quantity}

\* The search over canonical slot choices finds a plan whenever there is one,
\* what it finds covers every slot exactly once, and no other plan has fewer
\* candidates, less material, less machine time or earlier ids.
PlanIsBest ==
  asked = "PLAN" =>
    LET feasible == FeasiblePlans(question)
    IN  /\ answer = {} <=> feasible = {}
        /\ answer # {} =>
             /\ UNION {c.slots : c \in answer} = SlotIds
             /\ Total(answer, LAMBDA c : Cardinality(c.slots)) = Cardinality(SlotIds)
             /\ \A T \in feasible : ~choiceIsBetter(T, answer)

\* Every plate gets the earliest time after the one before it that lies in an
\* availability window and touches nothing booked; and only when some plate has
\* no such time is the candidate refused.
WindowsAreEarliest ==
  asked = "WINDOWS" =>
    LET fits(t, d) ==
          /\ \E i \in DOMAIN question.day : question.day[i].from <= t /\ t + d <= question.day[i].to
          /\ \A i \in DOMAIN question.booked : ~overlaps([from |-> t, to |-> t + d], question.booked[i])
        earliest(after, d) == {t \in after..20 : fits(t, d) /\ \A u \in after..(t - 1) : ~fits(u, d)}
        start(n) == IF n = 1 THEN question.start ELSE answer[n - 1].to
    IN  IF answer = <<>> THEN
          LET first == earliest(question.start, question.plates[1])
              second(t) == earliest(t + question.plates[1], question.plates[2])
          IN  first = {} \/ (Len(question.plates) = 2 /\ \A t \in first : second(t) = {})
        ELSE \A n \in DOMAIN question.plates :
               /\ answer[n].from \in earliest(start(n), question.plates[n])
               /\ answer[n].to = answer[n].from + question.plates[n]

\* Both searches return what their definitions ask for.
PlanningExact == PlanIsBest /\ WindowsAreEarliest
===============================================================================
