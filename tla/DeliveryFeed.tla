---------------------------- MODULE DeliveryFeed ----------------------------
(* The Packeta adapter of delivery selections (delivery-capability.port.ts):  *)
(* a process-local copy of the carrier's pickup points, refreshed by whoever  *)
(* asks first, shared while a refresh is in flight and kept for a while when  *)
(* refreshing fails; and the carrier's verdict on each planned parcel.        *)
(* JavaScript runs a callback to its end, so one action is what happens       *)
(* between two awaits.                                                        *)
EXTENDS Integers, FiniteSets

CONSTANTS Selections,       \* concurrent calls of prepareSelection and validateSelection
          Points, Parcels,  \* identifiers of pickup points; parcels are 1..Parcels
          Concurrency,      \* PACKETA_VALIDATION_CONCURRENCY
          RefreshAge, RetryDelay, MaxAge,      \* PACKETA_FEED_REFRESH_MS, _RETRY_DELAY_MS, _MAX_AGE_MS
          MaxFeedTime

ASSUME FeedAges == RefreshAge \in Nat /\ RetryDelay \in Nat /\ MaxAge \in Nat /\ RefreshAge <= MaxAge
ASSUME FeedWorkers == Parcels \in Nat /\ Concurrency \in Nat \ {0}

VARIABLES snapshot,         \* the last complete feed, or none (fetchedAt < 0)
          inFlight,         \* a refresh is running
          retryAfter,       \* not before this time, while the copy is usable
          selections,       \* the calls
          now

feedVars == <<snapshot, inFlight, retryAfter, selections, now>>

NoSnapshot == [fetchedAt |-> -1, points |-> {}]
Unasked == [pc |-> "UNASKED", wants |-> 0, current |-> NoSnapshot, answeredAt |-> 0,
            next |-> <<>>, verdicts |-> <<>>]

FeedInit ==
  /\ snapshot = NoSnapshot
  /\ inFlight = FALSE
  /\ retryAfter = 0
  /\ selections = [s \in Selections |-> Unasked]
  /\ now = 0

Known(feed) == feed.fetchedAt >= 0
staleForever(feed) == Known(feed)
isUsableStaleSnapshot(feed) == Known(feed) /\ now - feed.fetchedAt <= MaxAge

(* pointForSelection: a point the feed lacks is refused; otherwise the        *)
(* parcels are validated, the i-th worker beginning with the i-th parcel.     *)
workerCount == IF Concurrency < Parcels THEN Concurrency ELSE Parcels
pointForSelection(call, feed) ==
  IF call.wants \in feed.points
  THEN [call EXCEPT !.pc = "VALIDATING", !.current = feed, !.answeredAt = now,
                    !.next = [i \in 1..workerCount |-> i],
                    !.verdicts = [p \in 1..Parcels |-> "UNASKED"]]
  ELSE [call EXCEPT !.pc = "REFUSED"]

(* currentSnapshot: fresh enough, or usable while a retry is too early, else  *)
(* wait for the refresh in flight or begin one.                               *)
servesCopy ==
  \/ Known(snapshot) /\ now - snapshot.fetchedAt < RefreshAge
  \/ now < retryAfter /\ isUsableStaleSnapshot(snapshot)

askSelection(s, p) ==
  LET call == [Unasked EXCEPT !.wants = p] IN
  /\ selections[s].pc = "UNASKED"
  /\ \/ /\ servesCopy
        /\ selections' = [selections EXCEPT ![s] = pointForSelection(call, snapshot)]
        /\ UNCHANGED inFlight
     \/ /\ ~servesCopy
        /\ selections' = [selections EXCEPT ![s] = [call EXCEPT !.pc = "WAITING", !.current = snapshot]]
        /\ inFlight' = TRUE
  /\ UNCHANGED <<snapshot, retryAfter, now>>

(* fetchSnapshot: both feeds arrived and some point can be used. *)
fetchSnapshot(points) ==
  LET feed == [fetchedAt |-> now, points |-> points] IN
  /\ inFlight
  /\ inFlight' = FALSE
  /\ snapshot' = feed
  /\ retryAfter' = 0
  /\ selections' = [s \in Selections |->
                      IF selections[s].pc = "WAITING" THEN pointForSelection(selections[s], feed)
                      ELSE selections[s]]
  /\ UNCHANGED now

(* withStaleFallback, for every call that awaited the failed refresh: each    *)
(* falls back on the copy it read when it asked, if that is still usable.     *)
fetchFails ==
  LET falling == {s \in Selections : selections[s].pc = "WAITING"}
      usable == {s \in falling : isUsableStaleSnapshot(selections[s].current)} IN
  /\ inFlight
  /\ inFlight' = FALSE
  /\ retryAfter' = IF usable # {} THEN now + RetryDelay ELSE retryAfter
  /\ selections' = [s \in Selections |->
                      IF s \in usable THEN pointForSelection(selections[s], selections[s].current)
                      ELSE IF s \in falling THEN [selections[s] EXCEPT !.pc = "UNAVAILABLE"]
                      ELSE selections[s]]
  /\ UNCHANGED <<snapshot, now>>

(* validateParcel, by one of the workers: the carrier accepts the parcel, or  *)
(* refuses it or cannot answer in time; the first failure stops every worker. *)
stride(i) == i + workerCount

validateParcel(s, w, fits) ==
  LET call == selections[s]
      p == call.next[w] IN
  /\ call.pc = "VALIDATING"
  /\ w \in DOMAIN call.next /\ p <= Parcels
  /\ LET done == [call EXCEPT !.next[w] = stride(p), !.verdicts[p] = "ACCEPTED"]
         last == \A v \in DOMAIN done.next : done.next[v] > Parcels IN
     selections' = [selections EXCEPT ![s] =
       IF ~fits THEN [call EXCEPT !.pc = "REFUSED", !.verdicts[p] = "REFUSED"]
       ELSE IF last THEN [done EXCEPT !.pc = "RESOLVED"] ELSE done]
  /\ UNCHANGED <<snapshot, inFlight, retryAfter, now>>

(* The caller asks again, about the same or another point. *)
askAgain(s) ==
  /\ selections[s].pc \in {"RESOLVED", "REFUSED", "UNAVAILABLE"}
  /\ selections' = [selections EXCEPT ![s] = Unasked]
  /\ UNCHANGED <<snapshot, inFlight, retryAfter, now>>

FeedTick ==
  /\ now < MaxFeedTime
  /\ now' = now + 1
  /\ UNCHANGED <<snapshot, inFlight, retryAfter, selections>>

FeedNext ==
  \/ \E s \in Selections, p \in Points : askSelection(s, p)
  \/ \E points \in SUBSET Points \ {{}} : fetchSnapshot(points)
  \/ fetchFails
  \/ \E s \in Selections, w \in 1..Concurrency, ok \in BOOLEAN : validateParcel(s, w, ok)
  \/ \E s \in Selections : askAgain(s)
  \/ FeedTick

FeedSpec == FeedInit /\ [][FeedNext]_feedVars

----------------------------------------------------------------------------
(* A resolved selection names a point of a feed that was at most MaxAge old   *)
(* when the point was taken from it, whichever refresh failed in between, and *)
(* the carrier has accepted every parcel; nobody waits without a refresh in   *)
(* flight (currentSnapshot, withStaleFallback, validateSelection).            *)
SelectionSound ==
  /\ \A s \in Selections : selections[s].pc = "RESOLVED" =>
       /\ selections[s].wants \in selections[s].current.points
       /\ selections[s].answeredAt - selections[s].current.fetchedAt <= MaxAge
       /\ \A p \in 1..Parcels : selections[s].verdicts[p] = "ACCEPTED"
  /\ (\E s \in Selections : selections[s].pc = "WAITING") => inFlight
=============================================================================
