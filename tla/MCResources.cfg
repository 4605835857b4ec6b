SPECIFICATION MCSpec
CONSTANTS
  SlotIds = {1, 2, 3}
  CandidateIds = {1, 2, 3}
  Shapes <- MCShapes
  Circumstances <- MCCircumstances
  Days <- MCDays
  Bookings <- MCBookings
  PlateLists <- MCPlates
  EstimateJobs = {1, 2}
  PhaseMaps <- MCPhaseMaps
  ExpressPhases = {2}
  Grams <- MCGrams
  Calendars <- MCCalendars
  Deltas <- MCDeltas
  Deliveries = {5}
  SearchHorizon = 10
  CandidateTTL = 4
  ReservationTTL = 2
  MaxDispatches = 3
  MaxVersion = 2
  MaxClock = 3
  MaxCatalogChanges = 3
  Units = {1, 2}
  Transactions = {t1, t2, t3}
  Operations = {"ingest", "reserve", "recovery", "capture", "settle", "releaseOne", "availability", "catalog"}
  Requests = {r1, r2}
  Reviewed = {r1}
  ClientMaxIssued = 2
  RetentionDays = 1
  MaxJobAttempts = 2
  HandoffExpires = 2
  MaxTime = 3
  MaxRevision = 2
  MaxOffers = 2
  Nodes = {n1, n2}
  Contacts = {c1, c2}
  Payments = {p1, p2}
  MaxPlans = 2
CHECK_DEADLOCK FALSE
INVARIANTS PlanningExact ReservationsSound NoCircularWait RequestSound IndividualSound
