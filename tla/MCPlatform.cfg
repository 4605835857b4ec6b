SPECIFICATION MCSpec
CONSTANTS
  Editors = {e1}
  Customers = {c1}
  Texts = {x, y}
  EffectiveDates = {1}
  MaxRevisions = 2
  MaxEdits = 2
  MaxPublications = 3
  MaxLegalTime = 2
  Handlers = {h1, h2}
  Attempts = {1, 2}
  MaxStarts = 2
  MaxSessions = 2
  MaxVersions = 2
  MaxAuthTime = 3
  Workers = {w1, w2}
  RequestSets <- MCRequestSets
  RateNumerator = 5
  RateDenominator = 3
  MaxHandlingSessions = 2
  MaxClock = 3
  Selections = {s1, s2}
  Points = {p1, p2}
  Parcels = 3
  Concurrency = 2
  RefreshAge = 1
  RetryDelay = 1
  MaxAge = 2
  MaxFeedTime = 3
  FillNumerator = 2
  FillDenominator = 3
  PackagingWeight = 1
  Basis = 10
  MaxCandidates = 60
  Subtotals = {0, 1, 2, 3, 6, 9, 13}
  Schedules <- MCSchedules
  VatRates = {0, 1, 10}
  PriceLists <- MCPriceLists
  Orders <- MCOrders
  Destinations <- MCDestinations
  OfferItems <- MCOfferItems
  OfferPlans <- MCOfferPlans
  OfferComponents <- MCOfferComponents
  OfferTotals = {7, 12}
  OfferVats = {0, 1, 2}
  OfferPolicies <- MCOfferPolicies
CHECK_DEADLOCK FALSE
INVARIANTS LegalSound OneLoginOneSession MeasurementSound SelectionSound PricesExact
