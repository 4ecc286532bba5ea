CONSTANTS
  o1 = o1
  o2 = o2
  o3 = o3
  j1 = j1
  j2 = j2
  NoOffer = NoOffer
  Jobs <- MCJobs
  Offers <- MCOffers
  JobOf <- MCJobOf
SPECIFICATION FairSpec
INVARIANTS TypeOK RegisteredWhileLive DrainSettles
PROPERTIES RunsOnce KeepsPromise AcceptanceResolved
CHECK_DEADLOCK FALSE
