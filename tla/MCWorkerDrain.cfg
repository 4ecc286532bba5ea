CONSTANTS
  o1 = o1
  o2 = o2
  o3 = o3
  j1 = j1
  j2 = j2
  NoOffer = NoOffer
  Jobs <- MCJobs
  Offers <- MCOffers
  JobOf <- MCJobOf
SPECIFICATION Spec
INVARIANT DrainedIsIdle
CHECK_DEADLOCK FALSE
