SPECIFICATION MCSpec
CONSTANTS
  r1 = r1
  r2 = r2
  r3 = r3
  NoOne = NoOne
  Requests = {r1, r2}
  Offers <- SomeOffers
  MostAntics = 3
  AbortInSend = FALSE
SYMMETRY Symmetric
INVARIANTS ToldOnce CounterExact NamesReturned OwnAnswer DataPassedOn JsonReadsBack
CHECK_DEADLOCK FALSE
