\* One mini future with late bars and a crash, to the end of its grace day,
\* under the fairness of the schedule.  A quote without a bid acts as no
\* quote and is left to the proofs.
SPECIFICATION FairSpec
CONSTANTS
  Products = {1}
  MiniFutures = {1}
  Horizon = 1
  Grace = 1
  LastDay = 2
  MaxCrashes = 1
  QuoteKinds = {"bid", "bare", "knocked_out"}
  Barred = {1}
INVARIANTS
  TypeOK
  DueExitIsStable
  DisagreementIsACrash
PROPERTY EveryEntryIsLabeled
\* The days modelled end.
CHECK_DEADLOCK FALSE
