SPECIFICATION FairSpec
CONSTANTS
  Questions = {1, 2}
  Harnessed = {2}
  Families = {"a", "b"}
  FamilyOf <- MCFamilyOf
  Permitted = {"a", "b"}
  Cap = 2
  MaxAttempts = 2
  RetryAfter = 1
  MaxDecisions = 1
  QuarterLength = 3
  LastWeek = 3
  MaxVersion = 2
  MaxCrashes = 1
INVARIANTS TypeOK DecidedIsOpen InvocationsAreBounded UnmirroredIsACrash
PROPERTIES AnswersAreFinal SupportStopsTheLoop ReadyIsScreened
