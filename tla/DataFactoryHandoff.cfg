\* One series, one milestone, one interruption.
SPECIFICATION FairSpec
CONSTANTS
  s1 = s1  s2 = s2  q1 = q1  q2 = q2  q3 = q3  ann = ann
  Questions = {q1, q2, q3}
  People = {ann}
  Nobody = Nobody
  Series = {s1, s2}
  QuestionOf <- MCQuestionOf
  Catalog = {q3}
  Outcomes <- MCOutcomes
  TopMilestone = 1
  MaxPolicy = 1
  MaxMoves = 0
  MaxCrashes = 1
PROPERTY InterruptedRunReproposes
