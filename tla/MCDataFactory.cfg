SPECIFICATION Spec
CONSTANTS
  s1 = s1  s2 = s2  q1 = q1  q2 = q2  q3 = q3  ann = ann
  Questions = {q1, q2, q3}
  People = {ann}
  Nobody = Nobody
  Series = {s1, s2}
  QuestionOf <- MCQuestionOf
  Catalog = {q3}
  Outcomes <- MCOutcomes
  TopMilestone = 2
  MaxPolicy = 2
  MaxMoves = 2
  MaxCrashes = 1
INVARIANTS TypeOK HandoffIsSound TrialDiscipline
PROPERTY ImplementsQueue
SYMMETRY Swap
