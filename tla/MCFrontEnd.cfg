CONSTANTS
  Nowhere = nowhere
  Callers = {c1, c2}
  Submissions <- MCSubmissions
  Statuses <- MCStatuses
  Starts <- MCStarts
SPECIFICATION FairSpec
INVARIANTS
  WalkExact
  ConfigFirst
  OutputsApart
  AnswersAgree
PROPERTY
  EverythingEnds
CHECK_DEADLOCK FALSE
