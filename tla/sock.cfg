SPECIFICATION FairSpec
CONSTANTS
  c1 = c1
  c2 = c2
  Nobody = Nobody
  Clients = {c1, c2}
  Units = 2
  Word = 2
  AcceptQueue = 1
  MaxLines = 2
INVARIANTS NeverBothWait AnswersInStep ServerSurvives
PROPERTY LineAnswered
CHECK_DEADLOCK FALSE
