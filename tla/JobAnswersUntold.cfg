SPECIFICATION AnswerSpec
CONSTANTS
  Machine = {w1}
  Player = {l1}
  MaxAsked = 1
  GiveUpAfter = 2
  Stale = 1
  AliveWithin = 1
  MaxDeaths = 2
  Never = Never
INVARIANT FailureIsTold
CHECK_DEADLOCK FALSE
