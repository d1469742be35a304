CONSTANTS
  c1 = c1
  c2 = c2
  Client = {c1, c2}
  Kinds <- MCKinds
  MaxStmts <- MCMaxStmts
  MaxTrouble = 1
  None = None
SPECIFICATION Spec
CHECK_DEADLOCK FALSE
INVARIANTS SessionsApart ToldIsLogged RefusedHasNoEffect NothingLeaks AnswerMatches
PROPERTIES Answered
