SPECIFICATION Spec
CONSTANTS
  MAXASIZE = 8
  LUA_MAXINTEGER = 15
  Tables <- MCTables
  RANLIMIT = 4
  IMBALANCE = 1
  Randoms = {0, 1, 3}
  SortInputs <- MCSortInputs
  LUA_MAXCAPTURES = 2
  MAXCCALLS = 9
  Questions <- MCQuestions
  Subjects <- MCSubjects
INVARIANTS TableAnswers SortRight MatchAgrees
CHECK_DEADLOCK FALSE
