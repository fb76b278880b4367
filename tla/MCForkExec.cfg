SPECIFICATION FairSpec
CONSTANTS
  Fds = {0, 1, 2, 3, 4, 5, 6, 7}
  Opened = {0, 1, 2, 3}
  Sources <- MCSources
  Flags <- MCFlags
INVARIANTS
  TypeOK
  AnswerIsTrue
  PidsAreTrue
  CallerUnchanged
  CommandSees
PROPERTIES
  CallReturns
