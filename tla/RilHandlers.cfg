SPECIFICATION FairSpec
CONSTANTS
  Workloads <- MCWorkloads
  Files <- MCFiles
  EnapWait = 1
  Repolls = 2
CHECK_DEADLOCK FALSE
INVARIANTS
  CompletedOnce
  AnswersHandled
  CharsetRestored
  VerdictOfThisCall
  StateSettles
  TornDown
  ScreenLockReleased
  QuietWhenScreenOff
  ReadsTheFileAsked
PROPERTIES
  ImplementsMailbox
  SelectionAnswered
  MessagesShown
