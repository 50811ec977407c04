CONSTANTS
    MaxTabs = 2
    MaxOpen = 1
    MaxOutput = 1
    MaxInputs = 2
SPECIFICATION TerminalsSpec
PROPERTIES
  ClosedTabEndsItsShell
  LastWordsArrive
  InputInOrder
CHECK_DEADLOCK FALSE
