SPECIFICATION PartsSpec
CONSTANTS
  ask = ask
  yes = yes
  no = no
  join = join
  both = both
  side = side
  Nodes <- MCNodes
  Edges <- MCEdges
  Ifs <- MCIfs
  Remote <- MCRemote
  Limit = 2
  Parts = {"run", "work", "follow", "download"}
  Kinds = {"remote", "local", "wsl", "path", "upload"}
  Workflows = {3}
  Downloads = {1, 2}
  After = 0
  MaxClock = 1
  MaxStrays = 1
  Blocks = 2
  Cancelable = {3}
INVARIANTS
  SkipsWhatItShould
  StoppedIsNoSuccess
  BrokenNeverLooksFinished
PROPERTIES
  CancelCompletes
  StepIsAnswered
  CancelStopsTheCommand
  WorkflowStepEnds
\* A command may be canceled, and the GitHub steps may all be done.
CHECK_DEADLOCK FALSE
