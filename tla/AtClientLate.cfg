SPECIFICATION Spec
CONSTANTS
  mainThread = mainThread
  shell = shell
  Callers <- OneCaller
  LineNums <- ToTheEnd
  BufLines = 2
  MaxCmds = 2
  MaxText = 0
  MaxWire = 2
INVARIANT SuccessIsOwnAnswer
