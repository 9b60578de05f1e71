SPECIFICATION FairSpec
CONSTANTS
  mainThread = mainThread
  shell = shell
  Callers <- TwoCallers
  LineNums <- AnyLineNum
  BufLines = 1
  MaxCmds = 2
  MaxText = 1
  MaxWire = 2
INVARIANTS
  RespOwnedByCaller
  NoticeBounded
  CountedLinesStored
  AnswersMatchUntilTimeout
PROPERTY ExecReturns
