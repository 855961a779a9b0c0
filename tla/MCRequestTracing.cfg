SPECIFICATION FairSpec
CONSTANTS
  r1 = r1
  r2 = r2
  Requests = {r1, r2}
  Numbers <- MCNumbers
  Fib <- MCFib
  MayAsk <- MCMayAsk
  Bad = Bad
  Word = 2
  QueueSize = 2
CHECK_DEADLOCK FALSE
INVARIANTS TypeOK NoSpanLeftOpen ChildrenLeaveFirst QueueAccounted ServerErrorTraced CleanExitSendsSpans FibonacciCorrect
PROPERTIES EveryRequestReturns ShutdownEnds
