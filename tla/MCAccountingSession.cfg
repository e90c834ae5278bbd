SPECIFICATION FairSpec
CONSTANTS
  c1 = c1
  c2 = c2
  c3 = c3
  Callers = {c1, c2, c3}
  SeqMod = 2
  InCap = 1
  Faults = {"cancel", "close"}
  MaxUnanswered = 1
  NoCaller = NoCaller
INVARIANTS TypeOK GuardFollowsCall ReplyForEveryWaiter LateCallsRefused NumbersTellDirection
PROPERTIES CallReturns
CHECK_DEADLOCK FALSE
