SPECIFICATION FairSpec
CONSTANTS
  c1 = c1
  c2 = c2
  Callers = {c1, c2}
  SeqMod = 4
  InCap = 1
  Faults = {}
  MaxUnanswered = 1
  NoCaller = NoCaller
INVARIANTS OwnReply
CHECK_DEADLOCK FALSE
