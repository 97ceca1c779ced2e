\* Two IOCs that number their commands alike and datagrams in any order.  In
\* one setting the console writes the debug flags, in the other the hardware
\* changes its points.  The IOCs stop at MaxNumber, or HwNumber.
SPECIFICATION KindSpec
SYMMETRY IocPermutations
INVARIANT ReplyTellsSetting
CONSTANTS
  Ioc = {a, b}
  InOrder = FALSE
  Point = {"debug", "eventTriggers", "atEnable", "arm"}
  Value = {33, 1}
  PlainPoint = {"debug", "eventTriggers"}
  PlainValue = {33}
  HwPoint = {"atEnable", "arm"}
  HwValue = {1}
  HwNumber = 1
  FullScale = 3
  Capacity = 3
  MaxNumber = 2
  MaxRestarts = 0
CHECK_DEADLOCK FALSE
