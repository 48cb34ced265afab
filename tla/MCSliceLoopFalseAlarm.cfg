\* A branch whose condition always holds, in a slice that skips its "then"
\* block.
CONSTANTS
  a = a
  s = s
  Local = {a}
  Shared = {s}
  Cases <- Skipping
SPECIFICATION LoopSpec
INVARIANT NoFalseAlarm
CHECK_DEADLOCK FALSE
