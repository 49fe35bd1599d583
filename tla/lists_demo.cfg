SPECIFICATION DemoSpec
CONSTANTS
  Addr = {a1, a2, a3, a4, a5, a6, a7, a8, a9}
  NULL = NULL
  Half = 128
  Value <- Demonstrated
CHECK_DEADLOCK FALSE
INVARIANT DemoRuns
