SPECIFICATION Spec
CONSTANTS
  a = a
  b = b
  A = a
  B = b
  Data = {1}
  IoCap = 1
  WireCap = 1
  MaxWrites <- TwoAndNone
  Droppers = {b}
INVARIANT EofIsTheEnd
CHECK_DEADLOCK FALSE
