SPECIFICATION Spec
CONSTANTS
  RegisterWindows = {r1}
  ResetWindows = {s1}
  Period = 3
  MaxPosts = 2
INVARIANT
  SentIsTrue
CHECK_DEADLOCK FALSE
