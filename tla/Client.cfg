SPECIFICATION FairSpec
CONSTANTS
  RegisterWindows = {r1, r2}
  ResetWindows = {s1}
  Period = 3
  MaxPosts = 3
INVARIANTS
  TypeOK
  ButtonHasTimer
  ConfirmAfterMail
  DoneIsTrue
PROPERTY
  SendComesBack
CHECK_DEADLOCK FALSE
