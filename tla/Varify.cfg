SPECIFICATION FairSpec
CONSTANTS
  Calls = {c1, c2}
  Emails = {e1}
  MaxCodes = 4
  Faults = TRUE
INVARIANTS
  TypeOK
  MailedCodeExpires
  KeysExpire
  AcceptedWasMailed
PROPERTY
  Answered
