SPECIFICATION FairSpec
CONSTANTS
  p = p
  q = q
  n = n
  d = d
  Rcpt = {p, q, n, d}
  Known = {p, q}
  NoUser = {n}
  Flag <- MCFlag
  BodyLen = 2
  Attach = 1
  MaxBody = 3
  MaxTo = 3
  MaxRounds = 5
  Outcome = {"done", "lost", "failed"}
  MaxMail = 1
  MaxRestart = 1
PROPERTIES SessionEnds
INVARIANTS SuccessIsStored ParentIsText OnlyForNamed
CHECK_DEADLOCK FALSE
