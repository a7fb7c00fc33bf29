CONSTANTS
  Requests = {r1}
  Resets = {s1, s2}
  Operators = {o1}
  Logins = {l1}
  Passwords = {pwA, pwB}
  Cooldown = 1
  TokenTtl = 1
  MaxTime = 1
  Nobody = Nobody
SPECIFICATION FairSpec
INVARIANTS
  LinkWinsOnce
  VoidedNeverWins
  SessionMatchesPassword
PROPERTIES
  ResetsEnd
CHECK_DEADLOCK FALSE
