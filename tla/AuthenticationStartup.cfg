SPECIFICATION Spec
CONSTANTS
  a1 = a1 a2 = a2 q1 = q1 q2 = q2 t1 = t1 t2 = t2
  Account = {a1, a2}
  Unknown = Unknown
  ChallengeId = {q1, q2}
  Task = {t1, t2}
  ChallengeTTL = 1
  DayLength = 2
SYMMETRY Symmetric
PROPERTY StartupRemovesExpired
