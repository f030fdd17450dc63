SPECIFICATION Spec
CONSTANTS
  a1 = a1 a2 = a2 c1 = c1 c2 = c2 c3 = c3 q1 = q1 q2 = q2 q3 = q3 t1 = t1 t2 = t2
  Account = {a1, a2}
  Unknown = Unknown
  ClientId = {c1}
  RequestId = {q1, q2, q3}
  Task = {t1, t2}
  LeaseTTL = 2
  HardTTL = 3
  MaxActive = 1
SYMMETRY Symmetric
INVARIANT TypeOK
INVARIANT LeaseWithinHard
INVARIANT OneRequestPerClientId
PROPERTY ImplementsRequestBook
PROPERTY SealedBlockStaysSealed
PROPERTY RemovalIsAuthorised
PROPERTY OnlyTheSenderRenews
