SPECIFICATION Spec
CONSTANTS
  k1 = k1 k2 = k2 k3 = k3 t1 = t1 t2 = t2
  Key = {k1, k2, k3}
  Short = Short
  Spelling <- Spellings
  MinLen = 2
  MaxLen = 3
  Task = {t1, t2}
SYMMETRY Symmetric
INVARIANT TypeOK
INVARIANT SpellingsFindOne
INVARIANT IdsNameKeys
INVARIANT AcknowledgedIsFound
INVARIANT RefusedForAReason
PROPERTY NamesAreKept
