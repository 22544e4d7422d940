SPECIFICATION Spec
CONSTANTS
  None = None
  Requests = {r1, r2}
  Tokens = {t1}
SYMMETRY RequestSymmetry
INVARIANT TypeOK
INVARIANT ServedWasAuthorised
INVARIANT RefusalWasJustified
