SPECIFICATION Spec
CONSTANTS
  Clients = {c1, c2}
  Gens = {a, b, c, d}
  Tokens = {t1, t2, t3}
  Revoked = Revoked
  MaxLate = 2
  EpochSurvives = TRUE
  None = None
SYMMETRY Symmetry
INVARIANTS LogoutFinal LoginRequiredDeserved
PROPERTIES RefreshOnce LoginUndisturbed
