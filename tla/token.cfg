\* Two users, one of them in the lists' reach, two terms with one text, three changes.
SPECIFICATION Spec
CONSTANTS
  Users = {u1, u2}
  manager = manager
  burner = burner
  Contracts = {manager, burner}
  Texts = {t1}
  MaxTerms = 2
  Listable = {u1, manager}
  MaxChanges = 3
INVARIANTS
  TypeOK
  AllowedByConsent
PROPERTIES
  MovementsPassTheLists
  ClaimsArrive
