SPECIFICATION Spec
CONSTANTS
  KeyIds = {1, 2, 3}
  CatIds = {1, 2, 3}
  Names = {"old", "new"}
  u1 = u1
  u2 = u2
  s1 = s1
  Uris = {u1, u2}
  Sources = {s1}
  Users = {alice}
  Requests = {r1, r2}
  Local = Local
  Nothing = Nothing
  MaxWork = 3
  SeedKeys <- Seeds
  SeedCats <- Categories
INVARIANTS AllModeSeesEveryKey OneSavePerRevision IndexTellsTheSecret
PROPERTIES OrderIsTheRequested
CHECK_DEADLOCK FALSE
