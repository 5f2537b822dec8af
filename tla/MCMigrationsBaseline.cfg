SPECIFICATION Spec
CONSTANTS
  e1 = e1
  e2 = e2
  b1 = b1
  m1 = m1
  m2 = m2
  m3 = m3
  EncryptionIds = {e1, e2}
  IndexIds = {b1}
  Materials = {m1, m2, m3}
  Nothing = Nothing
  Rows = {1, 2}
  Urls = {u1, u2}
  Operators <- Keyrings
  Ages = {0, 2, 11, 12, 17}
  Batch = 1
  MaxStarts = 2
INVARIANTS RecordedBaselineIsWhole
CHECK_DEADLOCK FALSE
