\* Feeds of one to three lines or documents: every codec, every form of a body, and an
\* import after a preview of the same or of another body.
SPECIFICATION FeedsSpec
CONSTANTS
  LowerOf <- MCLowerOf
  TrimOf <- MCTrimOf
  NumberOf <- MCNumberOf
  DurationOf <- MCDurationOf
  HostOf <- MCHostOf
  PinOf <- MCPinOf
  Uuids = {"ID-1", "id-1"}
  NearUuids = {"nearly"}
  Secrets2022 <- MCSecrets2022
  KeyOrder <- MCKeyOrder
  Bodies <- MCBodies
  Updated <- MCUpdated
  MaxItems = 3
  MaxUpdates = 1
  Picks <- MCPicks
  Nothing = Nothing
INVARIANTS
  OneKeyPerProfile
  StoredLinkKeepsIdentity
  SelectionIsExact
