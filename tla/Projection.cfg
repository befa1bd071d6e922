CONSTANTS
  i = i
  Envelopes <- Edits
  Policy = "github"
  MaxRetries = 1
  Limit = 1
  MaxMessages = 2
  Other = Other
  MaxAccepted = 2
  MaxPulled = 2
  MaxTrouble = 2
SPECIFICATION FollowingSpec
INVARIANTS
  TypeOK
  SnapshotIsLatest
PROPERTIES
  ReadersFollow
  EverythingFollowed
