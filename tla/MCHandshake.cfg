\* Three clients collide on the server, one may disappear.
CONSTANTS
  Client = {c1, c2, c3}
  None = None
  MaxTokens = 4
  MaxCrashes = 1
SPECIFICATION FairSpec
INVARIANTS TypeOK GrantsAreOwn ServerSurvives
PROPERTIES GrantReachesClient
CHECK_DEADLOCK FALSE
