\* The leader and one more worker, which may crash; a client that submits twice.
CONSTANTS
  n1 = n1  n2 = n2  t1 = t1  t2 = t2  t3 = t3  c1 = c1  ollama = ollama  p1 = p1  ckpt = ckpt
  u1 = u1
  NodeId = {n1, n2}
  TaskId = {t1, t2}
  Capability = {c1, ollama}
  Payload = {p1, ckpt}
  NoNode = NoNode
  Verified = {n1, n2}
  Sender = sender
  Medium = medium
  Dispatcher = {sender, medium}
  Submissions <- MixedSubmissions
  Profiles <- HubProfiles
  Clock = {}
  EvictionTimeout = 5
  Leader = n1
  NoTask = NoTask
  Advertised <- BothAdvertised
  Probed <- MixedAdvertised
  Ollama = ollama
  Checkpoint = ckpt
  PipeCap = 1
  MaxCrashes = 1
  Client = {u1}
  Menu <- MixedSubmissions
  NoRequest = NoRequest
  FeedCap = 4
  MaxRequests = 2
  MaxTimeouts = 1
SPECIFICATION MediumSpec
SYMMETRY TaskSymmetry
INVARIANTS MediumTypeOK SingleDelivery RunningAccounted HandedOutOnce WatchesOwnTask OutcomeKept ToldTheOutcome
PROPERTIES CompletedIsFinal
CHECK_DEADLOCK FALSE
