\* A frame goes to any worker, not to the one the scheduler chose.
CONSTANTS
  n1 = n1  n2 = n2  t1 = t1  t2 = t2  t3 = t3  c1 = c1  ollama = ollama  p1 = p1  ckpt = ckpt
  NodeId = {n1, n2}
  TaskId = {t1, t2}
  Capability = {c1, ollama}
  Payload = {p1, ckpt}
  NoNode = NoNode
  Verified = {n1, n2}
  Sender = sender
  Medium = medium
  Dispatcher = {sender, medium}
  Submissions <- MixedSubmissions
  Profiles <- HubProfiles
  Clock = {}
  EvictionTimeout = 5
  Leader = n1
  NoTask = NoTask
  Advertised <- MixedAdvertised
  Probed <- MixedAdvertised
  Ollama = ollama
  Checkpoint = ckpt
  PipeCap = 1
  MaxCrashes = 1
SPECIFICATION HubSpec
INVARIANTS OnlyCapableReceive
CHECK_DEADLOCK FALSE
