\* One worker and no crash: whatever is submitted completes, as promised; one wait may
\* fail.  The user picks the choice shown as interactive.
CONSTANTS
  n1 = n1  n2 = n2  t1 = t1  t2 = t2  t3 = t3  c1 = c1  ollama = ollama  p1 = p1  ckpt = ckpt
  u1 = u1
  NodeId = {n1}
  TaskId = {t1, t2, t3}
  Capability = {c1, ollama}
  Payload = {p1, ckpt}
  NoNode = NoNode
  Verified = {n1}
  Sender = sender
  Medium = medium
  Dispatcher = {sender, medium}
  Submissions <- PlainSubmissions
  Profiles <- HubProfiles
  Clock = {}
  EvictionTimeout = 5
  Leader = n1
  NoTask = NoTask
  Advertised <- AllAdvertised
  Probed <- AllAdvertised
  Ollama = ollama
  Checkpoint = ckpt
  PipeCap = 1
  MaxCrashes = 0
  Client = {u1}
  Menu <- InteractiveMenu
  NoRequest = NoRequest
  FeedCap = 4
  MaxRequests = 3
  MaxTimeouts = 1
SPECIFICATION FairMediumSpec
PROPERTIES EveryTaskCompletes SubmissionsAnswered ClientsAreServed KeepsClientPromise
CHECK_DEADLOCK FALSE
