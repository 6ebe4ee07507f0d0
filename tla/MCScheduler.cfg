\* Two nodes, two tasks of every type, one dispatch pass at a time.
CONSTANTS
  n1 = n1  n2 = n2  t1 = t1  t2 = t2  c1 = c1  p1 = p1  p2 = p2  d1 = d1  d2 = d2
  NodeId = {n1, n2}
  TaskId = {t1, t2}
  Capability = {c1}
  Payload = {p1, p2}
  NoNode = NoNode
  Dispatcher = {d1}
  Submissions <- MixedSubmissions
  Profiles <- TwoProfiles
  Verified = {n1, n2}
  Clock = {800, 1700}
  EvictionTimeout = 500
SPECIFICATION Spec
SYMMETRY Symmetry
INVARIANTS TypeOK AttemptsPaidFor AttemptsBounded RecoveryAgrees
PROPERTIES RecoveryKeepsCheckpoint BalancedPass OrphansAreStalePasses KeepsPromise
