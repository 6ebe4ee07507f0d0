\* Three nodes.  Node 1 may start late and fall silent, node 2 may miss
\* announcements, one of the three may crash.
CONSTANTS
  Node = {1, 2, 3}
  Late = {1}
  Deaf = {2}
  Crowded = {1}
  MaxCrashes = 1
SPECIFICATION FairSpec
INVARIANTS TypeOK FollowsRealLeader OnlySmallestLeads
PROPERTIES SwarmForms SplitBrainHeals
CHECK_DEADLOCK FALSE
