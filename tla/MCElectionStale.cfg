\* A smaller node starts while another one leads.
CONSTANTS
  Node = {1, 2}
  Late = {1}
  Deaf = {}
  Crowded = {}
  MaxCrashes = 0
SPECIFICATION FairSpec
PROPERTIES StaleLeaderLeft
CHECK_DEADLOCK FALSE
