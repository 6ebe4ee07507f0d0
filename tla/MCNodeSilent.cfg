\* The hub machine of the prototype, alone: it leads and works for itself.
CONSTANTS
  App <- Apps
  Bundle <- Bundles
  AppName <- Underscored
  AppPath <- Spaced
  Dir = {"/usr/bin", "/opt/homebrew/bin"}
  Homebrew = {"/opt/homebrew/bin"}
  Machines <- HubMachine
  Asked <- SomeAsked
  Session = {}
  MaxTasks = 0
  MaxChanges = 0
SPECIFICATION FairSpec
PROPERTIES AlwaysAnnounces
CHECK_DEADLOCK FALSE
