\* Machines of 3, 4 and 5 cores, two sessions with leaders, two tasks, one change.
CONSTANTS
  App <- Apps
  Bundle <- Bundles
  AppName <- Underscored
  AppPath <- Spaced
  Dir = {"/usr/bin", "/opt/homebrew/bin"}
  Homebrew = {"/opt/homebrew/bin"}
  Machines <- AllMachines
  Asked <- SomeAsked
  Session = {"s1", "s2"}
  MaxTasks = 2
  MaxChanges = 1
SPECIFICATION FairSpec
INVARIANTS TypeOK OffersWhatItRuns RunsWhatItOffers
PROPERTIES AnnouncesWhileRoom LeaderWorks
CHECK_DEADLOCK FALSE
