\* One Route, two edits of ConfigMaps, two terms as leader; one of the first
\* ConfigMaps may be missing or invalid.
SPECIFICATION FairSpec
CONSTANTS
  Routes = {"r1"}
  MaxChanges = 2
  MaxElections = 2
INVARIANTS TypeOK RunsUseTheStore RunsSeeSyncedCaches
PROPERTIES EditsReachRoutes StartupEnds
CHECK_DEADLOCK FALSE
