\* A service and a command, two directories, seven environments, and edits of the files.
SPECIFICATION LaunchSpec
CONSTANTS
  Processes = {"one", "two"}
  Project <- MCProject
  Dirs <- MCDirs
  Environments <- MCEnvironments
  Commands <- MCCommands
  Files <- MCFiles
  Zones = {"Asia/Ho_Chi_Minh"}
  Crons <- MCCrons
  Ids <- MCIds
  RunIds <- MCRunIds
  MaxEdits = 1
INVARIANTS ServerServesItsRun OneDatabase
PROPERTIES AbsolutePathsReachTheAgent
CHECK_DEADLOCK FALSE
