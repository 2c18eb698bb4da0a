\* Two migrations, two runs, and one death or failure of each kind while both prune.
SPECIFICATION FairSpec
CONSTANTS
  Processes <- MCProcesses
  Pruners <- MCProcesses
  Days <- MCDays
  Service = "serve"
  Nobody = Nobody
  Newest = 2
  Runs = {1, 2}
  MaxAge = 2
  MaxFailures = 1
  MaxDeaths = 2
INVARIANTS LedgerIsTheSchema
PROPERTIES FilesGoFirst ExpiredRunsGo
