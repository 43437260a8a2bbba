SPECIFICATION Spec
CONSTANTS
  None = None
  overview = overview
  tasks = tasks
  logs = logs
  Browser = browser
  Login = login
  DefaultPath = overview
  Menu <- MCMenu
  Typed <- MCTyped
  Scenarios <- MCScenarios
INVARIANTS TypeOK PageHasActiveTab StoredAsChosen StaysLocked AutomaticButtonIsShown RoundTrip
