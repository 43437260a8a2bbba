SPECIFICATION PanelFairSpec
CONSTANTS
  MaxBytes = 7
  TailLines = 1
  MaxCuts = 3
  MaxBeats = 1
INVARIANTS ResumesExactly
PROPERTIES PanelSettles
\* A panel may be closed, and the log is then as long as it gets.
CHECK_DEADLOCK FALSE
