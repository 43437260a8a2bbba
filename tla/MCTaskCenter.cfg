SPECIFICATION CacheFairSpec
CONSTANTS
  r1 = r1
  r2 = r2
  mysql = mysql
  Run = {r1, r2}
  ModelOf <- OneModel
  Scenarios <- TwoPages
  Nothing = Nothing
  MaxVersion = 2
INVARIANTS DeletedRowIsGone
PROPERTIES NeverGoesBack ShownCatchesUp
