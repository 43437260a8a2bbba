SPECIFICATION FairSpec
CONSTANTS
  p1 = p1
  p2 = p2
  Password = {p1, p2}
  Open = Open
  None = None
  poll = poll
  login = login
  logout = logout
  Request = {poll, login, logout}
  Kind <- MCKind
  MaxChanges = 1
  MaxLost = 3
  MaxReloads = 1
INVARIANTS NobodyWaitsAlone
PROPERTIES Settles RevokedSessionEnds LogoutEnds
