CHECK_DEADLOCK FALSE
SPECIFICATION Spec
CONSTANTS
  None = None
  Tasks = {t1, t2}
  m1 = m1
  m2 = m2
  Models = {m1, m2}
  Sliced <- MCSliced
  Heavy = {m1}
  Spools = {s1}
  Originals = {o1}
  Names = {n1}
  TrayIds = {0, 1}
  Reels <- MCReels
  Loaded <- MCLoaded
  Choices = {0}
  Settings = {None}
  MaxAsks = 1
  MaxUpsets = 1
SYMMETRY Symmetry
PROPERTY DefaultsFollow
