CONSTANTS
  Tasks = {t1, t2}
  Units = {0, 1}
  Trays = {0}
  Fields = {type, color}
  Values = {v1, v2}
  Alarms = {hms}
  MaxReplies = 1
  MaxChanges = 2
  MaxBreaks = 2
  MaxWire = 1
CHECK_DEADLOCK FALSE
SPECIFICATION Spec
INVARIANTS TypeOK SnapshotFaithful ToldIsShown OutcomeHonest
PROPERTY PictureRecovers
