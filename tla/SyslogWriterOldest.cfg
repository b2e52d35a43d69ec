CONSTANTS
  SegmentLines = 2
  MaxSeq = 3
  RetentionDays = 1
  MaxLines = 6
  MaxDay = 3
  MaxFaults = 0
SPECIFICATION LogSpec
PROPERTY DropsOldestFirst
CHECK_DEADLOCK FALSE
