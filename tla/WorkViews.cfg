SPECIFICATION LiveSpec
CONSTANTS
  Absent = Absent
  MaxVersion = 3
  MaxSeq = 4
  MaxStatus = 0
  MaxChanges = 2
CHECK_DEADLOCK FALSE
INVARIANTS
  NamesApart
  
  
PROPERTIES
  NoLostUpdate
  StatusHeals
