SPECIFICATION Spec
CONSTANTS
  c1 = c1
  c2 = c2
  s1 = s1
  s2 = s2
  Rows = {1, 2, 3, 4}
  ConsumerOf <- ConsumersOf
  SourceOf <- SourcesOf
  LabelsOf <- RowLabels
  NoLabel = NoLabel
  NamespaceAll = NamespaceAll
  Source = s1
  Absent = Absent
  Junk = Junk
  MaxListPageSize = 2
  MAX_LIST_SIZE = 3
  DefaultSize = 2
  Selectors <- LabelSelectors
  Limits = {0, 1, 2, 3}
  Params <- Queries
  MaxRows = 3
  MaxChanges = 1
INVARIANTS NothingSkipped NothingTwice ReadExactly 
PROPERTY ReadingEnds
CHECK_DEADLOCK FALSE
