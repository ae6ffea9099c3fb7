CHECK_DEADLOCK FALSE
SPECIFICATION Spec
INVARIANTS
  TypeOK
  ReportsAreTrue
  OfferedIsAccepted
  SummaryIsComplete
  ShownAnswersQuestion
  AnnouncedOnce
  RunsFitTheirDataset
  FormsSettle
  RulesStaySound
PROPERTIES
  ShownMovesForward
