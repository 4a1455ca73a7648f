SPECIFICATION Spec
CONSTANTS
  Crates <- MCCrates
  Align <- MCAlign
  Impls <- MCImpls
  STACK = 5
INVARIANTS
  VisitorsKeepToPaths
  ItemsHaveOrigins
  ReportIsOfFirstCall
PROPERTIES
  ChecksEnd
