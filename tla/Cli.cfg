SPECIFICATION Spec
CONSTANTS
  Addresses <- SomeAddresses
  Characters <- SomeCharacters
  Strokes <- SomeStrokes
  Lines <- SomeLines
INVARIANTS TypeOK NeverDies RunsWhatWasTyped WholeCommandRuns
CHECK_DEADLOCK FALSE
