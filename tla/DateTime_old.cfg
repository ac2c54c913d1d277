SPECIFICATION Spec
CONSTANTS
  HoursPerDay = 2
  MinutesPerHour = 2
  SecondsPerMinute = 2
  MillisPerSecond = 2
  MicrosPerMilli = 2
  Int64Max = 200000000
  RuntimeSafety = TRUE
  UnixInputs <- OldUnix
  FieldInputs <- OldFields
  AddInputs <- OldSteps
  ClockReadings <- None
  Windows <- OldWindows
INVARIANTS
  TypeOK
  FieldsAreValid
  FieldsIdentifyTheInstantOrTheNextDay
  StoringLosesLessThanAUnit
  InitUTCAcceptsTheYears
  InitUTCKeepsTheFields
  OverflowOnlyOutside
CHECK_DEADLOCK FALSE
