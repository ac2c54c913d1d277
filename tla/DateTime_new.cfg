SPECIFICATION DisplaySpec
CONSTANTS
  HoursPerDay = 2
  MinutesPerHour = 2
  SecondsPerMinute = 2
  MillisPerSecond = 2
  MicrosPerMilli = 2
  Int64Max = 200000000
  RuntimeSafety = FALSE
  UnixInputs <- NewUnix
  FieldInputs <- NewFields
  AddInputs <- NewSteps
  ClockReadings <- NewClock
  Windows <- NewWindows
INVARIANTS
  FieldsIdentifyTheInstant
PROPERTIES
  FieldsAreChronological
  ImplementsCivilClock
