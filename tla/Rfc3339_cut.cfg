SPECIFICATION Spec
CONSTANTS
  HoursPerDay = 2
  MinutesPerHour = 1
  SecondsPerMinute = 3
  MillisPerSecond = 10
  MicrosPerMilli = 10
  PrefixDigits = 1
  UsizeMax = 99999
  Builds = {TRUE}
  Characters <- TextCharacters
  Texts <- NearTexts
  Values <- NoValues
INVARIANTS
  LooksInsideTheText
CHECK_DEADLOCK FALSE
