SPECIFICATION Spec
CONSTANTS
  HoursPerDay = 2
  MinutesPerHour = 1
  SecondsPerMinute = 3
  MillisPerSecond = 10
  MicrosPerMilli = 10
  PrefixDigits = 1
  UsizeMax = 99999
  Builds = {TRUE, FALSE}
  Characters <- TextCharacters
  Texts <- NearTexts
  Values <- ValidValues
INVARIANTS
  TypeOK
  AcceptsTheGrammar
  ReadsTheMeaning
  WrittenReadsBack
  PanicsOnlyAfterADateOrInAFraction
CHECK_DEADLOCK FALSE
