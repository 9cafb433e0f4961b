SPECIFICATION LabSpec
CONSTANTS
  W = 8
  EB = 4
  CommandLines <- SomeCommandLines
  Texts <- SomeTexts
  MAXARGC = 2
  TEST_RANGE = 3
  Randoms <- SomeRandoms
  Looping = {"tmin"}
  Slow = {"howManyBits"}
INVARIANTS VerdictsAreRight FixedValuesAreTyped FullMarksMeanAllRight
           ValuesAreExact
PROPERTIES TestsComeToAnEnd
CHECK_DEADLOCK FALSE
