SPECIFICATION Spec
CONSTANTS
  Characters <- SomeCharacters
  Texts <- AllShortTexts
  MAXLINE = 5
INVARIANTS CommandsAreMeant
CHECK_DEADLOCK FALSE
