SPECIFICATION InterpreterSpec
CONSTANTS
  Lexicon <- TheLexicon
  RegexMatch <- TheRegexes
  MaxDepth = 13
  SplitLimit = 3
  Name = "name"
  CommonTags <- NoTags
  NaN = NaN
  Numbers <- TheNumbers
  Measurements <- TheMeasurements
  Vocabularies <- TheVocabularies
  MaxStack = 3
  MaxItems = 3
CHECK_DEADLOCK FALSE
INVARIANTS
  QueriesMeanWhatIsWritten
  IndexFindsWhatMatches
  GroupsAreOfTheSelected
  RulesGetAllTheyWant
