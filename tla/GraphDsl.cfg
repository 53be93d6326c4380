\* Every text of up to MaxTokens tokens, and literals for an int32 of 3 bits and
\* a long of 4.
CONSTANTS
  Id = {"a"}
  Label = {":l"}
  Constant = {"1"}
  End = "end"
  NoName = ""
  MaxTokens = 14
  Texts <- allTexts
  Fields <- allFields
  IntBits = 3
  LongBits = 4
  NoDigits <- None
SPECIFICATION TextSpec
INVARIANTS
  ParseTypeOK
  OneNodeMore
  UnderstandsSentences
  RefusesNoSentence
  AnswersExact
  NumbersAreAnswered
PROPERTIES
  EveryParseEnds
\* a parse or a comparison that ended takes no further step
CHECK_DEADLOCK FALSE
