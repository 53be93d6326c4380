\* Texts of up to 8 tokens; some that are not in the language are accepted.
CONSTANTS
  Id = {"a"}
  Label = {":l"}
  Constant = {"1"}
  End = "end"
  NoName = ""
  MaxTokens = 8
  Texts <- allTexts
  Fields <- allFields
  IntBits = 3
  LongBits = 4
  NoDigits <- None
SPECIFICATION TextSpec
INVARIANTS
  AcceptsOnlySentences
\* a parse or a comparison that ended takes no further step
CHECK_DEADLOCK FALSE
