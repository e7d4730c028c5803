CONSTANTS
  Inputs <- MCInputs
  Effects <- MCEffects
  Dictionaries <- MCDictionaries
  InterestingTokens <- MCInterestingTokens
  MIN_AUTO_EXTRA = 3
  MAX_AUTO_EXTRA = 4
  USE_AUTO_EXTRAS = 2
  MAX_AUTO_EXTRAS = 4
  MAX_CALLS = 3
  SameDictionary = TRUE
SPECIFICATION DictionarySpec
INVARIANTS TokensAreRuns EveryTokenIsTried SavedIsCurrent
