SPECIFICATION Spec
CONSTANTS
    MaxPieces = 4
    Texts <- MCTexts
    Letters <- MCLetters
    Digits <- MCDigits
    Keywords <- MCKeywords
INVARIANTS
    TokensExact
    PlacesExact
PROPERTIES
    Finishes
CHECK_DEADLOCK FALSE
