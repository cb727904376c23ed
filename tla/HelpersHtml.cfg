CONSTANTS
  KEYCODELENGTH = 3
  AesKeyLengths = {3, 5}
  DesBlock = 2
  CommandSize = 6
  Printable = {65, 66, 67}
  Texts <- MCTexts
  Keys <- MCKeys
  Garbage <- MCGarbage
  Tokens <- MCTokens
  codes <- MCCodes
  HtmlTexts <- MCHtmlTexts
  WeightLists <- MCWeightLists
SPECIFICATION Spec
INVARIANT DecodeUndoesEncode
