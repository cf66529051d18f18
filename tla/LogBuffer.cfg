SPECIFICATION Spec
CONSTANTS
  N = 5
  LineSizes = {2, 3}
  Chars = {"a", "b", "n"}
  NL = "n"
  NUL = "0"
  Texts <- MCTexts
INVARIANTS TypeOK FullMeansFull LineFits
PROPERTY IsLossyQueue
