CONSTANTS
  BufLens <- Builds
  Tees <- AllTees
SPECIFICATION Spec
INVARIANTS
  TaStaysInside
  OneBuildAccepts
  AnswerInPlace
