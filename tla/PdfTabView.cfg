SPECIFICATION Spec
CONSTANTS
  c1 = c1
  c2 = c2
  Lo = 0
  Hi = 2
  Call = {c1, c2}
  Box = {0, 1, 2}
  Width <- FitOf
  Page <- FitOf
  Bars <- Scrollbars
  Step <- UpOrDown
  ActualScale = 1
  MaxEvents = 3
CHECK_DEADLOCK FALSE
INVARIANTS
  PresentationIsSound
  DeferredIsOwned
  AnswersAreTrue
