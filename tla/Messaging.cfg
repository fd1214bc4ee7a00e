SPECIFICATION Spec
CONSTANTS
  Ids = {c1, c2, c3}
  Names = {set}
  NoId = NoId
  Vacant = Vacant
  HandlerStatuses = {"ok"}
  HandlerCapacity = 1
  Window = 2
  Capacity = 2
  MaxSequence = 1
  MaxCommands = 4
SYMMETRY MCSymmetry
INVARIANT OnceInWindow
INVARIANT AnswersAreTrue
