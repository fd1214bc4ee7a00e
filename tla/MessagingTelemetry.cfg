SPECIFICATION FairSpec
CONSTANTS
  Ids = {c1}
  Names = {set}
  NoId = NoId
  Vacant = Vacant
  HandlerStatuses = {"ok"}
  HandlerCapacity = 1
  Window = 1
  Capacity = 2
  MaxSequence = 4
  MaxCommands = 1
INVARIANT LossIsCounted
INVARIANT TelemetryInOrder
PROPERTY BacklogDrains
