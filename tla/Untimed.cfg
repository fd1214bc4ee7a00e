SPECIFICATION MCSpec
CONSTANTS
  m1 = m1
  m2 = m2
  mBig = mBig
  Capacity = 3
  Messages <- MCMessages
  Oversized <- MCOversized
  Blank = Blank
  MaxDropped = 7
  Topics = {"go", "done"}
  Sinks = {"logger", "machine"}
  SubscribersPerTopic = 2
  QueueCapacity = 2
  Machine = "machine"
  Table <- MCTable
  MaxEvents = 4
  MaximumPayload = 2
  Opcodes <- MCOpcodes
  PayloadBytes <- MCPayloadBytes
  StaleBytes <- MCStaleBytes
  Masks <- MCMasks
  Characters <- MCCharacters
  JsonCapacities = {8, 16, 40}
  Keys <- MCKeys
  Strings <- MCStrings
  U32s = {0, 9, 10, 25}
  U32Max = 25
  PeerDigits <- MCPeerDigits
  MaxFields = 2
  ByteCapacity = 5
  Numbers <- MCNumbers
  MaxWrites = 4
  ActiveLow = {"indicator"}
  c1 = c1
  c2 = c2
  Contexts <- MCContexts
  NoContext = NoContext
  MaskFails = FALSE
  Commands = {"reboot", "set", "read"}
  GrantCapacity = 2
  Counters = {0, 1}
  CounterMax = 3
  Amounts = {1, 3}
  Faults = {"f", "g"}
  FaultCapacity = 2
  MaxFaults = 4
INVARIANT PolicyIsCurrent
INVARIANT DiagnosticsAreTrue
INVARIANT OrderedOnce
INVARIANT FrameSurvives
INVARIANT FieldsReadBack
INVARIANT NumbersReadBack
INVARIANT OkIsDurable
INVARIANT InterruptHasAnOwner
PROPERTY ImplementsFifo
